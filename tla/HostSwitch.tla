----------------------------- MODULE HostSwitch -----------------------------
(***************************************************************************)
(* Switching linked devices to another host                                *)
(* (crates/openlogi-device/src/session/host_switch.rs): a session diverts  *)
(* the keyboard's host keys and waits for one of them, gives the keys      *)
(* back, and its caller then moves the linked devices and, last, the       *)
(* keyboard.                                                               *)
(*                                                                         *)
(* Hosts are numbered per device: home[d] is this computer's number on d.  *)
(* A device is within reach while it is at home; one that shares the       *)
(* keyboard's receiver is reached through the keyboard's channel.  Every   *)
(* HID++ operation is answered, takes effect though its answer does not    *)
(* come in time, or fails.  The reads that prepare a move are one step:    *)
(* they change nothing, and what they found may be stale at the write.     *)
(***************************************************************************)
EXTENDS Naturals, FiniteSets

CONSTANTS Keyboard, Targets, Hosts, Controls, NoHost,
          MaxLeaves     \* bound: devices that leave by themselves
CONSTANTS HostOf(_),    \* the host a control stands for (host_channel)
          Shares(_)     \* whether a target shares the keyboard's transport

ASSUME KeyboardIsNoTarget == Keyboard \notin Targets
ASSUME NoHostIsNone == NoHost \notin Hosts
ASSUME LeavesAreCounted == MaxLeaves \in Nat
ASSUME ControlsHaveHosts == \A c \in Controls : HostOf(c) \in Hosts

VARIABLES
    home, slot,   \* the devices' tables: this computer, and each host's state
    at,           \* host each device is connected to
    capability,   \* how a control can be reported
    reporting,    \* how the firmware reports it
    original,     \* what arming read and recorded, for the controls recorded
    step,         \* where the session or its caller is
    rest,         \* controls still to arm or restore, or targets still to move
    item,         \* the one at hand
    again,        \* a control's restoration has failed once
    verdict,      \* what the session will return
    host,         \* host asked for
    required,     \* PreparedHostChange: devices that have to move
    gate,         \* DeviceIoGate
    leaves,       \* devices that left by themselves
    excused,      \* ghost: targets that had trouble of their own
    unrestored    \* ghost: controls whose restoration failed twice

switchVars == <<home, slot, at, capability, reporting, original, step, rest,
                item, again, verdict, host, required, gate, leaves, excused,
                unrestored>>
tables == <<home, slot, capability>>
ghosts == <<excused, unrestored>>

Moving == Targets \cup {Keyboard}
Nothing == NoHost
Modes == {"native", "diverted", "analytics"}
Results == {"answered", "unheard", "failed"}

SwitchTypes ==
    /\ home \in [Moving -> Hosts] /\ at \in [Moving -> Hosts]
    /\ slot \in [Moving -> [Hosts -> {"paired", "empty", "outside"}]]
    /\ capability \in [Controls -> {"divertable", "analytics", "none"}]
    /\ reporting \in [Controls -> Modes]
    /\ original \in [Controls -> Modes \cup {Nothing}]
    /\ step \in {"idle", "read", "write", "wait", "gate", "restore", "undo",
                 "returned", "asked", "targets", "move", "moved", "done"}
    /\ rest \subseteq Controls \cup Targets
    /\ item \in Controls \cup Targets \cup {Nothing}
    /\ again \in BOOLEAN
    /\ verdict \in {"none", "error", "stopped", "lost", "pressed"}
    /\ host \in Hosts \cup {NoHost}
    /\ required \subseteq Moving
    /\ gate \in {"open", "closed", "gone"}
    /\ leaves \in 0..MaxLeaves
    /\ excused \subseteq Targets /\ unrestored \subseteq Controls

ModeOf(c) == CASE capability[c] = "divertable" -> "diverted"
               [] capability[c] = "analytics" -> "analytics"
               [] OTHER -> "native"

SwitchInit ==
    /\ home \in [Moving -> Hosts]
    /\ slot \in [Moving -> [Hosts -> {"paired", "empty", "outside"}]]
    /\ \A d \in Moving : slot[d][home[d]] = "paired"
    /\ at = home
    /\ capability \in [Controls -> {"divertable", "analytics", "none"}]
    /\ reporting \in [Controls -> Modes]
    /\ \A c \in Controls : reporting[c] \in {"native", ModeOf(c)}
    /\ original = [c \in Controls |-> Nothing]
    /\ step = "idle" /\ rest = {} /\ item = Nothing /\ again = FALSE
    /\ verdict = "none" /\ host = NoHost /\ required = {}
    /\ gate \in {"open", "closed"} /\ leaves = 0
    /\ excused = {} /\ unrestored = {}

Here(d) == at[d] = home[d]
Reached(d) == Here(d) /\ (d \in Targets /\ Shares(d) => Here(Keyboard))
Works(d, r) == r = "answered" /\ Reached(d)
Recorded == {c \in Controls : original[c] # Nothing}
-----------------------------------------------------------------------------
(***************************************************************************)
(* The session (run_host_switch_session).                                  *)
(***************************************************************************)
Return(v) == step' = "returned" /\ verdict' = v

\* The gate is looked at once; opening, locating the feature and counting
\* the controls may each fail, and then nothing has been touched.
OpenKeyboard(r) ==
    /\ step = "idle"
    /\ IF gate = "open" /\ Works(Keyboard, r)
       THEN step' = "read" /\ rest' = Controls /\ UNCHANGED verdict
       ELSE Return("error") /\ UNCHANGED rest
    /\ UNCHANGED <<tables, at, reporting, original, item, again, host, required,
                   gate, leaves, ghosts>>

\* arm_host_controls undoes what its inner loop recorded.
StartUndo ==
    /\ step' = "undo" /\ verdict' = "error"
    /\ rest' = Recorded /\ item' = Nothing

\* Information about the next control, and how it is reported now: recorded
\* before the write that changes it.
ReadControl(c, r) ==
    /\ step = "read" /\ c \in rest
    /\ IF ~Works(Keyboard, r) THEN StartUndo /\ UNCHANGED original
       ELSE IF capability[c] = "none"
       THEN rest' = rest \ {c} /\ UNCHANGED <<original, step, verdict, item>>
       ELSE /\ original' = [original EXCEPT ![c] = reporting[c]]
            /\ rest' = rest \ {c} /\ item' = c /\ step' = "write"
            /\ UNCHANGED verdict
    /\ UNCHANGED <<tables, at, reporting, again, host, required, gate, leaves,
                   ghosts>>

\* Mutant: only controls whose write was answered are given back.
DivertRecordingAfter(r) ==
    /\ step = "write"
    /\ reporting' = IF r # "failed" /\ Here(Keyboard)
                    THEN [reporting EXCEPT ![item] = ModeOf(item)] ELSE reporting
    /\ IF Works(Keyboard, r)
       THEN step' = "read" /\ item' = Nothing /\ UNCHANGED <<rest, verdict>>
       ELSE /\ step' = "undo" /\ verdict' = "error"
            /\ rest' = Recorded \ {item} /\ item' = Nothing
    /\ UNCHANGED <<tables, at, original, again, host, required, gate, leaves,
                   ghosts>>

Divert(r) ==
    /\ step = "write"
    /\ reporting' = IF r # "failed" /\ Here(Keyboard)
                    THEN [reporting EXCEPT ![item] = ModeOf(item)] ELSE reporting
    /\ IF Works(Keyboard, r)
       THEN step' = "read" /\ item' = Nothing /\ UNCHANGED <<rest, verdict>>
       ELSE StartUndo
    /\ UNCHANGED <<tables, at, original, again, host, required, gate, leaves,
                   ghosts>>

\* No reportable control is an error; otherwise the listener is installed.
Armed ==
    /\ step = "read" /\ rest = {}
    /\ IF Recorded = {} THEN Return("error")
                        ELSE step' = "wait" /\ UNCHANGED verdict
    /\ UNCHANGED <<tables, at, reporting, original, rest, item, again, host,
                   required, gate, leaves, ghosts>>

\* event_host: the host of an armed control that was pressed.
Pressed(c) ==
    /\ step = "wait" /\ Here(Keyboard)
    /\ c \in Recorded /\ reporting[c] # "native"
    /\ step' = "gate" /\ verdict' = "pressed" /\ host' = HostOf(c)
    /\ UNCHANGED <<tables, at, reporting, original, rest, item, again, required,
                   gate, leaves, ghosts>>

\* shutdown: graceful, or the device is lost (a dropped sender means that).
Stop(graceful) ==
    /\ step = "wait"
    /\ IF graceful THEN step' = "gate" /\ verdict' = "stopped" ELSE Return("lost")
    /\ UNCHANGED <<tables, at, reporting, original, rest, item, again, host,
                   required, gate, leaves, ghosts>>

\* wait_until_allowed; FALSE when the gate's owner is gone.
GateAllows ==
    /\ step = "gate" /\ gate # "closed"
    /\ IF gate = "open" THEN step' = "restore" /\ rest' = Recorded
                        ELSE step' = "returned" /\ UNCHANGED rest
    /\ UNCHANGED <<tables, at, reporting, original, item, again, verdict, host,
                   required, gate, leaves, ghosts>>

\* restore_host_control: what was recorded is written back, and once more if
\* that fails.  Only the flags this session set are written.
Restore(c, r) ==
    /\ step \in {"restore", "undo"} /\ c \in rest
    /\ again => item = c
    /\ reporting' = IF r # "failed" /\ Here(Keyboard)
                    THEN [reporting EXCEPT ![c] = original[c]] ELSE reporting
    /\ IF Works(Keyboard, r) \/ again
       THEN /\ rest' = rest \ {c} /\ again' = FALSE /\ item' = Nothing
            /\ unrestored' = IF Works(Keyboard, r) THEN unrestored
                             ELSE unrestored \cup {c}
       ELSE again' = TRUE /\ item' = c /\ UNCHANGED <<rest, unrestored>>
    /\ UNCHANGED <<tables, at, original, step, verdict, host, required, gate,
                   leaves, excused>>

Restored ==
    /\ step \in {"restore", "undo"} /\ rest = {}
    /\ step' = "returned"
    /\ UNCHANGED <<tables, at, reporting, original, rest, item, again, verdict,
                   host, required, gate, leaves, ghosts>>
-----------------------------------------------------------------------------
(***************************************************************************)
(* Its caller (switch_linked_hosts).                                       *)
(***************************************************************************)
Ask ==
    /\ step = "returned" /\ verdict = "pressed"
    /\ step' = "asked"
    /\ UNCHANGED <<tables, at, reporting, original, rest, item, again, verdict,
                   host, required, gate, leaves, ghosts>>

\* host_change_required, host_slot_is_empty: advisory, an unreadable status
\* does not refuse.
Refuses(d, readable) ==
    \/ slot[d][host] = "outside"
    \/ at[d] # host /\ readable /\ slot[d][host] = "empty"

Prepared(d, r, readable) == Works(d, r) /\ ~Refuses(d, readable)
Needs(d) == IF at[d] # host THEN required \cup {d} ELSE required

\* Mutant: the keyboard's own move is prepared when its turn comes.
PrepareKeyboardLater(r, readable) ==
    /\ step = "asked"
    /\ step' = "targets" /\ rest' = Targets
    /\ required' = IF at[Keyboard] # host /\ Prepared(Keyboard, r, readable)
                   THEN {Keyboard} ELSE {}
    /\ UNCHANGED <<tables, at, reporting, original, item, again, verdict, host,
                   gate, leaves, ghosts>>

PrepareKeyboard(r, readable) ==
    /\ step = "asked"
    /\ IF Prepared(Keyboard, r, readable)
       THEN step' = "targets" /\ rest' = Targets /\ required' = Needs(Keyboard)
       ELSE step' = "done" /\ UNCHANGED <<rest, required>>
    /\ UNCHANGED <<tables, at, reporting, original, item, again, verdict, host,
                   gate, leaves, ghosts>>

\* prepare_host_change; a target that cannot be prepared is left behind.
PrepareTarget(t, r, readable) ==
    /\ step = "targets" /\ t \in rest
    /\ rest' = rest \ {t}
    /\ IF Prepared(t, r, readable)
       THEN /\ required' = Needs(t) /\ step' = "move" /\ item' = t
            /\ UNCHANGED excused
       ELSE /\ excused' = IF r # "answered" \/ ~Here(t) \/ Refuses(t, readable)
                          THEN excused \cup {t} ELSE excused
            /\ UNCHANGED <<required, step, item>>
    /\ UNCHANGED <<tables, at, reporting, original, again, verdict, host, gate,
                   leaves, unrestored>>

\* set_current_host; a device that goes to a host that is not there is gone
\* from here all the same.
Goes(d, r) ==
    at' = IF d \in required /\ r # "failed" /\ Reached(d)
          THEN [at EXCEPT ![d] = host] ELSE at

\* apply_host_change; an error is logged
MoveTarget(r) ==
    /\ step = "move"
    /\ Goes(item, r)
    /\ step' = "targets" /\ item' = Nothing
    /\ excused' = IF item \in required /\ (r # "answered" \/ ~Here(item))
                  THEN excused \cup {item} ELSE excused
    /\ UNCHANGED <<tables, reporting, original, rest, again, verdict, host,
                   required, gate, leaves, unrestored>>

MoveKeyboard(r) ==
    /\ step = "targets" /\ rest = {}
    /\ Goes(Keyboard, r)
    /\ step' = IF r = "answered" /\ Keyboard \in required /\ Reached(Keyboard)
               THEN "moved" ELSE "done"
    /\ UNCHANGED <<tables, reporting, original, rest, item, again, verdict, host,
                   required, gate, leaves, ghosts>>

-----------------------------------------------------------------------------
\* A device leaves by itself: its own button, or a host key whose press the
\* firmware acts on.
Leaves(d) ==
    /\ leaves < MaxLeaves /\ Here(d)
    /\ \E h \in Hosts \ {home[d]} : at' = [at EXCEPT ![d] = h]
    /\ leaves' = leaves + 1
    /\ excused' = IF d = Keyboard THEN Targets ELSE excused \cup {d}
    /\ UNCHANGED <<tables, reporting, original, step, rest, item, again, verdict,
                   host, required, gate, unrestored>>

GateTurns ==
    /\ gate # "gone" /\ step \in {"idle", "wait", "gate"}
    /\ gate' \in {"open", "closed", "gone"} \ {gate}
    /\ UNCHANGED <<tables, at, reporting, original, step, rest, item, again,
                   verdict, host, required, leaves, ghosts>>

SwitchSteps ==
    \/ \E r \in Results :
          \/ OpenKeyboard(r) \/ Divert(r) \/ MoveTarget(r) \/ MoveKeyboard(r)
          \/ \E c \in Controls : ReadControl(c, r) \/ Restore(c, r)
          \/ \E b \in BOOLEAN : PrepareKeyboard(r, b)
          \/ \E b \in BOOLEAN, t \in Targets : PrepareTarget(t, r, b)
    \/ Armed \/ GateAllows \/ Restored \/ Ask

SwitchNext ==
    \/ SwitchSteps
    \/ \E c \in Controls : Pressed(c)
    \/ \E b \in BOOLEAN : Stop(b)
    \/ \E d \in Moving : Leaves(d)
    \/ GateTurns

SwitchSpec == SwitchInit /\ [][SwitchNext]_switchVars
-----------------------------------------------------------------------------
\* A session that was not told its keyboard is lost leaves every control as
\* it found it, whether a key was pressed, it was stopped, or arming failed
\* halfway: unless the keyboard refused the restoration twice or device I/O
\* will not be allowed again (arm_host_controls, restore_host_controls).
ControlsGivenBack ==
    step = "returned" /\ verdict # "lost" /\ (verdict = "error" \/ gate = "open") =>
        \A c \in Recorded \ unrestored : reporting[c] = original[c]

\* Linked devices go together: once the keyboard has changed hosts each
\* target has too, unless it had trouble of its own and not because the
\* keyboard went first; and no target is moved to a host the keyboard does
\* not have (switch_linked_hosts).
LinkedDevicesGoTogether ==
    /\ step = "moved" => \A t \in Targets \ excused : at[t] = host
    /\ leaves = 0 /\ (\E t \in Targets : ~Here(t)) => slot[Keyboard][host] # "outside"
-----------------------------------------------------------------------------
(***************************************************************************)
(* The inductive invariant the proofs use (TLC checks it too).             *)
(***************************************************************************)

\* Nothing is recorded before arming; a return that is an error comes from
\* the undoing; and what has been taken off the list is as it was found.
ControlsGoBack ==
    /\ step = "idle" => Recorded = {}
    /\ step = "gate" => verdict \in {"pressed", "stopped"}
    /\ step \in {"restore", "undo"} =>
           /\ rest \subseteq Recorded
           /\ \A c \in Recorded \ (rest \cup unrestored) : reporting[c] = original[c]
    /\ ControlsGivenBack

\* The keyboard waits for its targets, unless it leaves by itself; a target
\* that has had its turn is there or has an excuse.
TargetsGoFirst ==
    /\ step \in {"targets", "move"} =>
           /\ slot[Keyboard][host] # "outside"
           /\ Here(Keyboard) \/ excused = Targets
           /\ rest \subseteq Targets
           /\ \A t \in Targets \ (excused \cup rest) :
                 at[t] = host \/ (step = "move" /\ item = t)
    /\ step = "move" =>
           item \in Targets \ rest /\ (item \in required \cup excused \/ at[item] = host)
    /\ leaves = 0 => \/ \A t \in Targets : Here(t)
                    \/ /\ step \in {"targets", "move", "moved", "done"}
                       /\ slot[Keyboard][host] # "outside"
    /\ LinkedDevicesGoTogether

\* The devices move only after a press, which names a host.
HostIsAsked ==
    /\ verdict = "pressed" => host \in Hosts
    /\ step \in {"asked", "targets", "move", "moved", "done"} => verdict = "pressed"

SwitchInv == SwitchTypes /\ HostIsAsked /\ ControlsGoBack /\ TargetsGoFirst
=============================================================================
