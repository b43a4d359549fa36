---------------------------- MODULE SessionProofs -----------------------------
(***************************************************************************)
(* Proofs about the calls that change devices: a host switch (HostSwitch), *)
(* one setting (Writes), a colour (Lighting) and a waveform (Haptics).     *)
(***************************************************************************)
EXTENDS HostSwitch, Writes, Lighting, Haptics, FiniteSetTheorems, TLAPS

-----------------------------------------------------------------------------
(***************************************************************************)
(* The host switch.                                                        *)
(***************************************************************************)
\* Types; what is recorded is a way a control is reported.
LEMMA SwitchTypesKept ==
    ASSUME SwitchTypes, HostIsAsked, ControlsGoBack, TargetsGoFirst, [SwitchNext]_switchVars PROVE SwitchTypes'
<1>1. CASE \E r \in Results : OpenKeyboard(r)
  BY <1>1 DEF OpenKeyboard, Return, tables, ghosts, SwitchTypes, Moving, Results, Recorded
<1>2. CASE \E r \in Results, c \in Controls : ReadControl(c, r)
  <2>1. \A c \in Controls : reporting[c] \in Modes
    BY DEF SwitchTypes
  <2> QED
    BY <1>2, <2>1 DEF ReadControl, StartUndo, tables, ghosts, SwitchTypes, Recorded
<1>3. CASE \E r \in Results : Divert(r)
  <2>1. \A c \in Controls : ModeOf(c) \in Modes
    BY DEF ModeOf, Modes
  <2> QED
    <3>1. PICK r \in Results : Divert(r)
      BY <1>3
    <3>2. reporting' \in [Controls -> Modes]
      BY <2>1, <3>1 DEF Divert, SwitchTypes
    <3> QED
      BY <3>1, <3>2 DEF Divert, StartUndo, tables, ghosts, SwitchTypes, Recorded
<1>4. CASE Armed
  BY <1>4 DEF Armed, Return, tables, ghosts, SwitchTypes, Moving, Results, Recorded
<1>5. CASE \E c \in Controls : Pressed(c)
  BY <1>5, ControlsHaveHosts DEF Pressed, tables, ghosts, SwitchTypes
<1>6. CASE \E b \in BOOLEAN : Stop(b)
  BY <1>6 DEF Stop, Return, tables, ghosts, SwitchTypes, Moving, Results, Recorded
<1>7. CASE GateAllows
  BY <1>7 DEF GateAllows, tables, ghosts, SwitchTypes, Moving, Results, Recorded
<1>8. CASE \E r \in Results, c \in Controls : Restore(c, r)
  <2>1. PICK r \in Results, c \in Controls : Restore(c, r)
    BY <1>8
  <2>2. CASE r # "failed" /\ Here(Keyboard)
    <3>1. reporting' = [reporting EXCEPT ![c] = original[c]]
      BY <2>1, <2>2 DEF Restore
    <3>2. original[c] \in Modes
      BY <2>1 DEF Restore, ControlsGoBack, Recorded, SwitchTypes
    <3> QED
      BY <2>1, <3>1, <3>2 DEF Restore, tables, SwitchTypes
  <2>3. CASE ~(r # "failed" /\ Here(Keyboard))
    BY <2>1, <2>3 DEF Restore, tables, SwitchTypes
  <2> QED
    BY <2>2, <2>3
<1>9. CASE Restored
  BY <1>9 DEF Restored, tables, ghosts, SwitchTypes, Moving, Results, Recorded
<1>10. CASE Ask
  BY <1>10 DEF Ask, tables, ghosts, SwitchTypes, Moving, Results, Recorded
<1>11. CASE \E r \in Results, b \in BOOLEAN : PrepareKeyboard(r, b)
  BY <1>11 DEF PrepareKeyboard, Needs, tables, ghosts, SwitchTypes, Moving, Results, Recorded
<1>12. CASE \E r \in Results, b \in BOOLEAN, t \in Targets : PrepareTarget(t, r, b)
  BY <1>12 DEF PrepareTarget, Needs, tables, ghosts, SwitchTypes, Moving, Results, Recorded
<1>13. CASE \E r \in Results : MoveTarget(r)
  <2>1. PICK r \in Results : MoveTarget(r)
    BY <1>13
  <2>2. host \in Hosts
    BY <2>1 DEF MoveTarget, HostIsAsked
  <2>3. at' \in [Moving -> Hosts]
    BY <2>1, <2>2 DEF MoveTarget, Goes, SwitchTypes
  <2>4. item \in Targets
    BY <2>1 DEF MoveTarget, TargetsGoFirst
  <2> QED
    BY <2>1, <2>3, <2>4 DEF MoveTarget, tables, SwitchTypes
<1>14. CASE \E r \in Results : MoveKeyboard(r)
  <2>1. PICK r \in Results : MoveKeyboard(r)
    BY <1>14
  <2>2. host \in Hosts
    BY <2>1 DEF MoveKeyboard, HostIsAsked
  <2>3. at' \in [Moving -> Hosts]
    BY <2>1, <2>2 DEF MoveKeyboard, Goes, SwitchTypes
  <2> QED
    BY <2>1, <2>3 DEF MoveKeyboard, tables, ghosts, SwitchTypes
<1>15. CASE \E d \in Moving : Leaves(d)
  <2>1. PICK d \in Moving : Leaves(d)
    BY <1>15
  <2>2. PICK h \in Hosts : at' = [at EXCEPT ![d] = h]
    BY <2>1 DEF Leaves
  <2>3. at' \in [Moving -> Hosts]
    BY <2>2 DEF SwitchTypes
  <2>4. leaves' \in 0..MaxLeaves
    BY <2>1, LeavesAreCounted DEF Leaves, SwitchTypes
  <2>5. excused' \subseteq Targets
    BY <2>1 DEF Leaves, SwitchTypes, Moving
  <2> QED
    BY <2>1, <2>3, <2>4, <2>5 DEF Leaves, tables, SwitchTypes
<1>16. CASE GateTurns
  BY <1>16 DEF GateTurns, tables, ghosts, SwitchTypes, Moving, Results, Recorded
<1>17. CASE UNCHANGED switchVars
  BY <1>17 DEF switchVars, tables, ghosts, SwitchTypes, Moving, Results, Recorded
<1> QED
  BY <1>1, <1>2, <1>3, <1>4, <1>5, <1>6, <1>7, <1>8, <1>9, <1>10, <1>11, <1>12, <1>13, <1>14, <1>15, <1>16, <1>17 DEF SwitchNext, SwitchSteps

\* The host asked for.
LEMMA HostKept ==
    ASSUME SwitchTypes, HostIsAsked, [SwitchNext]_switchVars PROVE HostIsAsked'
<1>1. CASE \E r \in Results : OpenKeyboard(r)
  BY <1>1 DEF OpenKeyboard, Return, tables, ghosts, HostIsAsked
<1>2. CASE \E r \in Results, c \in Controls : ReadControl(c, r)
  BY <1>2 DEF ReadControl, StartUndo, tables, ghosts, HostIsAsked
<1>3. CASE \E r \in Results : Divert(r)
  BY <1>3 DEF Divert, StartUndo, tables, ghosts, HostIsAsked
<1>4. CASE Armed
  BY <1>4 DEF Armed, Return, tables, ghosts, HostIsAsked
<1>5. CASE \E c \in Controls : Pressed(c)
  BY <1>5, ControlsHaveHosts DEF Pressed, tables, ghosts, HostIsAsked
<1>6. CASE \E b \in BOOLEAN : Stop(b)
  BY <1>6 DEF Stop, Return, tables, ghosts, HostIsAsked
<1>7. CASE GateAllows
  BY <1>7 DEF GateAllows, tables, ghosts, HostIsAsked
<1>8. CASE \E r \in Results, c \in Controls : Restore(c, r)
  BY <1>8 DEF Restore, tables, ghosts, HostIsAsked
<1>9. CASE Restored
  BY <1>9 DEF Restored, tables, ghosts, HostIsAsked
<1>10. CASE Ask
  BY <1>10 DEF Ask, tables, ghosts, HostIsAsked
<1>11. CASE \E r \in Results, b \in BOOLEAN : PrepareKeyboard(r, b)
  BY <1>11 DEF PrepareKeyboard, Needs, tables, ghosts, HostIsAsked
<1>12. CASE \E r \in Results, b \in BOOLEAN, t \in Targets : PrepareTarget(t, r, b)
  BY <1>12 DEF PrepareTarget, Needs, tables, ghosts, HostIsAsked
<1>13. CASE \E r \in Results : MoveTarget(r)
  BY <1>13 DEF MoveTarget, Goes, tables, ghosts, HostIsAsked
<1>14. CASE \E r \in Results : MoveKeyboard(r)
  BY <1>14 DEF MoveKeyboard, Goes, tables, ghosts, HostIsAsked
<1>15. CASE \E d \in Moving : Leaves(d)
  BY <1>15 DEF Leaves, tables, ghosts, HostIsAsked
<1>16. CASE GateTurns
  BY <1>16 DEF GateTurns, tables, ghosts, HostIsAsked
<1>17. CASE UNCHANGED switchVars
  BY <1>17 DEF switchVars, tables, ghosts, HostIsAsked
<1> QED
  BY <1>1, <1>2, <1>3, <1>4, <1>5, <1>6, <1>7, <1>8, <1>9, <1>10, <1>11, <1>12, <1>13, <1>14, <1>15, <1>16, <1>17 DEF SwitchNext, SwitchSteps

\* The session's own steps and the way back.
LEMMA ControlsKept ==
    ASSUME SwitchTypes, ControlsGoBack, [SwitchNext]_switchVars PROVE ControlsGoBack'
<1>1. CASE \E r \in Results : OpenKeyboard(r)
  BY <1>1 DEF OpenKeyboard, Return, tables, ghosts, ControlsGoBack, ControlsGivenBack, Recorded, SwitchTypes
<1>2. CASE \E r \in Results, c \in Controls : ReadControl(c, r)
  BY <1>2 DEF ReadControl, StartUndo, tables, ghosts, ControlsGoBack, ControlsGivenBack, Recorded, SwitchTypes
<1>3. CASE \E r \in Results : Divert(r)
  BY <1>3 DEF Divert, StartUndo, tables, ghosts, ControlsGoBack, ControlsGivenBack, Recorded, SwitchTypes
<1>4. CASE Armed
  BY <1>4 DEF Armed, Return, tables, ghosts, ControlsGoBack, ControlsGivenBack, Recorded, SwitchTypes
<1>5. CASE \E c \in Controls : Pressed(c)
  BY <1>5 DEF Pressed, tables, ghosts, ControlsGoBack, ControlsGivenBack, Recorded, SwitchTypes
<1>6. CASE \E b \in BOOLEAN : Stop(b)
  BY <1>6 DEF Stop, Return, tables, ghosts, ControlsGoBack, ControlsGivenBack, Recorded, SwitchTypes
<1>7. CASE GateAllows
  BY <1>7 DEF GateAllows, tables, ghosts, ControlsGoBack, ControlsGivenBack, Recorded, SwitchTypes
<1>8. CASE \E r \in Results, c \in Controls : Restore(c, r)
  <2>1. PICK r \in Results, c \in Controls : Restore(c, r)
    BY <1>8
  <2>2. ASSUME NEW d \in Recorded \ (rest' \cup unrestored') PROVE reporting'[d] = original[d]
    <3>1. d \in Controls /\ reporting \in [Controls -> Modes]
      BY DEF Recorded, SwitchTypes
    <3>2. CASE d = c
      <4>1. Works(Keyboard, r)
        BY <2>1, <2>2, <3>2 DEF Restore
      <4>2. reporting' = [reporting EXCEPT ![c] = original[c]]
        BY <2>1, <4>1 DEF Restore, Works, Reached
      <4> QED
        BY <3>1, <3>2, <4>2
    <3>3. CASE d # c
      <4>1. d \notin rest \cup unrestored /\ step \in {"restore", "undo"}
        BY <2>1, <2>2, <3>3 DEF Restore
      <4>2. reporting[d] = original[d]
        BY <2>2, <4>1 DEF ControlsGoBack
      <4>3. reporting'[d] = reporting[d]
        BY <2>1, <3>1, <3>3 DEF Restore
      <4> QED
        BY <4>2, <4>3
    <3> QED
      BY <3>2, <3>3
  <2>3. /\ step' = step /\ step \in {"restore", "undo"}
        /\ UNCHANGED <<original, verdict, gate>>
    BY <2>1 DEF Restore
  <2>4. rest' \subseteq Recorded
    BY <2>1, <2>3 DEF Restore, ControlsGoBack
  <2> QED
    BY <2>2, <2>3, <2>4 DEF ControlsGoBack, ControlsGivenBack, Recorded
<1>9. CASE Restored
  BY <1>9 DEF Restored, tables, ghosts, ControlsGoBack, ControlsGivenBack, Recorded, SwitchTypes
<1>10. CASE Ask
  BY <1>10 DEF Ask, tables, ghosts, ControlsGoBack, ControlsGivenBack, Recorded, SwitchTypes
<1>11. CASE \E r \in Results, b \in BOOLEAN : PrepareKeyboard(r, b)
  BY <1>11 DEF PrepareKeyboard, Needs, tables, ghosts, ControlsGoBack, ControlsGivenBack, Recorded, SwitchTypes
<1>12. CASE \E r \in Results, b \in BOOLEAN, t \in Targets : PrepareTarget(t, r, b)
  BY <1>12 DEF PrepareTarget, Needs, tables, ghosts, ControlsGoBack, ControlsGivenBack, Recorded, SwitchTypes
<1>13. CASE \E r \in Results : MoveTarget(r)
  BY <1>13 DEF MoveTarget, Goes, tables, ghosts, ControlsGoBack, ControlsGivenBack, Recorded, SwitchTypes
<1>14. CASE \E r \in Results : MoveKeyboard(r)
  BY <1>14 DEF MoveKeyboard, Goes, tables, ghosts, ControlsGoBack, ControlsGivenBack, Recorded, SwitchTypes
<1>15. CASE \E d \in Moving : Leaves(d)
  BY <1>15 DEF Leaves, tables, ghosts, ControlsGoBack, ControlsGivenBack, Recorded, SwitchTypes
<1>16. CASE GateTurns
  BY <1>16 DEF GateTurns, tables, ghosts, ControlsGoBack, ControlsGivenBack, Recorded, SwitchTypes
<1>17. CASE UNCHANGED switchVars
  BY <1>17 DEF switchVars, tables, ghosts, ControlsGoBack, ControlsGivenBack, Recorded, SwitchTypes
<1> QED
  BY <1>1, <1>2, <1>3, <1>4, <1>5, <1>6, <1>7, <1>8, <1>9, <1>10, <1>11, <1>12, <1>13, <1>14, <1>15, <1>16, <1>17 DEF SwitchNext, SwitchSteps

\* The caller's steps.
LEMMA TargetsKept ==
    ASSUME SwitchTypes, HostIsAsked, TargetsGoFirst, [SwitchNext]_switchVars PROVE TargetsGoFirst'
<1>1. CASE \E r \in Results : OpenKeyboard(r)
  BY <1>1 DEF OpenKeyboard, Return, tables, ghosts, TargetsGoFirst, LinkedDevicesGoTogether, Here, SwitchTypes
<1>2. CASE \E r \in Results, c \in Controls : ReadControl(c, r)
  BY <1>2 DEF ReadControl, StartUndo, tables, ghosts, TargetsGoFirst, LinkedDevicesGoTogether, Here, SwitchTypes
<1>3. CASE \E r \in Results : Divert(r)
  BY <1>3 DEF Divert, StartUndo, tables, ghosts, TargetsGoFirst, LinkedDevicesGoTogether, Here, SwitchTypes
<1>4. CASE Armed
  BY <1>4 DEF Armed, Return, tables, ghosts, TargetsGoFirst, LinkedDevicesGoTogether, Here, SwitchTypes
<1>5. CASE \E c \in Controls : Pressed(c)
  BY <1>5 DEF Pressed, tables, ghosts, TargetsGoFirst, LinkedDevicesGoTogether, Here, SwitchTypes
<1>6. CASE \E b \in BOOLEAN : Stop(b)
  BY <1>6 DEF Stop, Return, tables, ghosts, TargetsGoFirst, LinkedDevicesGoTogether, Here, SwitchTypes
<1>7. CASE GateAllows
  BY <1>7 DEF GateAllows, tables, ghosts, TargetsGoFirst, LinkedDevicesGoTogether, Here, SwitchTypes
<1>8. CASE \E r \in Results, c \in Controls : Restore(c, r)
  BY <1>8 DEF Restore, tables, ghosts, TargetsGoFirst, LinkedDevicesGoTogether, Here, SwitchTypes
<1>9. CASE Restored
  BY <1>9 DEF Restored, tables, ghosts, TargetsGoFirst, LinkedDevicesGoTogether, Here, SwitchTypes
<1>10. CASE Ask
  BY <1>10 DEF Ask, tables, ghosts, TargetsGoFirst, LinkedDevicesGoTogether, Here, SwitchTypes
<1>11. CASE \E r \in Results, b \in BOOLEAN : PrepareKeyboard(r, b)
  <2>1. PICK r \in Results, b \in BOOLEAN : PrepareKeyboard(r, b)
    BY <1>11
  <2>2. /\ step = "asked" /\ step' \in {"targets", "done"} /\ UNCHANGED <<slot, host, at, home, leaves, excused>>
        /\ leaves = 0 => \A t \in Targets : at[t] = home[t]
    BY <2>1 DEF PrepareKeyboard, tables, ghosts, TargetsGoFirst, Here
  <2>3. CASE Prepared(Keyboard, r, b)
    <3>1. Here(Keyboard) /\ slot[Keyboard][host] # "outside" /\ step' = "targets" /\ rest' = Targets
      BY <2>1, <2>3 DEF PrepareKeyboard, Prepared, Works, Reached, Refuses
    <3> QED
      BY <2>2, <3>1 DEF TargetsGoFirst, LinkedDevicesGoTogether, Here
  <2>4. CASE ~Prepared(Keyboard, r, b)
    <3>1. step' = "done"
      BY <2>1, <2>4 DEF PrepareKeyboard
    <3> QED
      BY <2>2, <3>1 DEF TargetsGoFirst, LinkedDevicesGoTogether, Here
  <2> QED
    BY <2>3, <2>4
<1>12. CASE \E r \in Results, b \in BOOLEAN, t \in Targets : PrepareTarget(t, r, b)
  <2>1. PICK r \in Results, b \in BOOLEAN, t \in Targets : PrepareTarget(t, r, b)
    BY <1>12
  <2>2. /\ step = "targets" /\ t \in rest /\ rest' = rest \ {t}
        /\ UNCHANGED <<slot, host, at, home, leaves>>
    BY <2>1 DEF PrepareTarget, tables
  <2>3. /\ slot[Keyboard][host] # "outside" /\ rest \subseteq Targets
        /\ Here(Keyboard) \/ excused = Targets
        /\ \A u \in Targets \ (excused \cup rest) : at[u] = host
        /\ leaves = 0 => \/ \A u \in Targets : Here(u)
                        \/ slot[Keyboard][host] # "outside"
    BY <2>2 DEF TargetsGoFirst
  <2>4. CASE Prepared(t, r, b)
    <3>1. /\ required' = IF at[t] # host THEN required \cup {t} ELSE required
          /\ step' = "move" /\ item' = t /\ excused' = excused
      BY <2>1, <2>4 DEF PrepareTarget, Needs
    <3>2. t \in required' \/ at'[t] = host'
      BY <2>2, <3>1
    <3> QED
      BY <2>2, <2>3, <3>1, <3>2 DEF TargetsGoFirst, LinkedDevicesGoTogether, Here
  <2>5. CASE ~Prepared(t, r, b)
    <3>1. step' = "targets" /\ excused \subseteq excused' /\ excused' \subseteq Targets
      BY <2>1, <2>2, <2>5 DEF PrepareTarget, SwitchTypes
    <3>2. t \in excused'
      <4>1. CASE r # "answered" \/ ~Here(t) \/ Refuses(t, b)
        BY <2>1, <2>5, <4>1 DEF PrepareTarget
      <4>2. CASE ~(r # "answered" \/ ~Here(t) \/ Refuses(t, b))
        <5>1. ~Here(Keyboard)
          BY <2>5, <4>2 DEF Prepared, Works, Reached
        <5> QED
          BY <2>3, <3>1, <5>1
      <4> QED
        BY <4>1, <4>2
    <3>3. Here(Keyboard)' \/ excused' = Targets
      BY <2>2, <2>3, <3>1 DEF Here
    <3>4. \A u \in Targets \ (excused' \cup rest') : at[u] = host
      BY <2>2, <2>3, <3>1, <3>2
    <3> QED
      BY <2>2, <2>3, <3>1, <3>3, <3>4 DEF TargetsGoFirst, LinkedDevicesGoTogether, Here
  <2> QED
    BY <2>4, <2>5
<1>13. CASE \E r \in Results : MoveTarget(r)
  <2>1. PICK r \in Results : MoveTarget(r)
    BY <1>13
  <2>2. /\ step = "move" /\ step' = "targets" /\ item \in Targets /\ item \notin rest
        /\ item \in required \cup excused \/ at[item] = host
        /\ UNCHANGED <<slot, host, home, rest, leaves>>
        /\ slot[Keyboard][host] # "outside" /\ rest \subseteq Targets
        /\ Here(Keyboard) \/ excused = Targets
        /\ \A u \in Targets \ (excused \cup rest) : at[u] = host \/ item = u
    BY <2>1 DEF MoveTarget, tables, TargetsGoFirst
  <2>3. excused \subseteq excused' /\ excused' \subseteq Targets
    BY <2>1, <2>2 DEF MoveTarget, SwitchTypes
  <2>4. /\ \A d \in Moving : d # item => at'[d] = at[d]
        /\ at[item] = host => at'[item] = host
        /\ item \in required /\ r # "failed" /\ Reached(item) => at'[item] = host
    BY <2>1, <2>2 DEF MoveTarget, Goes, SwitchTypes, Moving
  <2>5. item \notin excused' => at'[item] = host
    <3> SUFFICES ASSUME item \notin excused', item \in required PROVE at'[item] = host
      BY <2>2, <2>3, <2>4
    <3>1. r = "answered" /\ Here(item) /\ Here(Keyboard)
      BY <2>1, <2>2, <2>3 DEF MoveTarget
    <3> QED
      BY <2>4, <3>1 DEF Reached
  <2>6. at'[Keyboard] = at[Keyboard]
    BY <2>2, <2>4, KeyboardIsNoTarget DEF Moving
  <2>7. Here(Keyboard)' \/ excused' = Targets
    BY <2>2, <2>3, <2>6 DEF Here
  <2>8. \A u \in Targets \ (excused' \cup rest') : at'[u] = host
    BY <2>2, <2>3, <2>4, <2>5 DEF Moving
  <2> QED
    BY <2>2, <2>7, <2>8 DEF TargetsGoFirst, LinkedDevicesGoTogether
<1>14. CASE \E r \in Results : MoveKeyboard(r)
  <2>1. PICK r \in Results : MoveKeyboard(r)
    BY <1>14
  <2>2. /\ step = "targets" /\ rest = {} /\ step' \in {"moved", "done"}
        /\ UNCHANGED <<slot, host, home, leaves, excused>>
        /\ slot[Keyboard][host] # "outside"
        /\ \A u \in Targets \ excused : at[u] = host
    BY <2>1 DEF MoveKeyboard, tables, ghosts, TargetsGoFirst
  <2>3. \A t \in Targets : at'[t] = at[t]
    BY <2>1, KeyboardIsNoTarget DEF MoveKeyboard, Goes, SwitchTypes, Moving
  <2> QED
    BY <2>2, <2>3 DEF TargetsGoFirst, LinkedDevicesGoTogether
<1>15. CASE \E d \in Moving : Leaves(d)
  <2>1. PICK d \in Moving : Leaves(d)
    BY <1>15
  <2>2. /\ leaves' # 0 /\ UNCHANGED <<slot, host, home, step, rest, item, required>>
        /\ excused' = IF d = Keyboard THEN Targets ELSE excused \cup {d}
        /\ excused \subseteq excused'
    BY <2>1 DEF Leaves, tables, SwitchTypes
  <2>3. \A u \in Moving : u # d => at'[u] = at[u]
    BY <2>1 DEF Leaves, SwitchTypes
  <2>4. \A u \in Targets \ excused' : at'[u] = at[u]
    BY <2>2, <2>3 DEF Moving
  <2>5. (Here(Keyboard) \/ excused = Targets) => (Here(Keyboard)' \/ excused' = Targets)
    <3>1. CASE d = Keyboard
      BY <2>2, <3>1
    <3>2. CASE d # Keyboard
      <4>1. at'[Keyboard] = at[Keyboard] /\ d \in Targets
        BY <2>3, <3>2 DEF Moving
      <4> QED
        BY <2>2, <4>1 DEF Here
    <3> QED
      BY <3>1, <3>2
  <2>6. CASE step \in {"targets", "move"}
    <3>1. item \in Targets => item \in excused' \/ at'[item] = at[item]
      BY <2>4
    <3>2. /\ slot[Keyboard][host] # "outside" /\ rest \subseteq Targets
          /\ Here(Keyboard)' \/ excused' = Targets
          /\ \A t \in Targets \ (excused' \cup rest) :
                at'[t] = host \/ (step = "move" /\ item = t)
      BY <2>2, <2>4, <2>5, <2>6 DEF TargetsGoFirst
    <3>3. step = "move" =>
             /\ item \in Targets \ rest
             /\ item \in required \cup excused' \/ at'[item] = host
      BY <2>2, <2>6, <3>1 DEF TargetsGoFirst
    <3> QED
      BY <2>2, <2>6, <3>2, <3>3 DEF TargetsGoFirst, LinkedDevicesGoTogether
  <2>7. CASE step \notin {"targets", "move"}
    <3>1. step = "moved" => \A t \in Targets \ excused' : at'[t] = host
      BY <2>2, <2>4 DEF TargetsGoFirst, LinkedDevicesGoTogether
    <3> QED
      BY <2>2, <2>7, <3>1 DEF TargetsGoFirst, LinkedDevicesGoTogether
  <2> QED
    BY <2>6, <2>7
<1>16. CASE GateTurns
  BY <1>16 DEF GateTurns, tables, ghosts, TargetsGoFirst, LinkedDevicesGoTogether, Here, SwitchTypes
<1>17. CASE UNCHANGED switchVars
  BY <1>17 DEF switchVars, tables, ghosts, TargetsGoFirst, LinkedDevicesGoTogether, Here, SwitchTypes
<1> QED
  BY <1>1, <1>2, <1>3, <1>4, <1>5, <1>6, <1>7, <1>8, <1>9, <1>10, <1>11, <1>12, <1>13, <1>14, <1>15, <1>16, <1>17 DEF SwitchNext, SwitchSteps

\* The switch's invariant.
THEOREM SwitchInvHolds == SwitchSpec => []SwitchInv
<1>1. SwitchInit => SwitchInv
  <2> SUFFICES ASSUME SwitchInit PROVE SwitchInv
    OBVIOUS
  <2>1. SwitchTypes
    <3>1. at \in [Moving -> Hosts] /\ leaves \in 0..MaxLeaves
      BY LeavesAreCounted DEF SwitchInit
    <3> QED
      BY <3>1 DEF SwitchInit, SwitchTypes
  <2>2. ControlsGoBack
    BY DEF SwitchInit, ControlsGoBack, ControlsGivenBack, Recorded
  <2>3. TargetsGoFirst
    BY DEF SwitchInit, TargetsGoFirst, LinkedDevicesGoTogether, Here
  <2>4. HostIsAsked
    BY DEF SwitchInit, HostIsAsked
  <2> QED
    BY <2>1, <2>2, <2>3, <2>4 DEF SwitchInv
<1>2. SwitchInv /\ [SwitchNext]_switchVars => SwitchInv'
  BY SwitchTypesKept, HostKept, ControlsKept, TargetsKept DEF SwitchInv
<1> QED
  BY <1>1, <1>2, PTL DEF SwitchSpec

\* However arming, pressing, stopping and restoring go, every control that was
\* changed is as it was found, but for one whose restoration failed twice.
THEOREM ControlsComeBack == SwitchSpec => []ControlsGivenBack
<1>1. SwitchInv => ControlsGivenBack
  BY DEF SwitchInv, ControlsGoBack
<1> QED
  BY <1>1, SwitchInvHolds, PTL

\* The keyboard is the last to go, and no target goes to a host that the
\* keyboard does not have.
THEOREM TargetsGoWithKeyboard == SwitchSpec => []LinkedDevicesGoTogether
<1>1. SwitchInv => LinkedDevicesGoTogether
  BY DEF SwitchInv, TargetsGoFirst
<1> QED
  BY <1>1, SwitchInvHolds, PTL
-----------------------------------------------------------------------------
(***************************************************************************)
(* Haptics.                                                                *)
(***************************************************************************)
\* Types.
LEMMA HapticTypesKept ==
    ASSUME HapticTypes, [HapticNext]_hapticVars PROVE HapticTypes'
<1> USE HapticBounds, IndicesAreNumbers
<1>1. CASE \E c \in Callers : StartArm(c)
  <2>1. PICK c \in Callers : StartArm(c)
    BY <1>1
  <2>2. hop' \in [Callers -> Hops] /\ holds' \in [Callers -> 1..MaxChannels]
    BY <2>1 DEF StartArm, To, HapticTypes, Hops
  <2>3. astray' \subseteq Callers /\ UNCHANGED <<live, inSlot, armed, location, bound, pairings, proven, misled>>
    BY <2>1 DEF StartArm, HapticTypes
  <2> QED
    BY <2>2, <2>3 DEF HapticTypes
<1>2. CASE \E c \in Callers : StartPlay(c)
  <2>1. PICK c \in Callers : StartPlay(c)
    BY <1>2
  <2>2. bound' \in [Callers -> Nat]
    BY <2>1 DEF StartPlay, HapticTypes
  <2>3. hop' \in [Callers -> Hops] /\ holds' \in [Callers -> 1..MaxChannels]
    BY <2>1 DEF StartPlay, To, HapticTypes, Hops
  <2>4. astray' \subseteq Callers /\ UNCHANGED <<live, inSlot, armed, location, pairings, proven, misled>>
    BY <2>1 DEF StartPlay, HapticTypes
  <2> QED
    BY <2>2, <2>3, <2>4 DEF HapticTypes
<1>3. CASE \E c \in Callers, answered \in BOOLEAN : LookToArm(c, answered)
  <2>1. PICK c \in Callers, answered \in BOOLEAN : LookToArm(c, answered)
    BY <1>3
  <2>2. HapticIndex(inSlot) \in Nat /\ holds[c] \in 1..MaxChannels
    BY DEF HapticTypes
  <2>3. hop' \in [Callers -> Hops]
    BY <2>1 DEF LookToArm, To, HapticTypes, Hops
  <2>4. bound' \in [Callers -> Nat]
    BY <2>1, <2>2 DEF LookToArm, HapticTypes
  <2>5. location' = location \/ location' = [channel |-> holds[c], feature |-> HapticIndex(inSlot)]
    BY <2>1 DEF LookToArm, Store, CacheKept
  <2>7. misled' \in BOOLEAN
    BY <2>1, Zenon DEF LookToArm, Store, CacheKept, HapticTypes
  <2>6. UNCHANGED <<live, inSlot, armed, holds, pairings, proven, astray>>
    BY <2>1 DEF LookToArm
  <2> QED
    BY <2>2, <2>3, <2>4, <2>5, <2>6, <2>7 DEF HapticTypes
<1>4. CASE \E c \in Callers, answered \in BOOLEAN : AskConfiguration(c, answered)
  BY <1>4 DEF AskConfiguration, To, Clear, CacheKept, Proven, Answered, HapticTypes, Hops, Busy
<1>5. CASE \E c \in Callers, answered \in BOOLEAN : Arm(c, answered)
  BY <1>5 DEF Arm, To, Clear, CacheKept, Proven, Answered, HapticTypes, Hops, Busy
<1>6. CASE \E c \in Callers, answered \in BOOLEAN : PlayCached(c, answered)
  BY <1>6 DEF PlayCached, To, Clear, CacheKept, Answered, HapticTypes, Hops, Busy
<1>7. CASE \E c \in Callers, answered \in BOOLEAN : LookToPlay(c, answered)
  BY <1>7 DEF LookToPlay, To, Answered, HapticTypes, Hops, Busy
<1>8. CASE \E c \in Callers, answered \in BOOLEAN : Play(c, answered)
  <2>1. PICK c \in Callers, answered \in BOOLEAN : Play(c, answered)
    BY <1>8
  <2>2. bound[c] \in Nat /\ holds[c] \in 1..MaxChannels
    BY DEF HapticTypes
  <2>3. hop' \in [Callers -> Hops]
    BY <2>1 DEF Play, To, HapticTypes, Hops
  <2>4. location' = location \/ location' = [channel |-> holds[c], feature |-> bound[c]]
    BY <2>1 DEF Play, Store, CacheKept
  <2>5. misled' \in BOOLEAN
    <3>1. CASE Answered(c, answered)
      <4>1. misled' = (c \in astray)
        BY <2>1, <3>1 DEF Play, Store
      <4> QED
        BY <4>1
    <3>2. CASE ~Answered(c, answered)
      BY <2>1, <3>2 DEF Play, CacheKept, HapticTypes
    <3> QED
      BY <3>1, <3>2
  <2>6. UNCHANGED <<live, inSlot, armed, holds, bound, pairings, proven, astray>>
    BY <2>1 DEF Play
  <2>7. location' = Nowhere \/ location' \in [channel : 1..MaxChannels, feature : Nat]
    BY <2>2, <2>4 DEF HapticTypes
  <2> QED
    BY <2>3, <2>5, <2>6, <2>7 DEF HapticTypes
<1>9. CASE ReopenNode
  <2>1. live' \in 1..MaxChannels /\ UNCHANGED <<inSlot, armed, location, hop, holds, bound, pairings, misled>>
    BY <1>9 DEF ReopenNode, HapticTypes
  <2>2. proven' = FALSE /\ astray' \subseteq Callers
    BY <1>9 DEF ReopenNode, HapticTypes, Busy
  <2> QED
    BY <2>1, <2>2 DEF HapticTypes
<1>10. CASE LosePower
  BY <1>10 DEF LosePower, HapticTypes, Hops, Busy
<1>11. CASE \E d \in Mice : PairAnother(d)
  <2>1. PICK d \in Mice : PairAnother(d)
    BY <1>11
  <2>2. pairings' \in 0..MaxPairings /\ UNCHANGED <<live, location, hop, holds, bound, misled>>
    BY <2>1 DEF PairAnother, HapticTypes
  <2>3. inSlot' = d /\ armed' \in BOOLEAN /\ proven' = FALSE /\ astray' \subseteq Callers
    BY <2>1 DEF PairAnother, HapticTypes, Busy
  <2> QED
    BY <2>2, <2>3 DEF HapticTypes
<1>12. CASE UNCHANGED hapticVars
  BY <1>12 DEF hapticVars, HapticTypes, Hops, Busy
<1> QED
  BY <1>1, <1>2, <1>3, <1>4, <1>5, <1>6, <1>7, <1>8, <1>9, <1>10, <1>11, <1>12 DEF HapticNext

\* Whatever changes under a busy caller leads it astray.
LEMMA CallersKept ==
    ASSUME HapticTypes, CallersAreRight, [HapticNext]_hapticVars PROVE CallersAreRight'
<1>1. CASE \E c \in Callers : StartArm(c)
  <2>1. PICK c \in Callers : StartArm(c)
    BY <1>1
  <2>2. /\ UNCHANGED <<live, inSlot, location, bound, misled>>
        /\ hop'[c] = "look to arm" /\ astray' = astray \ {c}
        /\ \A x \in Callers : x # c => hop'[x] = hop[x] /\ holds'[x] = holds[x]
    BY <2>1 DEF StartArm, To, HapticTypes
  <2> QED
    BY <2>2 DEF CallersAreRight, Right, LocationRight
<1>2. CASE \E c \in Callers : StartPlay(c)
  BY <1>2 DEF StartPlay, To, HapticTypes, CallersAreRight, Right, LocationRight, Busy
<1>3. CASE \E c \in Callers, answered \in BOOLEAN : LookToArm(c, answered)
  <2>1. PICK c \in Callers, answered \in BOOLEAN : LookToArm(c, answered)
    BY <1>3
  <2>2. UNCHANGED <<live, inSlot, holds, astray>>
    BY <2>1 DEF LookToArm
  <2>3. \A x \in Callers : x # c => hop'[x] = hop[x] /\ bound'[x] = bound[x]
    BY <2>1 DEF LookToArm, To, HapticTypes
  <2>4. \/ hop'[c] = "failed" /\ location' = location /\ misled' = misled
        \/ /\ bound'[c] = HapticIndex(inSlot) /\ holds[c] = live
           /\ location' = [channel |-> holds[c], feature |-> HapticIndex(inSlot)]
    BY <2>1 DEF LookToArm, To, Store, CacheKept, Answered, HapticTypes
  <2>5. /\ LocationRight \/ misled => LocationRight' \/ misled'
        /\ hop'[c] = "ask" => bound'[c] = HapticIndex(inSlot) /\ holds[c] = live /\ LocationRight'
    BY <2>2, <2>4 DEF LocationRight
  <2>6. hop'[c] \in {"ask", "failed"}
    BY <2>1 DEF LookToArm, To, HapticTypes
  <2> QED
    BY <2>2, <2>3, <2>5, <2>6 DEF CallersAreRight, Right
<1>4. CASE \E c \in Callers, answered \in BOOLEAN : AskConfiguration(c, answered)
  BY <1>4 DEF AskConfiguration, To, Clear, CacheKept, Proven, Answered, HapticTypes, CallersAreRight, Right, LocationRight, Busy
<1>5. CASE \E c \in Callers, answered \in BOOLEAN : Arm(c, answered)
  BY <1>5 DEF Arm, To, Clear, CacheKept, Proven, Answered, HapticTypes, CallersAreRight, Right, LocationRight, Busy
<1>6. CASE \E c \in Callers, answered \in BOOLEAN : PlayCached(c, answered)
  BY <1>6 DEF PlayCached, To, Clear, CacheKept, Answered, HapticTypes, CallersAreRight, Right, LocationRight, Busy
<1>7. CASE \E c \in Callers, answered \in BOOLEAN : LookToPlay(c, answered)
  BY <1>7 DEF LookToPlay, To, Answered, HapticTypes, CallersAreRight, Right, LocationRight, Busy
<1>8. CASE \E c \in Callers, answered \in BOOLEAN : Play(c, answered)
  BY <1>8 DEF Play, To, Store, CacheKept, Answered, HapticTypes, CallersAreRight, Right, LocationRight, Busy
<1>9. CASE ReopenNode
  BY <1>9 DEF ReopenNode, HapticTypes, CallersAreRight, Right, LocationRight, Busy
<1>10. CASE LosePower
  BY <1>10 DEF LosePower, HapticTypes, CallersAreRight, Right, LocationRight, Busy
<1>11. CASE \E d \in Mice : PairAnother(d)
  BY <1>11 DEF PairAnother, HapticTypes, CallersAreRight, Right, LocationRight, Busy
<1>12. CASE UNCHANGED hapticVars
  BY <1>12 DEF hapticVars, HapticTypes, CallersAreRight, Right, LocationRight, Busy
<1> QED
  BY <1>1, <1>2, <1>3, <1>4, <1>5, <1>6, <1>7, <1>8, <1>9, <1>10, <1>11, <1>12 DEF HapticNext

\* What is proven stays so until something happens.
LEMMA PlaysKept ==
    ASSUME HapticTypes, CallersAreRight, PlaysAreFelt, [HapticNext]_hapticVars PROVE PlaysAreFelt'
<1>1. CASE \E c \in Callers : StartArm(c)
  <2>1. UNCHANGED <<live, inSlot, armed, location, proven, misled>>
    BY <1>1 DEF StartArm
  <2> QED
    BY <2>1 DEF PlaysAreFelt, LocationRight
<1>2. CASE \E c \in Callers : StartPlay(c)
  BY <1>2 DEF StartPlay, To, HapticTypes, CallersAreRight, PlaysAreFelt, Right, LocationRight
<1>3. CASE \E c \in Callers, answered \in BOOLEAN : LookToArm(c, answered)
  <2>1. PICK c \in Callers, answered \in BOOLEAN : LookToArm(c, answered)
    BY <1>3
  <2>2. UNCHANGED <<live, inSlot, armed, proven>>
    BY <2>1 DEF LookToArm
  <2>3. \/ location' = location /\ misled' = misled
        \/ location' = [channel |-> holds[c], feature |-> HapticIndex(inSlot)]
    BY <2>1 DEF LookToArm, Store, CacheKept
  <2> QED
    BY <2>2, <2>3 DEF PlaysAreFelt, LocationRight
<1>4. CASE \E c \in Callers, answered \in BOOLEAN : AskConfiguration(c, answered)
  <2>1. PICK c \in Callers, answered \in BOOLEAN : AskConfiguration(c, answered)
    BY <1>4
  <2>2. hop[c] = "ask" /\ UNCHANGED <<live, inSlot, armed>>
    BY <2>1 DEF AskConfiguration
  <2>3. \/ proven' = proven /\ (CacheKept \/ location' = Nowhere)
        \/ proven' = (c \notin astray) /\ CacheKept /\ (armed \/ ~Right(c))
    BY <2>1, Zenon DEF AskConfiguration, Proven, Clear
  <2>4. c \notin astray => Right(c) /\ (LocationRight \/ misled)
    BY <2>2 DEF CallersAreRight
  <2> QED
    BY <2>2, <2>3, <2>4 DEF PlaysAreFelt, LocationRight, CacheKept
<1>5. CASE \E c \in Callers, answered \in BOOLEAN : Arm(c, answered)
  <2>1. PICK c \in Callers, answered \in BOOLEAN : Arm(c, answered)
    BY <1>5
  <2>2. hop[c] = "arm" /\ UNCHANGED <<live, inSlot>>
    BY <2>1 DEF Arm
  <2>3. \/ proven' = proven /\ (CacheKept \/ location' = Nowhere)
        \/ /\ proven' = (c \notin astray) /\ CacheKept /\ holds[c] = live
           /\ Right(c) => armed'
    BY <2>1, Zenon DEF Arm, Proven, Clear, Answered
  <2>4. c \notin astray => Right(c) /\ (LocationRight \/ misled)
    BY <2>2 DEF CallersAreRight
  <2>5. armed => armed'
    BY <2>1, Zenon DEF Arm
  <2> QED
    BY <2>2, <2>3, <2>4, <2>5 DEF PlaysAreFelt, LocationRight, CacheKept
<1>6. CASE \E c \in Callers, answered \in BOOLEAN : PlayCached(c, answered)
  BY <1>6 DEF PlayCached, To, Clear, CacheKept, Answered, HapticTypes, CallersAreRight, PlaysAreFelt, Right, LocationRight
<1>7. CASE \E c \in Callers, answered \in BOOLEAN : LookToPlay(c, answered)
  BY <1>7 DEF LookToPlay, To, Answered, HapticTypes, CallersAreRight, PlaysAreFelt, Right, LocationRight
<1>8. CASE \E c \in Callers, answered \in BOOLEAN : Play(c, answered)
  <2>1. PICK c \in Callers, answered \in BOOLEAN : Play(c, answered)
    BY <1>8
  <2>2. hop[c] = "play" /\ UNCHANGED <<live, inSlot, armed, proven>>
    BY <2>1 DEF Play
  <2>3. \/ CacheKept
        \/ /\ misled' = (c \in astray)
           /\ location' = [channel |-> holds[c], feature |-> bound[c]]
    BY <2>1, Zenon DEF Play, Store
  <2>4. c \notin astray => bound[c] = HapticIndex(inSlot)
    BY <2>2 DEF CallersAreRight, Right
  <2>5. CASE CacheKept
    BY <2>2, <2>5 DEF PlaysAreFelt, LocationRight, CacheKept
  <2>6. CASE /\ misled' = (c \in astray)
             /\ location' = [channel |-> holds[c], feature |-> bound[c]]
    BY <2>2, <2>4, <2>6 DEF PlaysAreFelt, LocationRight
  <2> QED
    BY <2>3, <2>5, <2>6
<1>9. CASE ReopenNode
  BY <1>9 DEF ReopenNode, HapticTypes, CallersAreRight, PlaysAreFelt, Right, LocationRight
<1>10. CASE LosePower
  BY <1>10 DEF LosePower, HapticTypes, CallersAreRight, PlaysAreFelt, Right, LocationRight
<1>11. CASE \E d \in Mice : PairAnother(d)
  BY <1>11 DEF PairAnother, HapticTypes, CallersAreRight, PlaysAreFelt, Right, LocationRight
<1>12. CASE UNCHANGED hapticVars
  BY <1>12 DEF hapticVars, HapticTypes, CallersAreRight, PlaysAreFelt, Right, LocationRight
<1> QED
  BY <1>1, <1>2, <1>3, <1>4, <1>5, <1>6, <1>7, <1>8, <1>9, <1>10, <1>11, <1>12 DEF HapticNext

\* The callers' invariant.
THEOREM HapticInvHolds == HapticSpec => []HapticInv
<1>1. HapticInit => HapticInv
  <2> SUFFICES ASSUME HapticInit PROVE HapticInv
    OBVIOUS
  <2>1. 1 \in 1..MaxChannels /\ 0 \in 0..MaxPairings
    BY HapticBounds
  <2>2. hop \in [Callers -> Hops]
    BY DEF HapticInit, Hops
  <2>3. HapticTypes
    BY <2>1, <2>2 DEF HapticInit, HapticTypes
  <2> QED
    BY <2>3 DEF HapticInit, HapticInv, CallersAreRight, PlaysAreFelt
<1>2. HapticInv /\ [HapticNext]_hapticVars => HapticInv'
  BY HapticTypesKept, CallersKept, PlaysKept DEF HapticInv
<1> QED
  BY <1>1, <1>2, PTL DEF HapticSpec

\* For any number of callers: from the moment a session has armed the engine
\* until something happens to the slot, the engine stays armed, and the cached
\* location is that engine's unless the play of a caller that had looked it up
\* before the last change has overwritten it: nothing else can.
THEOREM HoversAreFelt == HapticSpec => []PlaysAreFelt
<1>1. HapticInv => PlaysAreFelt
  BY DEF HapticInv
<1> QED
  BY <1>1, HapticInvHolds, PTL
-----------------------------------------------------------------------------
(***************************************************************************)
(* A colour.                                                               *)
(***************************************************************************)
LEMMA MinOfTwo ==
    ASSUME NEW a \in Nat, NEW b \in Nat
    PROVE  Min({a, b}) = IF a < b THEN a ELSE b
<1>1. \E x \in {a, b} : \A y \in {a, b} : x <= y
  OBVIOUS
<1>2. Min({a, b}) \in {a, b} /\ \A y \in {a, b} : Min({a, b}) <= y
  BY <1>1 DEF Min
<1> QED
  BY <1>2

\* A request takes off the list no more than the keyboard reads of it.
LEMMA ChunkIsRead ==
    ASSUME IsFiniteSet(unpainted), NEW n \in ChunkOf
    PROVE  Taken(n) = Sent(n)
<1>1. Cardinality(unpainted) \in Nat /\ ChunkSize \in Nat
  BY FS_CardinalityType, ChunksAreNotEmpty
<1>2. n \in Nat /\ n <= ChunkSize
  BY <1>1, MinOfTwo DEF ChunkOf
<1>3. Min({n, ChunkSize}) = n
  BY <1>1, <1>2, MinOfTwo
<1> QED
  BY <1>3 DEF Taken

LEMMA PresentAreFinite == IsFiniteSet(PresentZones)
<1>1. IsFiniteSet(1..254)
  <2>1. 1 \in Int /\ 254 \in Int
    OBVIOUS
  <2> QED
    BY <2>1, FS_Interval, Zenon
<1>2. PresentZones \subseteq 1..254
  BY DEF PresentZones
<1> QED
  BY <1>1, <1>2, FS_Subset

LEMMA EffectZonesCovered ==
    ASSUME effectZones \in 0..MaxZones
    PROVE  /\ EffectCount \in Nat
           /\ \A z \in 0..(effectZones - 1) : z < ZoneCap => z \in 0..(EffectCount - 1)
<1>1. effectZones \in Nat /\ ZoneCap \in Nat
  BY ZonesAreCounted
<1> QED
  BY <1>1, MinOfTwo DEF EffectCount

LEMMA FindKeepsInv ==
    ASSUME PaintInv, NEW answered \in BOOLEAN, FindZones(answered) PROVE PaintInv'
<1> DEFINE zones == CASE engine = "0x8070" -> 0..(EffectCount - 1)
                      [] engine = "0x8081" -> PresentZones
                      [] engine = "0x8080" -> Keys
<1>1. /\ paint \in {"auto", "only"} /\ engine \in {"0x8070", "0x8081", "0x8080"}
      /\ pending = {} /\ shining = {}
      /\ UNCHANGED <<engines, effectZones, pages, pending, shining>>
  BY DEF FindZones, PaintInv
<1>2. IsFiniteSet(zones)
  <2>1. IsFiniteSet(0..(EffectCount - 1)) /\ IsFiniteSet(PresentZones) /\ IsFiniteSet(Keys)
    BY FS_Interval, PresentAreFinite, KeysAreFinite, EffectZonesCovered DEF PaintInv
  <2> QED
    BY <1>1, <2>1
<1>3. PresentZones' = PresentZones
  BY <1>1 DEF PresentZones
<1>4. CASE paint' = "failed" /\ UNCHANGED <<engine, unpainted>>
  BY <1>1, <1>4 DEF PaintInv, PaintedWhole
<1>5. CASE NextEngine /\ UNCHANGED unpainted
  <2>1. \/ paint' = "auto" /\ engine' \in {"0x8081", "0x8080"}
        \/ paint' = "failed" /\ engine' = engine
    BY <1>1, <1>5 DEF NextEngine
  <2> QED
    BY <1>1, <1>5, <2>1 DEF PaintInv, PaintedWhole
<1>6. CASE engine \in engines /\ paint' = "painting" /\ unpainted' = zones /\ UNCHANGED engine
  <2>1. NothingMissed'
    BY <1>1, <1>3, <1>6, EffectZonesCovered DEF PaintInv, NothingMissed
  <2> HIDE DEF zones
  <2> QED
    BY <1>1, <1>2, <1>6, <2>1 DEF PaintInv, PaintedWhole
<1> QED
  BY <1>4, <1>5, <1>6 DEF FindZones

LEMMA ZoneKeepsInv ==
    ASSUME PaintInv, NEW answered \in BOOLEAN, PaintZone(answered) PROVE PaintInv'
<1> DEFINE z == Min(unpainted)
           has == z < effectZones \/ effectZones = 0
<1>1. /\ paint = "painting" /\ engine = "0x8070" /\ unpainted' = unpainted \ {z}
      /\ (has /\ shining' = shining \cup {z}) \/ (~(has /\ answered) /\ shining' = shining)
      /\ paint' = IF ~(has /\ answered) THEN "failed"
                  ELSE IF unpainted' = {} THEN "ok" ELSE "painting"
      /\ UNCHANGED <<engines, effectZones, pages, engine, pending>>
  BY DEF PaintZone
<1> HIDE DEF z, has
<1>2. IsFiniteSet(unpainted')
  BY <1>1, FS_Subset DEF PaintInv
<1>3. CASE paint' = "failed"
  BY <1>1, <1>2, <1>3 DEF PaintInv, PaintedWhole
<1>4. CASE paint' # "failed"
  <2>1. shining' = shining \cup {z} /\ (paint' = "ok" => unpainted' = {})
        /\ paint' \in {"ok", "painting"}
    BY <1>1, <1>4
  <2>2. \A x \in 0..(effectZones - 1) : x < ZoneCap => x \in unpainted' \cup shining'
    BY <1>1, <2>1 DEF PaintInv, NothingMissed
  <2>3. engine \in engines
    BY <1>1 DEF PaintInv
  <2> QED
    BY <1>1, <1>2, <2>1, <2>2, <2>3 DEF PaintInv, NothingMissed, PaintedWhole
<1> QED
  BY <1>3, <1>4

LEMMA ChunkKeepsInv ==
    ASSUME PaintInv, NEW answered \in BOOLEAN, PaintChunk(answered) PROVE PaintInv'
<1>1. PICK n \in ChunkOf : /\ unpainted' = unpainted \ Sent(n)
                           /\ pending' = pending \cup Taken(n) \/ (~answered /\ pending' = pending)
  BY DEF PaintChunk
<1>2. /\ paint = "painting" /\ engine # "0x8070"
      /\ paint' = IF answered THEN "painting" ELSE "failed"
      /\ UNCHANGED <<engines, effectZones, pages, engine, shining>>
  BY DEF PaintChunk
<1>3. Taken(n) = Sent(n) /\ Sent(n) \subseteq unpainted
  BY ChunkIsRead DEF PaintInv, Sent
<1>4. IsFiniteSet(unpainted')
  BY <1>1, FS_Subset DEF PaintInv
<1>5. PresentZones' = PresentZones
  BY <1>2 DEF PresentZones
<1>6. CASE answered
  <2>1. unpainted' \cup pending' = unpainted \cup pending
    BY <1>1, <1>3, <1>6
  <2> QED
    BY <1>2, <1>4, <1>5, <1>6, <2>1 DEF PaintInv, NothingMissed, PaintedWhole
<1>7. CASE ~answered
  BY <1>2, <1>4, <1>5, <1>7 DEF PaintInv, NothingMissed, PaintedWhole
<1> QED
  BY <1>6, <1>7

LEMMA CommitKeepsInv ==
    ASSUME PaintInv, NEW answered \in BOOLEAN, CommitFrame(answered) PROVE PaintInv'
<1>1. /\ paint = "painting" /\ engine # "0x8070" /\ unpainted = {}
      /\ shining' = pending \/ (~answered /\ shining' = shining)
      /\ paint' = IF answered THEN "ok" ELSE "failed"
      /\ UNCHANGED <<engines, effectZones, pages, engine, unpainted, pending>>
  BY DEF CommitFrame
<1>2. PresentZones' = PresentZones
  BY <1>1 DEF PresentZones
<1>3. /\ engine \in engines
      /\ engine = "0x8081" => pending = PresentZones /\ shining = {}
      /\ engine = "0x8080" => Keys \subseteq pending
  BY <1>1 DEF PaintInv, NothingMissed
<1>4. engine = "0x8081" => shining' \in {{}, PresentZones}
  BY <1>1, <1>3
<1>5. paint' = "ok" => shining' = pending
  BY <1>1
<1>6. \A p \in DOMAIN pages : \A b \in pages[p] :
        PageBase[p] + b \in 1..254 => PageBase[p] + b \in PresentZones
  BY DEF PresentZones
<1>7. PaintedWhole'
  BY <1>1, <1>2, <1>3, <1>4, <1>5, <1>6 DEF PaintedWhole
<1> QED
  BY <1>1, <1>7 DEF PaintInv

\* The invariant of a colour being set.
THEOREM PaintInvHolds == LightSpec => []PaintInv
<1>1. LightInit => PaintInv
  <2> SUFFICES ASSUME LightInit PROVE PaintInv
    OBVIOUS
  <2>1. IsFiniteSet({})
    BY FS_EmptySet
  <2> QED
    BY <2>1 DEF LightInit, PaintInv, PaintedWhole
<1>2. PaintInv /\ [LightNext]_lightVars => PaintInv'
  <2> SUFFICES ASSUME PaintInv, [LightNext]_lightVars PROVE PaintInv'
    OBVIOUS
  <2>1. CASE \E method \in Methods : StartPaint(method)
    <3>1. /\ paint = "idle" /\ paint' \in {"auto", "only"}
          /\ engine' \in {"0x8070", "0x8081", "0x8080"}
          /\ UNCHANGED <<engines, effectZones, pages, unpainted, pending, shining>>
      BY <2>1 DEF StartPaint, Methods
    <3> QED
      BY <3>1 DEF PaintInv, PaintedWhole
  <2>2. CASE \E answered \in BOOLEAN : FindZones(answered)
    BY <2>2, FindKeepsInv
  <2>3. CASE \E answered \in BOOLEAN : PaintZone(answered)
    BY <2>3, ZoneKeepsInv
  <2>4. CASE \E answered \in BOOLEAN : PaintChunk(answered)
    BY <2>4, ChunkKeepsInv
  <2>5. CASE \E answered \in BOOLEAN : CommitFrame(answered)
    BY <2>5, CommitKeepsInv
  <2>6. CASE UNCHANGED lightVars
    BY <2>6 DEF lightVars, PaintInv, NothingMissed, PaintedWhole, PresentZones
  <2> QED
    BY <2>1, <2>2, <2>3, <2>4, <2>5, <2>6 DEF LightNext
<1> QED
  BY <1>1, <1>2, PTL DEF LightSpec

\* Whatever the keyboard offers and however many zones and keys it has, a call
\* that succeeds has painted all of them, and no frame of 0x8081 shows in part.
THEOREM ColourIsWhole == LightSpec => []PaintedWhole
<1>1. PaintInv => PaintedWhole
  BY DEF PaintInv
<1> QED
  BY <1>1, PaintInvHolds, PTL
-----------------------------------------------------------------------------
(***************************************************************************)
(* One setting.                                                            *)
(***************************************************************************)
USE DEF WheelOps

LEMMA CallFields ==
    ASSUME NEW c \in Calls
    PROVE  /\ c.op \in Ops
           /\ c.op = "set" => /\ c.mode \in {"free", "ratchet"} /\ c.sense \in Senses
                              /\ c.torque \in Senses \cup {0}
           /\ c.op = "sensitivity" => c.sense \in Senses
           /\ c.op \in {"wheel", "invert", "resolution"} =>
                  /\ c.resolution \in {"low", "high", Keep} /\ c.inverted \in {"no", "yes", Keep}
           /\ c.op = "dpi" => c.dpi \in Senses
           /\ c.op = "backlight" => c.lit \in BOOLEAN
           /\ c.op = "fnlock" => c.on \in BOOLEAN
<1>1. CASE c \in [op : {"set"}, mode : {"free", "ratchet"}, sense : Senses, torque : Senses \cup {0}]
  BY <1>1 DEF Ops
<1>2. CASE c \in [op : {"toggle"}]
  BY <1>2 DEF Ops
<1>3. CASE c \in [op : {"sensitivity"}, sense : Senses]
  BY <1>3 DEF Ops
<1>4. CASE \/ c \in [op : {"wheel"}, resolution : {"low", "high"}, inverted : {"no", "yes"}]
           \/ c \in [op : {"invert"}, resolution : {Keep}, inverted : {"no", "yes"}]
           \/ c \in [op : {"resolution"}, resolution : {"low", "high"}, inverted : {Keep}]
  BY <1>4 DEF Ops
<1>5. CASE c \in [op : {"dpi"}, dpi : Senses]
  BY <1>5 DEF Ops
<1>6. CASE c \in [op : {"backlight"}, lit : BOOLEAN]
  BY <1>6 DEF Ops
<1>7. CASE c \in [op : {"fnlock"}, on : BOOLEAN]
  BY <1>7 DEF Ops
<1> QED
  BY <1>1, <1>2, <1>3, <1>4, <1>5, <1>6, <1>7 DEF Calls

\* A write, field by field: it sets what is asked and keeps the rest, given
\* that what was read still holds where the write is made of it.
Honest(new) ==
    /\ new \in Settings
    /\ \A f \in DOMAIN setting \ Fields(call.op) : new[f] = setting[f]
    /\ call.op = "invert" /\ call.inverted = "no" => new.diverted = setting.diverted
    /\ call.op = "set" /\ call.torque = 0 => new.torque = setting.torque
    /\ setting.light # "temporary" => new.light = setting.light
    /\ setting.across = 0 => new.across = 0

Done(new) ==
    CASE call.op = "set" -> /\ new.mode = call.mode /\ new.sense = call.sense
                            /\ \/ call.torque = 0 \/ feature = "0x2110"
                               \/ new.torque \in {0, call.torque}
      [] call.op = "toggle" -> new.mode # setting.mode
      [] call.op = "sensitivity" -> new.sense = call.sense
      [] call.op \in {"wheel", "invert", "resolution"} ->
           /\ call.resolution # Keep => new.resolution = call.resolution /\ ~new.diverted
           /\ call.inverted # Keep => new.inverted = call.inverted
           /\ call.inverted = "yes" => ~new.diverted
      [] call.op = "dpi" -> new.dpi = call.dpi
      [] call.op = "backlight" -> new.lit = call.lit
      [] call.op = "fnlock" -> new.fnlock = call.on
      [] OTHER -> TRUE

LEMMA DesiredIsHonest ==
    ASSUME setting \in Settings, seen \in Settings, call \in Calls,
           call.op = "dpi" => feature \in {"0x2201", "0x2202"}, WritesBlind \/ SeenIsNow
    PROVE  Honest(Desired) /\ Done(Desired)
<1>1. call.op \in Ops
  BY CallFields
<1>2. SeenIsNow => /\ seen.mode = setting.mode /\ seen.sense = setting.sense
                   /\ seen.resolution = setting.resolution /\ seen.inverted = setting.inverted
                   /\ seen.diverted = setting.diverted /\ seen.across = setting.across
                   /\ seen.lift = setting.lift /\ seen.light = setting.light
                   /\ seen.level = setting.level
                   /\ seen.torque = IF feature = "0x2110" THEN 0 ELSE setting.torque
  BY DEF SeenIsNow, Read, Settings
<1> DEFINE or(wanted, kept) == IF wanted = Keep THEN kept ELSE wanted
           torque(t) == IF feature = "0x2110" \/ t = 0 \/ setting.torque = 0
                        THEN setting.torque ELSE t
<1>3. CASE call.op = "set"
  <2>1. Desired = [setting EXCEPT !.mode = call.mode, !.sense = call.sense,
                                  !.torque = torque(call.torque)]
    BY <1>3 DEF Desired
  <2>2. call.mode \in {"free", "ratchet"} /\ call.sense \in Senses /\ call.torque \in Senses \cup {0}
    BY <1>3, CallFields
  <2> QED
    BY <1>3, <2>1, <2>2 DEF Honest, Done, Settings, Fields
<1>4. CASE call.op = "toggle"
  <2>1. Desired = [setting EXCEPT !.mode = IF seen.mode = "free" THEN "ratchet" ELSE "free",
                                  !.sense = seen.sense, !.torque = torque(seen.torque)]
    BY <1>4 DEF Desired
  <2>2. SeenIsNow
    BY <1>4 DEF WritesBlind
  <2>3. torque(seen.torque) = setting.torque /\ seen.sense = setting.sense
    BY <1>2, <2>2
  <2>4. Desired = [setting EXCEPT !.mode = IF setting.mode = "free" THEN "ratchet" ELSE "free"]
    <3> HIDE DEF torque
    <3> QED
      BY <1>2, <2>1, <2>2, <2>3 DEF Settings
  <2> QED
    BY <1>4, <2>4 DEF Honest, Done, Settings, Fields
<1>5. CASE call.op = "sensitivity"
  <2>1. Desired = [setting EXCEPT !.mode = seen.mode, !.sense = call.sense,
                                  !.torque = torque(seen.torque)]
    BY <1>5 DEF Desired
  <2>2. SeenIsNow /\ call.sense \in Senses
    BY <1>5, CallFields DEF WritesBlind
  <2> QED
    BY <1>2, <1>5, <2>1, <2>2 DEF Honest, Done, Settings, Fields
<1>6. CASE call.op \in {"wheel", "invert", "resolution"}
  <2>1. Desired = [setting EXCEPT !.resolution = or(call.resolution, seen.resolution),
                                  !.inverted = or(call.inverted, seen.inverted),
                                  !.diverted = StillDiverted]
    BY <1>6 DEF Desired
  <2>2. SeenIsNow /\ call.resolution \in {"low", "high", Keep} /\ call.inverted \in {"no", "yes", Keep}
    BY <1>6, CallFields DEF WritesBlind
  <2>3. /\ call.op = "invert" => call.resolution = Keep /\ call.inverted # Keep
        /\ call.op = "resolution" => call.inverted = Keep
    BY <1>6 DEF Calls, Keep
  <2>4. StillDiverted = (call.resolution = Keep /\ call.inverted # "yes" /\ setting.diverted)
    BY <1>2, <2>2 DEF StillDiverted
  <2>5. Desired \in Settings
    <3>1. /\ or(call.resolution, seen.resolution) \in {"low", "high"}
          /\ or(call.inverted, seen.inverted) \in {"no", "yes"}
          /\ StillDiverted \in BOOLEAN
      BY <2>2, <2>4 DEF Settings
    <3> HIDE DEF or
    <3> QED
      BY <2>1, <3>1 DEF Settings
  <2> HIDE DEF or
  <2>6. /\ Desired.diverted = StillDiverted /\ Desired.mode = setting.mode
        /\ Desired.sense = setting.sense /\ Desired.torque = setting.torque
        /\ Desired.dpi = setting.dpi /\ Desired.across = setting.across
        /\ Desired.lift = setting.lift /\ Desired.lit = setting.lit
        /\ Desired.light = setting.light /\ Desired.level = setting.level
        /\ Desired.fnlock = setting.fnlock
        /\ Desired.resolution = or(call.resolution, seen.resolution)
        /\ Desired.inverted = or(call.inverted, seen.inverted)
    BY <2>1 DEF Settings
  <2>7. Honest(Desired)
    <3>1. \A f \in DOMAIN setting \ Fields(call.op) : Desired[f] = setting[f]
      <4>1. /\ call.op = "invert" => or(call.resolution, seen.resolution) = setting.resolution
            /\ call.op = "resolution" => or(call.inverted, seen.inverted) = setting.inverted
        BY <1>2, <2>2, <2>3 DEF or
      <4>2. DOMAIN setting = {"mode", "sense", "torque", "resolution", "inverted", "diverted",
                              "dpi", "across", "lift", "lit", "light", "level", "fnlock"}
        BY DEF Settings
      <4> QED
        BY <1>6, <2>6, <4>1, <4>2 DEF Fields
    <3>2. call.op = "invert" /\ call.inverted = "no" => Desired.diverted = setting.diverted
      BY <2>3, <2>4, <2>6 DEF Settings
    <3>3. call.op # "set"
      BY <1>6
    <3> QED
      BY <2>5, <2>6, <3>1, <3>2, <3>3 DEF Honest
  <2>8. Done(Desired)
    BY <1>6, <2>4, <2>6 DEF Done, or
  <2> QED
    BY <2>7, <2>8
<1>7. CASE call.op = "dpi" /\ feature = "0x2201"
  <2>1. Desired = [setting EXCEPT !.dpi = call.dpi] /\ call.dpi \in Senses
    BY <1>7, CallFields DEF Desired
  <2> QED
    BY <1>7, <2>1 DEF Honest, Done, Settings, Fields
<1>8. CASE call.op = "dpi" /\ feature = "0x2202"
  <2>1. Desired = [setting EXCEPT !.dpi = call.dpi, !.lift = seen.lift,
                                  !.across = IF seen.across = 0 THEN 0 ELSE call.dpi]
    BY <1>8 DEF Desired
  <2>2. SeenIsNow /\ call.dpi \in Senses
    BY <1>8, CallFields DEF WritesBlind
  <2> QED
    BY <1>2, <1>8, <2>1, <2>2 DEF Honest, Done, Settings, Fields
<1>9. CASE call.op = "backlight"
  <2>1. Desired = [setting EXCEPT !.lit = call.lit, !.level = seen.level,
                     !.light = IF seen.light = "temporary" THEN "auto" ELSE seen.light]
    BY <1>9 DEF Desired
  <2>2. SeenIsNow /\ call.lit \in BOOLEAN
    BY <1>9, CallFields DEF WritesBlind
  <2> QED
    BY ZenonT(60), <1>2, <1>9, <2>1, <2>2 DEF Honest, Done, Settings, Fields
<1>10. CASE call.op = "fnlock"
  <2>1. Desired = [setting EXCEPT !.fnlock = call.on] /\ call.on \in BOOLEAN
    BY <1>10, CallFields DEF Desired
  <2> QED
    BY <1>10, <2>1 DEF Honest, Done, Settings, Fields
<1> QED
  BY <1>1, <1>3, <1>4, <1>5, <1>6, <1>7, <1>8, <1>9, <1>10 DEF Ops

\* What a step that leaves the settings alone leaves true.
LEMMA SameSettings ==
    ASSUME OnlyWhatWasAsked, UNCHANGED <<setting, call, before, touched>>
    PROVE  OnlyWhatWasAsked'
  BY DEF OnlyWhatWasAsked

\* What an honest write of the device leaves true.
LEMMA HonestWrite ==
    ASSUME WriteInv, Honest(setting'), UNCHANGED <<call, before, touched>>
    PROVE  OnlyWhatWasAsked'
<1>1. OnlyWhatWasAsked /\ setting \in Settings /\ before \in Settings /\ setting' \in Settings
  BY DEF WriteInv, WritesAreHonest, WriteTypes, Honest
<1>2. DOMAIN setting' = DOMAIN setting
  BY <1>1 DEF Settings
<1>3. ASSUME ~touched, NEW f \in DOMAIN setting' \ Fields(call'.op)
      PROVE  setting'[f] = before'[f]
  BY <1>1, <1>2, <1>3 DEF OnlyWhatWasAsked, Honest
<1>4. ASSUME ~touched
      PROVE  /\ call.op = "invert" /\ call.inverted = "no" => setting'.diverted = before.diverted
             /\ call.op = "set" /\ call.torque = 0 => setting'.torque = before.torque
             /\ before.light # "temporary" => setting'.light = before.light
             /\ before.across = 0 => setting'.across = 0
  BY <1>1, <1>4 DEF OnlyWhatWasAsked, Honest
<1> QED
  BY <1>3, <1>4 DEF OnlyWhatWasAsked

LEMMA DriversOfCall ==
    ASSUME NEW op \in Ops
    PROVE  /\ Drivers(op) \in Seq(Features) /\ Drivers(op) # << >>
           /\ op = "dpi" => Drivers(op) \in Seq({"0x2201", "0x2202"})
<1>1. CASE op \in {"set", "toggle", "sensitivity"}
  <2>1. Drivers(op) = <<"0x2111", "0x2111", "0x2110">>
    BY <1>1 DEF Drivers
  <2> QED
    BY <1>1, <2>1 DEF Features
<1>2. CASE op \in {"wheel", "invert", "resolution"}
  <2>1. Drivers(op) = <<"0x2121">>
    BY <1>2 DEF Drivers
  <2> QED
    BY <1>2, <2>1 DEF Features
<1>3. CASE op = "dpi"
  <2>1. Drivers(op) = <<"0x2201", "0x2202">>
    BY <1>3 DEF Drivers
  <2>2. \A S : "0x2201" \in S /\ "0x2202" \in S => Drivers(op) \in Seq(S)
    BY <2>1
  <2>3. Drivers(op) # << >>
    BY <2>1
  <2> QED
    BY <1>3, <2>2, <2>3 DEF Features
<1>4. CASE op = "backlight"
  <2>1. Drivers(op) = <<"0x1982">>
    BY <1>4 DEF Drivers
  <2> QED
    BY <1>4, <2>1 DEF Features
<1>5. CASE op = "fnlock"
  <2>1. Drivers(op) = <<"0x40a3", "0x40a2">>
    BY <1>5 DEF Drivers
  <2>2. \A S : "0x40a3" \in S /\ "0x40a2" \in S => Drivers(op) \in Seq(S)
    BY <2>1
  <2>3. Drivers(op) # << >>
    BY <2>1
  <2> QED
    BY <1>5, <2>2, <2>3 DEF Features
<1> QED
  BY <1>1, <1>2, <1>3, <1>4, <1>5 DEF Ops

\* A call that stops, or starts its second attempt, with the settings as an
\* honest call leaves them.
LEMMA GivingUp ==
    ASSUME WriteInv, stage # "idle", NEW retried, retried => call.op \in {"set", "toggle"},
           NEW outcome, GiveUpOr(retried, outcome),
           UNCHANGED <<offers, invertible, call, seen, crossed, meddling, before, touched>>,
           setting' \in Settings, OnlyWhatWasAsked',
           ignored' \in BOOLEAN, carried' \in BOOLEAN,
           stage' = "look" => ~ignored' /\ (~touched => BeforeWriting')
    PROVE  WriteInv'
<1>1. call \in Calls /\ call.op \in Ops
  BY CallFields DEF WriteInv
<1>2. /\ stage' \in {"look", "failed"} /\ (stage' = "look" => tries' = 2)
      /\ tries' \in 1..2 /\ (tries' = 2 => call.op \in {"set", "toggle"})
      /\ choices' \in Seq(Features) /\ (stage' = "look" => choices' # << >>)
      /\ feature' \in Features \cup {"none", "wrong"}
      /\ call.op = "dpi" => /\ choices' \in Seq({"0x2201", "0x2202"})
                            /\ feature' \in {"0x2201", "0x2202", "none", "wrong"}
  <2>1. CASE tries = 1 /\ retried /\ Transient(outcome)
    BY <1>1, <2>1, DriversOfCall DEF GiveUpOr, Features
  <2>2. CASE ~(tries = 1 /\ retried /\ Transient(outcome))
    <3>1. stage' = "failed" /\ UNCHANGED <<tries, choices, feature>>
      BY <2>2 DEF GiveUpOr
    <3> QED
      BY <3>1 DEF WriteInv, WriteTypes
  <2> QED
    BY <2>1, <2>2
<1>3. WriteTypes'
  BY <1>1, <1>2 DEF WriteInv, WriteTypes
<1>4. (~touched => /\ stage = "write" => WritesBlind \/ SeenIsNow
                   /\ stage \in {"idle", "look", "caps", "read", "write"} => BeforeWriting
                   /\ stage = "check" => Asked \/ Unmoved)'
  BY <1>2
<1>5. WritesAreHonest'
  BY <1>2 DEF WritesAreHonest, ReplyIsTrue
<1>6. stage' \in {"idle", "look", "caps", "read", "write"} => ~ignored'
  BY <1>2
<1> QED
  BY <1>1, <1>2, <1>3, <1>4, <1>5, <1>6 DEF WriteInv

\* A call that goes on, at the same attempt and with the same settings.
LEMMA GoingOn ==
    ASSUME WriteInv, stage # "idle", stage' \in {"caps", "read", "write", "ok", "failed"},
           UNCHANGED <<offers, invertible, setting, call, choices, tries, meddling,
                       before, touched, ignored, carried>>,
           crossed' \in 0..MaxCrossed, seen' \in Settings,
           feature' \in Features \cup {"wrong"} \/ feature' = feature,
           stage \in {"look", "caps", "read", "write"} \/ stage' \in {"ok", "failed"},
           call.op = "dpi" => feature' \in {"0x2201", "0x2202", "none", "wrong"},
           stage' \in {"caps", "read", "write"} => feature' # "none",
           ~touched /\ stage' = "write" => (WritesBlind \/ SeenIsNow)', ReplyIsTrue'
    PROVE  WriteInv'
<1>1. WriteTypes'
  BY DEF WriteInv, WriteTypes
<1>2. OnlyWhatWasAsked'
  BY SameSettings DEF WriteInv, WritesAreHonest
<1>3. WritesAreHonest'
  BY <1>2 DEF WritesAreHonest
<1>4. (~touched => /\ stage = "write" => WritesBlind \/ SeenIsNow
                   /\ stage \in {"idle", "look", "caps", "read", "write"} => BeforeWriting
                   /\ stage = "check" => Asked \/ Unmoved)'
  <2>1. stage' \in {"idle", "look", "caps", "read", "write"} /\ ~touched => BeforeWriting
    BY DEF WriteInv
  <2>2. BeforeWriting => BeforeWriting'
    BY DEF BeforeWriting
  <2> QED
    BY <2>1, <2>2
<1>5. stage' \in {"idle", "look", "caps", "read", "write"} => ~ignored'
  BY DEF WriteInv
<1>6. /\ choices' \in Seq(Features) /\ stage' \notin {"look", "idle", "check"}
      /\ call' \in Calls /\ seen' \in Settings
      /\ call'.op = "dpi" => /\ choices' \in Seq({"0x2201", "0x2202"})
                            /\ feature' \in {"0x2201", "0x2202", "none", "wrong"}
      /\ stage' \in {"caps", "read", "write"} => feature' # "none"
      /\ tries' = 2 => call'.op \in {"set", "toggle"}
  BY DEF WriteInv
<1> QED
  BY <1>1, <1>3, <1>4, <1>5, <1>6 DEF WriteInv

LEMMA StartKeeps == ASSUME WriteInv, NEW c \in Calls, StartWrite(c) PROVE WriteInv'
<1>1. /\ stage' = "look" /\ call' = c /\ choices' = Drivers(c.op) /\ feature' = "none"
      /\ tries' = 1 /\ before' = setting /\ touched' = FALSE
      /\ ignored' = FALSE /\ carried' = FALSE
      /\ UNCHANGED <<offers, invertible, setting, seen, crossed, meddling>>
  BY DEF StartWrite
<1>2. c.op \in Ops
  BY CallFields
<1>3. /\ choices' \in Seq(Features) /\ choices' # << >>
      /\ call'.op = "dpi" => choices' \in Seq({"0x2201", "0x2202"})
  BY <1>1, <1>2, DriversOfCall
<1>4. WriteTypes'
  <2>1. /\ offers \subseteq Features /\ invertible \in BOOLEAN /\ setting \in Settings
        /\ crossed \in 0..MaxCrossed /\ meddling \in 0..MaxMeddling
    <3>1. WriteTypes
      BY DEF WriteInv
    <3> QED
      BY <3>1 DEF WriteTypes
  <2>2. tries' \in 1..2 /\ touched' \in BOOLEAN /\ ignored' \in BOOLEAN /\ carried' \in BOOLEAN
    <3>1. tries' \in 1..2
      BY <1>1
    <3>2. touched' \in BOOLEAN /\ ignored' \in BOOLEAN /\ carried' \in BOOLEAN
      BY <1>1, Zenon
    <3> QED
      BY <3>1, <3>2
  <2>3. /\ stage' = "look" /\ call' = c /\ feature' = "none" /\ before' = setting
        /\ UNCHANGED <<offers, invertible, setting, crossed, meddling>>
    BY <1>1
  <2> QED
    BY <1>2, <2>1, <2>2, <2>3 DEF WriteTypes
<1>5. WritesAreHonest'
  BY <1>1 DEF WritesAreHonest, ReplyIsTrue, OnlyWhatWasAsked
<1>6. seen' \in Settings
  BY <1>1 DEF WriteInv
<1>7. (~touched => /\ stage = "write" => WritesBlind \/ SeenIsNow
                   /\ stage \in {"idle", "look", "caps", "read", "write"} => BeforeWriting
                   /\ stage = "check" => Asked \/ Unmoved)'
  BY <1>1 DEF BeforeWriting
<1>8. stage' = "look" /\ ~ignored'
  BY <1>1
<1> QED
  BY <1>1, <1>3, <1>4, <1>5, <1>6, <1>7, <1>8 DEF WriteInv

LEMMA LookUpKeeps == ASSUME WriteInv, NEW outcome \in Outcomes, LookUp(outcome) PROVE WriteInv'
<1>1. /\ stage = "look" /\ choices \in Seq(Features) /\ choices # << >>
      /\ call \in Calls /\ call.op \in Ops
      /\ call.op = "dpi" => choices \in Seq({"0x2201", "0x2202"})
  BY CallFields DEF LookUp, WriteInv
<1>2. UNCHANGED <<offers, invertible, setting, call, seen, meddling, before, touched,
                  ignored, carried>>
  BY DEF LookUp
<1>3. Head(choices) \in Features /\ Tail(choices) \in Seq(Features)
  BY <1>1
<1>4. call.op = "dpi" => /\ Head(choices) \in {"0x2201", "0x2202"}
                         /\ Tail(choices) \in Seq({"0x2201", "0x2202"})
  BY <1>1
<1>5. CASE outcome \notin {"answered", "crossed"}
  <2>1. GiveUpOr(call.op = "toggle", outcome) /\ UNCHANGED crossed
    BY <1>5 DEF LookUp
  <2>2. OnlyWhatWasAsked'
    BY <1>2, SameSettings DEF WriteInv, WritesAreHonest
  <2>3. setting' \in Settings
    BY <1>2 DEF WriteInv, WriteTypes
  <2>4. stage' = "look" => ~ignored' /\ (~touched => BeforeWriting')
    BY <1>1, <1>2, <2>1 DEF GiveUpOr, BeforeWriting, WriteInv
  <2>5. ignored' \in BOOLEAN /\ carried' \in BOOLEAN
    BY <1>2 DEF WriteInv, WriteTypes
  <2>6. call.op = "toggle" => call.op \in {"set", "toggle"}
    OBVIOUS
  <2> QED
    BY <1>1, <1>2, <2>1, <2>2, <2>3, <2>4, <2>5, <2>6, GivingUp
<1>6. CASE outcome \in {"answered", "crossed"}
  <2>1. crossed' \in 0..MaxCrossed /\ UNCHANGED tries
    BY <1>6, WriteBounds DEF LookUp, WriteInv, WriteTypes
  <2>2. CASE /\ feature' = IF outcome = "crossed" THEN "wrong" ELSE Head(choices)
             /\ stage' = First(call.op) /\ UNCHANGED choices
    <3>1. feature' \in Features \cup {"wrong"} /\ feature' # "none"
      BY <1>3, <2>2 DEF Features
    <3>2. call.op = "dpi" => feature' \in {"0x2201", "0x2202", "none", "wrong"}
      BY <1>4, <2>2
    <3>3. /\ stage' \in {"caps", "read", "write"}
          /\ stage' = "write" => \/ call.op \in {"set", "fnlock"}
                                 \/ call.op = "dpi" /\ feature' = "0x2201"
      BY <1>1, <2>2 DEF First
    <3>4. stage' = "write" => WritesBlind'
      BY <1>2, <3>3 DEF WritesBlind
    <3>5. seen' \in Settings
      BY <1>2 DEF WriteInv
    <3>6. ReplyIsTrue'
      BY <3>3 DEF ReplyIsTrue
    <3> QED
      BY <1>1, <1>2, <2>1, <2>2, <3>1, <3>2, <3>3, <3>4, <3>5, <3>6, GoingOn
  <2>3. CASE /\ choices' = Tail(choices) /\ UNCHANGED feature
             /\ stage' = IF Tail(choices) = << >> THEN "failed" ELSE "look"
    <3>1. WriteTypes'
      BY <1>1, <1>2, <2>1, <2>3 DEF WriteInv, WriteTypes
    <3>2. WritesAreHonest'
      BY <1>2, <2>3, SameSettings DEF WriteInv, WritesAreHonest, ReplyIsTrue
    <3>3. (~touched => /\ stage = "write" => WritesBlind \/ SeenIsNow
                       /\ stage \in {"idle", "look", "caps", "read", "write"} => BeforeWriting
                       /\ stage = "check" => Asked \/ Unmoved)'
      BY <1>1, <1>2, <2>1, <2>3 DEF WriteInv, BeforeWriting
    <3>4. stage' \in {"look", "failed"} /\ ~ignored'
      BY <1>1, <1>2, <2>3 DEF WriteInv
    <3> QED
      BY <1>1, <1>2, <1>3, <1>4, <2>1, <2>3, <3>1, <3>2, <3>3, <3>4 DEF WriteInv
  <2>4. \/ /\ feature' = IF outcome = "crossed" THEN "wrong" ELSE Head(choices)
           /\ stage' = First(call.op) /\ UNCHANGED choices
        \/ /\ choices' = Tail(choices) /\ UNCHANGED feature
           /\ stage' = IF Tail(choices) = << >> THEN "failed" ELSE "look"
    BY <1>6 DEF LookUp
  <2> QED
    BY <2>2, <2>3, <2>4
<1> QED
  BY <1>5, <1>6

LEMMA CapsKeeps ==
    ASSUME WriteInv, NEW outcome \in Outcomes, CheckCapabilities(outcome) PROVE WriteInv'
<1>1. /\ stage = "caps" /\ stage' \in {"read", "failed"} /\ feature # "none"
      /\ UNCHANGED <<offers, invertible, setting, call, choices, feature, seen, tries,
                     crossed, meddling, before, touched, ignored, carried>>
  BY DEF CheckCapabilities, WriteInv
<1>2. crossed' \in 0..MaxCrossed /\ seen' \in Settings
  BY <1>1 DEF WriteInv, WriteTypes
<1>3. call.op = "dpi" => feature' \in {"0x2201", "0x2202", "none", "wrong"}
  BY <1>1 DEF WriteInv
<1>4. ReplyIsTrue'
  BY <1>1 DEF ReplyIsTrue
<1> QED
  BY <1>1, <1>2, <1>3, <1>4, GoingOn

\* What was asked already holds when what is read is already so.
LEMMA SoIsAsked ==
    ASSUME call \in Calls, setting \in Settings, AlreadySo(setting) PROVE Asked
<1>1. CASE call.op = "set"
  BY <1>1 DEF AlreadySo, Asked
<1>2. CASE call.op \in {"wheel", "invert", "resolution"}
  <2>1. /\ call.resolution \in {Keep, setting.resolution}
        /\ call.inverted \in {Keep, setting.inverted}
        /\ call.resolution # Keep \/ call.inverted = "yes" => ~setting.diverted
    BY <1>2 DEF AlreadySo
  <2> QED
    BY <1>2, <2>1 DEF Asked
<1>3. CASE call.op \notin {"set", "wheel", "invert", "resolution"}
  BY <1>3 DEF AlreadySo
<1> QED
  BY <1>1, <1>2, <1>3

LEMMA ReadKeeps ==
    ASSUME WriteInv, NEW outcome \in Outcomes, ReadSetting(outcome) PROVE WriteInv'
<1>1. /\ stage = "read" /\ setting \in Settings /\ seen \in Settings /\ feature # "none"
      /\ call \in Calls /\ crossed \in 0..MaxCrossed
      /\ call.op = "dpi" => feature \in {"0x2201", "0x2202", "none", "wrong"}
  BY DEF ReadSetting, WriteInv, WriteTypes
<1>2. UNCHANGED <<offers, invertible, setting, call, crossed, meddling, before, touched,
                  ignored, carried>>
  BY DEF ReadSetting
<1>3. CASE Reads(outcome)
  <2>1. /\ seen' = Read
        /\ stage' = IF AlreadySo(setting) THEN "ok" ELSE "write"
        /\ UNCHANGED <<tries, choices, feature>>
    BY <1>3 DEF ReadSetting
  <2>2. seen' \in Settings
    BY <1>1, <2>1 DEF Settings, Read
  <2>3. SeenIsNow'
    BY <1>2, <2>1 DEF SeenIsNow, Read
  <2>4. stage' = "ok" => Asked'
    <3>1. stage' = "ok" => Asked
      BY <1>1, <2>1, SoIsAsked
    <3> QED
      BY <1>2, <2>1, <3>1 DEF Asked
  <2>5. stage' = "ok" => call'.op # "toggle"
    BY <1>2, <2>1 DEF AlreadySo
  <2>6. ReplyIsTrue'
    BY <2>3, <2>4, <2>5 DEF ReplyIsTrue
  <2> QED
    BY <1>1, <1>2, <2>1, <2>2, <2>3, <2>6, GoingOn
<1>4. CASE ~Reads(outcome) /\ call.op = "set"
  <2>1. stage' = "write" /\ UNCHANGED <<seen, tries, choices, feature>>
    BY <1>4 DEF ReadSetting
  <2>2. WritesBlind'
    BY <1>2, <1>4 DEF WritesBlind
  <2>3. ReplyIsTrue'
    BY <2>1 DEF ReplyIsTrue
  <2> QED
    BY <1>1, <1>2, <2>1, <2>2, <2>3, GoingOn
<1>5. CASE ~Reads(outcome) /\ call.op # "set"
  <2>1. /\ GiveUpOr(call.op = "toggle", IF Readable THEN outcome ELSE "crossed")
        /\ UNCHANGED seen
    BY <1>5 DEF ReadSetting
  <2>2. OnlyWhatWasAsked'
    BY <1>2, SameSettings DEF WriteInv, WritesAreHonest
  <2>3. call.op = "toggle" => call.op \in {"set", "toggle"}
    OBVIOUS
  <2>4. stage' = "look" => ~ignored' /\ (~touched => BeforeWriting')
    BY <1>1, <1>2, <2>1 DEF GiveUpOr, BeforeWriting, WriteInv
  <2>5. ignored' \in BOOLEAN /\ carried' \in BOOLEAN
    BY <1>2 DEF WriteInv, WriteTypes
  <2> QED
    BY <1>1, <1>2, <2>1, <2>2, <2>3, <2>4, <2>5, GivingUp
<1> QED
  BY <1>3, <1>4, <1>5

\* What a write does was asked for.
LEMMA DoneIsAsked ==
    ASSUME call \in Calls, Done(setting'), UNCHANGED <<call, feature>>
    PROVE  Asked'
<1>1. call.op \in Ops
  BY CallFields
<1>2. CASE call.op = "set"
  BY <1>2 DEF Done, Asked
<1>3. CASE call.op = "toggle"
  BY <1>3 DEF Done, Asked
<1>4. CASE call.op = "sensitivity"
  BY <1>4 DEF Done, Asked
<1>5. CASE call.op \in {"wheel", "invert", "resolution"}
  BY <1>5 DEF Done, Asked
<1>6. CASE call.op = "dpi"
  BY <1>6 DEF Done, Asked
<1>7. CASE call.op = "backlight"
  BY <1>7 DEF Done, Asked
<1>8. CASE call.op = "fnlock"
  BY <1>8 DEF Done, Asked
<1> QED
  BY <1>1, <1>2, <1>3, <1>4, <1>5, <1>6, <1>7, <1>8 DEF Ops

\* A write leaves settings, whatever was read.
LEMMA DesiredIsSetting ==
    ASSUME setting \in Settings, seen \in Settings, call \in Calls,
           call.op = "dpi" => feature \in {"0x2201", "0x2202"}
    PROVE  Desired \in Settings
<1>1. call.op \in Ops
  BY CallFields
<1> DEFINE or(wanted, kept) == IF wanted = Keep THEN kept ELSE wanted
           torque(t) == IF feature = "0x2110" \/ t = 0 \/ setting.torque = 0
                        THEN setting.torque ELSE t
           full(mode, sense, t) ==
               [setting EXCEPT !.mode = mode, !.sense = sense, !.torque = torque(t)]
<1>2. ASSUME NEW mode \in {"free", "ratchet"}, NEW sense \in Senses \cup {0},
             NEW t \in Senses \cup {0}
      PROVE  full(mode, sense, t) \in Settings
  <2>1. torque(t) \in Senses \cup {0}
    BY DEF Settings
  <2> HIDE DEF torque
  <2> QED
    BY <2>1 DEF Settings
<1>3. CASE call.op = "set"
  <2>1. Desired = full(call.mode, call.sense, call.torque)
    BY <1>3 DEF Desired
  <2> QED
    BY <1>2, <1>3, <2>1, CallFields
<1>4. CASE call.op = "toggle"
  <2>1. Desired = full(IF seen.mode = "free" THEN "ratchet" ELSE "free", seen.sense, seen.torque)
    BY <1>4 DEF Desired
  <2>2. seen.sense \in Senses \cup {0} /\ seen.torque \in Senses \cup {0}
    BY DEF Settings
  <2> HIDE DEF full
  <2>3. CASE seen.mode = "free"
    BY <1>2, <2>1, <2>2, <2>3
  <2>4. CASE seen.mode # "free"
    BY <1>2, <2>1, <2>2, <2>4
  <2> QED
    BY <2>3, <2>4
<1>5. CASE call.op = "sensitivity"
  <2>1. Desired = full(seen.mode, call.sense, seen.torque)
    BY <1>5 DEF Desired
  <2>2. seen.mode \in {"free", "ratchet"} /\ seen.torque \in Senses \cup {0}
    BY DEF Settings
  <2> QED
    BY <1>2, <1>5, <2>1, <2>2, CallFields
<1>6. CASE call.op \in {"wheel", "invert", "resolution"}
  <2>1. Desired = [setting EXCEPT !.resolution = or(call.resolution, seen.resolution),
                                  !.inverted = or(call.inverted, seen.inverted),
                                  !.diverted = StillDiverted]
    BY <1>6 DEF Desired
  <2>2. call.resolution \in {"low", "high", Keep} /\ call.inverted \in {"no", "yes", Keep}
    BY <1>6, CallFields
  <2>3. /\ or(call.resolution, seen.resolution) \in {"low", "high"}
        /\ or(call.inverted, seen.inverted) \in {"no", "yes"}
    BY <2>2 DEF Settings
  <2>4. StillDiverted \in BOOLEAN
    BY DEF StillDiverted
  <2> HIDE DEF or
  <2> QED
    BY <2>1, <2>3, <2>4 DEF Settings
<1>7. CASE call.op = "dpi" /\ feature = "0x2201"
  BY <1>7, CallFields DEF Desired, Settings
<1>8. CASE call.op = "dpi" /\ feature = "0x2202"
  <2>1. Desired = [setting EXCEPT !.dpi = call.dpi, !.lift = seen.lift,
                                  !.across = IF seen.across = 0 THEN 0 ELSE call.dpi]
    BY <1>8 DEF Desired
  <2> QED
    BY ZenonT(60), <1>8, <2>1, CallFields DEF Settings
<1>9. CASE call.op = "backlight"
  <2>1. Desired = [setting EXCEPT !.lit = call.lit, !.level = seen.level,
                     !.light = IF seen.light = "temporary" THEN "auto" ELSE seen.light]
    BY <1>9 DEF Desired
  <2> QED
    BY ZenonT(60), <1>9, <2>1, CallFields DEF Settings
<1>10. CASE call.op = "fnlock"
  BY <1>10, CallFields DEF Desired, Settings
<1> QED
  BY <1>1, <1>3, <1>4, <1>5, <1>6, <1>7, <1>8, <1>9, <1>10 DEF Ops

LEMMA WriteKeeps ==
    ASSUME WriteInv, NEW outcome \in WriteOutcomes, WriteSetting(outcome) PROVE WriteInv'
<1>1. /\ stage = "write" /\ setting \in Settings /\ seen \in Settings /\ call \in Calls
      /\ before \in Settings /\ feature # "none" /\ carried \in BOOLEAN
      /\ ~touched => (WritesBlind \/ SeenIsNow) /\ BeforeWriting
      /\ call.op = "dpi" => feature \in {"0x2201", "0x2202", "none", "wrong"}
      /\ tries = 2 => call.op \in {"set", "toggle"}
  BY DEF WriteSetting, WriteInv, WriteTypes
<1>2. UNCHANGED <<offers, invertible, call, seen, crossed, meddling, before, touched>>
  BY DEF WriteSetting
<1>3. /\ setting' = IF feature # "wrong" /\ Applied(outcome) THEN Desired ELSE setting
      /\ ignored' = (feature # "wrong" /\ outcome = "ignored")
      /\ carried' = (carried \/ (feature # "wrong" /\ outcome = "crossed"))
  BY DEF WriteSetting
<1>4. setting' \in Settings
  BY <1>1, <1>3, DesiredIsSetting
<1>5. ~touched => (feature # "wrong" /\ Applied(outcome) => Honest(setting') /\ Done(setting'))
  BY <1>1, <1>3, DesiredIsHonest
<1>6. OnlyWhatWasAsked'
  <2>1. CASE touched
    BY <1>2, <2>1 DEF OnlyWhatWasAsked
  <2>2. CASE ~touched /\ feature # "wrong" /\ Applied(outcome)
    BY <1>2, <1>5, <2>2, HonestWrite
  <2>3. CASE ~(feature # "wrong" /\ Applied(outcome))
    BY <1>2, <1>3, <2>3, SameSettings DEF WriteInv, WritesAreHonest
  <2> QED
    BY <2>1, <2>2, <2>3
<1>7. CASE feature # "wrong" /\ outcome \in {"answered", "ignored"}
  <2>1. /\ stage' \in {"ok", "check", "failed"} /\ UNCHANGED <<tries, choices, feature>>
        /\ stage' = "ok" => call.op \in {"set", "toggle", "fnlock"}
        /\ stage' = "check" => call.op \notin {"set", "toggle", "fnlock"}
    BY <1>7 DEF WriteSetting
  <2>2. /\ ignored' = (outcome = "ignored") /\ carried' = carried
        /\ outcome = "ignored" => setting' = setting
    <3>1. ignored' = (outcome = "ignored") /\ carried' = carried
      BY <1>1, <1>3, <1>7
    <3>2. outcome = "ignored" => setting' = setting
      BY <1>3 DEF Applied
    <3> QED
      BY <3>1, <3>2
  <2>3. ~touched => Asked' \/ Unmoved'
    <3>1. CASE outcome = "answered"
      BY <1>1, <1>2, <1>5, <1>7, <2>1, <3>1, DoneIsAsked DEF Applied
    <3>2. CASE outcome = "ignored"
      BY <1>1, <1>2, <2>2, <3>2 DEF Unmoved, BeforeWriting
    <3> QED
      BY <1>7, <3>1, <3>2
  <2>4. ~touched /\ call.op = "toggle" => Toggled'
    <3> SUFFICES ASSUME ~touched, call.op = "toggle" PROVE Toggled'
      OBVIOUS
    <3>1. seen.mode = setting.mode
      BY <1>1 DEF WritesBlind, SeenIsNow, Read, Settings
    <3>2. {setting.mode, setting'.mode, before.mode} \subseteq {"free", "ratchet"}
      BY <1>1, <1>4 DEF Settings
    <3>3. (setting.mode # before.mode) <=> carried
      BY <1>1 DEF BeforeWriting
    <3>4. (setting'.mode # setting.mode) <=> ~ignored'
      <4>1. CASE outcome = "answered"
        BY <1>5, <1>7, <2>2, <4>1 DEF Applied, Done
      <4>2. CASE outcome = "ignored"
        BY <2>2, <4>2
      <4> QED
        BY <1>7, <4>1, <4>2
    <3>5. seen' = seen /\ before' = before /\ (carried' <=> carried)
      BY <1>2, <2>2
    <3> QED
      BY <3>1, <3>2, <3>3, <3>4, <3>5 DEF Toggled
  <2>5. WriteTypes'
    <3>1. /\ WriteTypes
          /\ UNCHANGED <<offers, invertible, before, call, feature, tries, crossed,
                         meddling, touched>>
      BY <1>2, <2>1 DEF WriteInv
    <3>2. ignored' \in BOOLEAN /\ carried' \in BOOLEAN
      BY <2>2, <3>1 DEF WriteTypes
    <3> QED
      BY <1>1, <1>4, <2>1, <3>1, <3>2 DEF WriteTypes
  <2>6. WritesAreHonest'
    BY <1>2, <1>6, <2>1, <2>3, <2>4 DEF WritesAreHonest, ReplyIsTrue
  <2>7. (~touched => /\ stage = "write" => WritesBlind \/ SeenIsNow
                     /\ stage \in {"idle", "look", "caps", "read", "write"} => BeforeWriting
                     /\ stage = "check" => Asked \/ Unmoved)'
    BY <1>2, <2>1, <2>3
  <2>8. /\ seen' \in Settings /\ choices' \in Seq(Features) /\ call' \in Calls
        /\ call'.op = "dpi" => /\ choices' \in Seq({"0x2201", "0x2202"})
                              /\ feature' \in {"0x2201", "0x2202", "none", "wrong"}
        /\ feature' # "none" /\ (tries' = 2 => call'.op \in {"set", "toggle"})
        /\ stage' = "check" => call'.op # "toggle" /\ feature' # "wrong"
    BY <1>1, <1>2, <1>7, <2>1 DEF WriteInv
  <2> QED
    BY <2>1, <2>5, <2>6, <2>7, <2>8 DEF WriteInv
<1>8. CASE ~(feature # "wrong" /\ outcome \in {"answered", "ignored"})
  <2>1. GiveUpOr(call.op \in {"set", "toggle"}, outcome) /\ ~ignored'
    BY <1>3, <1>8 DEF WriteSetting
  <2>2. ASSUME stage' = "look", ~touched PROVE BeforeWriting'
    <3>1. tries = 1 /\ tries' = 2 /\ outcome \in {"busy", "crossed"}
      BY <2>1, <2>2 DEF GiveUpOr, Transient
    <3>2. ~carried /\ setting = before
      BY <1>1, <2>2, <3>1 DEF BeforeWriting
    <3>3. CASE feature # "wrong" /\ outcome = "crossed"
      <4>1. carried' /\ Done(setting')
        BY <1>3, <1>5, <2>2, <3>3 DEF Applied
      <4> QED
        BY <1>2, <3>1, <3>2, <4>1 DEF BeforeWriting, Done
    <3>4. CASE ~(feature # "wrong" /\ outcome = "crossed")
      BY <1>2, <1>3, <3>1, <3>2, <3>4 DEF BeforeWriting, Applied
    <3> QED
      BY <3>3, <3>4
  <2>3. ignored' \in BOOLEAN /\ carried' \in BOOLEAN
    BY <1>3
  <2> QED
    BY <1>1, <1>2, <1>4, <1>6, <2>1, <2>2, <2>3, GivingUp
<1> QED
  BY <1>7, <1>8

\* A wheel whose read-back agrees has what was asked for.
LEMMA WheelIsAsked ==
    ASSUME call \in Calls, call.op \in WheelOps, setting \in Settings, setting = Desired
    PROVE  Asked
<1>1. /\ setting.resolution = IF call.resolution = Keep THEN seen.resolution ELSE call.resolution
      /\ setting.inverted = IF call.inverted = Keep THEN seen.inverted ELSE call.inverted
      /\ setting.diverted = StillDiverted
  <2>1. Desired = [setting EXCEPT
           !.resolution = IF call.resolution = Keep THEN seen.resolution ELSE call.resolution,
           !.inverted = IF call.inverted = Keep THEN seen.inverted ELSE call.inverted,
           !.diverted = StillDiverted]
    BY DEF Desired
  <2> QED
    BY <2>1 DEF Settings
<1> QED
  BY <1>1 DEF Asked, StillDiverted, Keep

LEMMA CheckKeeps ==
    ASSUME WriteInv, NEW outcome \in Outcomes, CheckSetting(outcome) PROVE WriteInv'
<1>1. /\ stage = "check" /\ stage' \in {"ok", "failed"}
      /\ UNCHANGED <<offers, invertible, setting, call, choices, feature, tries,
                     crossed, meddling, before, touched, ignored, carried>>
  BY DEF CheckSetting
<1>2. /\ setting \in Settings /\ call \in Calls /\ call.op # "toggle"
      /\ crossed' \in 0..MaxCrossed
      /\ call.op = "dpi" => feature' \in {"0x2201", "0x2202", "none", "wrong"}
      /\ ~touched => Asked \/ Unmoved
  BY <1>1 DEF WriteInv, WriteTypes
<1>3. seen' = (IF Reads(outcome) THEN Read ELSE seen) /\ seen' \in Settings
  <2>1. seen' = IF Reads(outcome) THEN Read ELSE seen
    BY DEF CheckSetting
  <2>2. Read \in Settings /\ seen \in Settings
    BY <1>2 DEF Read, Settings, WriteInv
  <2> QED
    BY <2>1, <2>2
<1>4. ASSUME stage' = "ok", call.op # "dpi" PROVE SeenIsNow'
  BY <1>1, <1>3, <1>4 DEF CheckSetting, SeenIsNow, Read
<1>5. ASSUME stage' = "ok", call.op \in WheelOps PROVE Asked'
  <2>1. setting = Desired
    BY <1>5 DEF CheckSetting
  <2>2. Asked
    BY <1>2, <1>5, <2>1, WheelIsAsked
  <2> QED
    BY <1>1, <2>2 DEF Asked
<1>6. ~touched => Asked' \/ Unmoved'
  BY <1>1, <1>2 DEF Asked, Unmoved
<1>7. ReplyIsTrue'
  BY <1>1, <1>2, <1>4, <1>5, <1>6 DEF ReplyIsTrue
<1> QED
  BY <1>1, <1>2, <1>3, <1>7, GoingOn

LEMMA MeddleKeeps == ASSUME WriteInv, Meddle PROVE WriteInv'
<1>1. /\ stage \in {"look", "caps", "read", "write", "check"}
      /\ meddling < MaxMeddling /\ meddling' = meddling + 1 /\ touched' = TRUE
      /\ UNCHANGED <<offers, invertible, call, stage, choices, feature, seen, tries,
                     crossed, before, ignored, carried>>
  BY DEF Meddle
<1>2. setting' \in Settings
  <2>1. setting \in Settings
    BY DEF WriteInv, WriteTypes
  <2>2. CASE setting' = [setting EXCEPT !.mode = IF @ = "free" THEN "ratchet" ELSE "free"]
    BY <2>1, <2>2 DEF Settings
  <2>3. CASE setting' = [setting EXCEPT !.diverted = ~@]
    BY <2>1, <2>3 DEF Settings
  <2>4. CASE setting' = [setting EXCEPT !.light = "temporary"]
    BY <2>1, <2>4 DEF Settings
  <2>5. CASE \E s \in Senses : setting' = [setting EXCEPT !.level = s]
    BY <2>1, <2>5 DEF Settings
  <2> QED
    BY <2>2, <2>3, <2>4, <2>5 DEF Meddle
<1>3. WriteTypes'
  BY <1>1, <1>2, WriteBounds DEF WriteInv, WriteTypes
<1>4. WritesAreHonest'
  BY <1>1 DEF WritesAreHonest, ReplyIsTrue, OnlyWhatWasAsked
<1> QED
  BY <1>1, <1>3, <1>4 DEF WriteInv

(* The invariant of a call holds at every moment of it.                    *)
THEOREM WriteInvHolds == WriteSpec => []WriteInv
<1>1. WriteInit => WriteInv
  <2> SUFFICES ASSUME WriteInit PROVE WriteInv
    OBVIOUS
  <2>1. /\ call = [op |-> "none"] /\ stage = "idle" /\ choices = << >> /\ feature = "none"
        /\ tries = 1 /\ seen = setting /\ before = setting /\ touched = FALSE
        /\ ignored = FALSE /\ carried = FALSE /\ setting \in Settings
    BY DEF WriteInit
  <2>2. WriteTypes
    <3>1. offers \subseteq Features /\ invertible \in BOOLEAN /\ crossed = 0 /\ meddling = 0
      BY DEF WriteInit
    <3>2. 0 \in 0..MaxCrossed /\ 0 \in 0..MaxMeddling /\ 1 \in 1..2
      BY WriteBounds
    <3> QED
      BY <2>1, <3>1, <3>2 DEF WriteTypes
  <2>3. WritesAreHonest
    BY <2>1 DEF WritesAreHonest, ReplyIsTrue, OnlyWhatWasAsked
  <2> QED
    BY <2>1, <2>2, <2>3 DEF WriteInv, BeforeWriting
<1>2. WriteInv /\ [WriteNext]_writeVars => WriteInv'
  <2> SUFFICES ASSUME WriteInv, [WriteNext]_writeVars PROVE WriteInv'
    OBVIOUS
  <2>1. CASE \E c \in Calls : StartWrite(c)
    BY <2>1, StartKeeps
  <2>2. ASSUME NEW outcome \in Outcomes,
               \/ LookUp(outcome) \/ CheckCapabilities(outcome)
               \/ ReadSetting(outcome) \/ CheckSetting(outcome)
        PROVE  WriteInv'
    BY <2>2, LookUpKeeps, CapsKeeps, ReadKeeps, CheckKeeps
  <2>5. CASE \E outcome \in WriteOutcomes : WriteSetting(outcome)
    BY <2>5, WriteKeeps
  <2>3. CASE Meddle
    BY <2>3, MeddleKeeps
  <2>4. CASE UNCHANGED writeVars
    BY <2>4 DEF writeVars, WriteInv, WriteTypes, SeenIsNow, Read, WritesBlind, Asked,
                Unmoved, Toggled, BeforeWriting, WritesAreHonest, ReplyIsTrue,
                OnlyWhatWasAsked
  <2> QED
    BY <2>1, <2>2, <2>3, <2>4, <2>5 DEF WriteNext
<1> QED
  BY <1>1, <1>2, PTL DEF WriteSpec

(* For every value, feature set, refusal, lost and crossed answer, and for   *)
(* devices that acknowledge a write they do not carry out: a wheel call that *)
(* returned Ok, and a status returned, are the device's; any other call that *)
(* returned Ok has done what was asked or left an ignoring device as it was; *)
(* a toggle has flipped the mode once, but for a first attempt of which only *)
(* the answer was lost; and no call, at any moment, has changed what it was  *)
(* not asked to change (write/smartshift.rs, hires_wheel.rs, dpi.rs,         *)
(* backlight.rs, fn_lock.rs).                                                *)
THEOREM WritesTellTheTruth == WriteSpec => []WritesAreHonest
<1>1. WriteInv => WritesAreHonest
  BY DEF WriteInv
<1> QED
  BY <1>1, WriteInvHolds, PTL
=============================================================================
