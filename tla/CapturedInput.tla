---------------------------- MODULE CapturedInput ----------------------------
(***************************************************************************)
(* What a capture session makes of the events of diverted controls: the    *)
(* listener of crates/openlogi-device/src/session/gesture.rs (and its      *)
(* subset in keyboard.rs), the swipe accumulator of                        *)
(* crates/openlogi-core/src/binding/swipe.rs, and the thumb wheel.         *)
(*                                                                         *)
(* The device reports snapshots of the diverted controls that are down,    *)
(* raw motion while a gesture source is down, and the wheel's rolls.  The  *)
(* read thread handles them in order; the session's monitor resets the     *)
(* accumulated state when the device says it has reconnected, at a moment  *)
(* of its own.  At most four controls are down (CaptureFits).              *)
(*                                                                         *)
(* Assumed of the haptic panel: its contact jump is the first motion it    *)
(* reports, right after the snapshot that shows the contact.               *)
(***************************************************************************)
EXTENDS Integers, Sequences, FiniteSets

CONSTANTS Sources,      \* gesture sources, in the order of the armed lists
          Panel,        \* the one that is the haptic panel
          DpiControls,  \* all of them dispatch as one button
          Plain,        \* controls diverted as plain buttons
          Dpi, Nobody,
          Threshold, Deadzone, Bound,   \* of a swipe; Bound is i32::MAX
          MaxEvents,    \* bound: events on their way
          MaxNaps       \* bound: reconnections

SourceSet == {Sources[i] : i \in DOMAIN Sources}
Held == SourceSet \cup DpiControls \cup Plain
Buttons == SourceSet \cup Plain \cup {Dpi}

ASSUME CaptureFits == /\ Cardinality(Held) <= 4 /\ Dpi \notin Held
                      /\ Nobody \notin Held
ASSUME SourcesAreDistinct ==
    /\ Sources \in Seq(SourceSet)
    /\ \A i, j \in DOMAIN Sources : Sources[i] = Sources[j] => i = j
\* arm_controls_into passes a gesture source over when it diverts plain
\* buttons, and no list has a DPI control.
ASSUME DispatchIsUnique ==
    SourceSet \cap DpiControls = {} /\ Plain \cap (SourceSet \cup DpiControls) = {}
ASSUME SwipesAreNumbers ==
    Bound \in Nat /\ Threshold \in Int /\ MaxEvents \in Nat /\ MaxNaps \in Nat

VARIABLES
    fingers,    \* controls the user holds down
    diverting,  \* whether the firmware reports them as diverted
    rolling,    \* whether the user is turning the wheel
    events,     \* on their way to the read thread
    hold,       \* HoldState
    gesturesDown, dpiDown, buttonsDown,     \* the rest of CaptureAccum
    told,       \* reconnections in the monitor's channel
    settling,   \* whether the monitor is in rearm
    naps,
    wheel,      \* what the wheel's polarity is, and whether arming read it
    edge,       \* ghost: last edge of each button the consumer was sent
    forgiven,   \* ghost: buttons whose state a reset dropped while down
    given,      \* ghost: gestures of each source since its last down edge
    alone,      \* ghost: sources with no other one down since
    wheelSaid   \* ghost: the wheel's last input, and what the user did

inputVars == <<fingers, diverting, rolling, events, hold, gesturesDown, dpiDown,
               buttonsDown, told, settling, naps, wheel, edge, forgiven, given,
               alone, wheelSaid>>
accum == <<hold, gesturesDown, dpiDown, buttonsDown>>
monitor == <<told, settling>>
sent == <<edge, forgiven, given, alone>>

Directions == {"up", "down", "left", "right"}
ButtonOf(c) == IF c \in DpiControls THEN Dpi ELSE c
ControlsOf(b) == {c \in Held : ButtonOf(c) = b}

Holds == [cid : SourceSet, dx : Int, dy : Int, fired : BOOLEAN, long : BOOLEAN,
          overlap : BOOLEAN, skip : BOOLEAN, mixed : BOOLEAN]
ASSUME NobodyHolds == Nobody \notin Holds

WheelReports == [kind : {"wheel"}, status : {"start", "active", "stop", "inactive"},
                 tap : BOOLEAN, turn : {"none", "forward", "back"}]
Reports == [kind : {"buttons"}, down : SUBSET Held]
             \cup [kind : {"motion"}, dx : Int, dy : Int, by : SUBSET SourceSet]
             \cup [kind : {"back"}]
             \cup {e \in WheelReports : e.turn = "none" /\ e.status = "inactive" => e.tap}

InputTypes ==
    /\ fingers \subseteq Held /\ diverting \in BOOLEAN /\ events \in Seq(Reports)
    /\ hold \in Holds \cup {Nobody}
    /\ gesturesDown \subseteq SourceSet /\ dpiDown \in BOOLEAN /\ buttonsDown \subseteq Plain
    /\ told \in Nat
    /\ wheel \in [forward : BOOLEAN, known : BOOLEAN]
    /\ edge \in [Buttons -> {"up", "down"}] /\ forgiven \subseteq Buttons
    /\ given \in [SourceSet -> 0..3] /\ alone \subseteq SourceSet

InputInit ==
    /\ fingers = {} /\ diverting = TRUE /\ rolling = FALSE /\ events = <<>>
    /\ hold = Nobody /\ gesturesDown = {} /\ dpiDown = FALSE /\ buttonsDown = {}
    /\ told = 0 /\ settling = FALSE /\ naps = 0
    /\ wheel \in [forward : BOOLEAN, known : BOOLEAN]
    /\ edge = [b \in Buttons |-> "up"] /\ forgiven = {}
    /\ given = [s \in SourceSet |-> 1] /\ alone = SourceSet
    /\ wheelSaid = [input |-> "none", did |-> "none"]
-----------------------------------------------------------------------------
(***************************************************************************)
(* Swipes (detect_swipe, SwipeAccumulator).                                *)
(***************************************************************************)
SatAbs(n) == IF n = -Bound - 1 THEN Bound ELSE IF n < 0 THEN -n ELSE n
SatAdd(a, b) == IF a + b > Bound THEN Bound
                ELSE IF a + b < -Bound - 1 THEN -Bound - 1 ELSE a + b
Larger(a, b) == IF a > b THEN a ELSE b
SatTimes35(n) == IF n * 35 > Bound THEN Bound ELSE n * 35

DetectSwipe(dx, dy) ==
    LET x == SatAbs(dx)
        y == SatAbs(dy)
        cross == Larger(Deadzone, SatTimes35(Larger(x, y)) \div 100)
    IN  CASE Larger(x, y) < Threshold -> Nobody
          [] x > y -> IF y > cross THEN Nobody ELSE IF dx > 0 THEN "right" ELSE "left"
          [] OTHER -> IF x > cross THEN Nobody ELSE IF dy > 0 THEN "down" ELSE "up"

\* begin_hold; mixed is a ghost: motion counted that was not c's alone.
BeginHold(c, overlap, fresh) ==
    [cid |-> c, dx |-> 0, dy |-> 0, fired |-> FALSE, long |-> FALSE,
     overlap |-> overlap, skip |-> c = Panel /\ fresh, mixed |-> FALSE]
-----------------------------------------------------------------------------
(***************************************************************************)
(* The device and its user.                                                *)
(***************************************************************************)
Snapshot(down) == [kind |-> "buttons", down |-> down]
Motion(dx, dy, jump) ==
    [kind |-> "motion", dx |-> dx, dy |-> dy,
     by |-> IF jump THEN {} ELSE fingers \cap SourceSet]

Sends(new) == /\ Len(events) < MaxEvents
              /\ events' = IF diverting THEN events \o new ELSE events

Press(c) ==
    /\ c \notin fingers
    /\ fingers' = fingers \cup {c}
    /\ Sends(IF c = Panel /\ c \in SourceSet
             THEN <<Snapshot(fingers'), Motion(Threshold, 0, TRUE)>>
             ELSE <<Snapshot(fingers')>>)
    /\ UNCHANGED <<diverting, rolling, accum, monitor, naps, wheel, sent, wheelSaid>>

Lift(c) ==
    /\ c \in fingers
    /\ fingers' = fingers \ {c}
    /\ Sends(<<Snapshot(fingers')>>)
    /\ UNCHANGED <<diverting, rolling, accum, monitor, naps, wheel, sent, wheelSaid>>

Move(dx, dy) ==
    /\ fingers \cap SourceSet # {}
    /\ Sends(<<Motion(dx, dy, FALSE)>>)
    /\ UNCHANGED <<fingers, diverting, rolling, accum, monitor, naps, wheel, sent,
                   wheelSaid>>

\* The clock: the hold has lasted GESTURE_HOLD_FOR_SWIPE.
HeldLong ==
    /\ hold # Nobody /\ ~hold.long
    /\ hold' = [hold EXCEPT !.long = TRUE]
    /\ UNCHANGED <<fingers, diverting, rolling, events, gesturesDown, dpiDown,
                   buttonsDown, monitor, naps, wheel, sent, wheelSaid>>

\* The device has been away, during which controls were lifted unseen; it says
\* so when it is back.  Its diversions are gone if it has lost power.
Reconnect(after, power) ==
    /\ naps < MaxNaps
    /\ naps' = naps + 1
    /\ Len(events) < MaxEvents
    /\ events' = Append(events, [kind |-> "back"])
    /\ diverting' = (diverting /\ power)
    /\ power => after = fingers
    /\ fingers' = after
    /\ rolling' = FALSE
    /\ UNCHANGED <<accum, monitor, wheel, sent, wheelSaid>>

\* One report of the thumb wheel; a roll is Start, Active and Stop, and any
\* report of it may carry the tap bit of the finger that rolls.
Roll(forward, status, tap) ==
    /\ status \in IF rolling THEN {"active", "stop"} ELSE {"start"}
    /\ rolling' = (status # "stop")
    /\ Sends(<<[kind |-> "wheel", status |-> status, tap |-> tap,
                turn |-> IF status = "stop" THEN "none"
                         ELSE IF forward THEN "forward" ELSE "back"]>>)
    /\ UNCHANGED <<fingers, diverting, accum, monitor, naps, wheel, sent, wheelSaid>>

Tap ==
    /\ ~rolling
    /\ Sends(<<[kind |-> "wheel", status |-> "inactive", tap |-> TRUE,
                turn |-> "none"]>>)
    /\ UNCHANGED <<fingers, diverting, rolling, accum, monitor, naps, wheel, sent,
                   wheelSaid>>
-----------------------------------------------------------------------------
(***************************************************************************)
(* The listener (handle_reprog_with_gesture_buttons and what it calls).    *)
(***************************************************************************)
FirstOf(S) == Sources[CHOOSE i \in DOMAIN Sources :
                        /\ Sources[i] \in S
                        /\ \A j \in 1..(i - 1) : Sources[j] \notin S]

Keeps(down) == hold # Nobody /\ hold.cid \in down

\* Mutant: every event of a held source begins its hold anew.
HoldAlways(down) ==
    LET held == down \cap SourceSet
    IN  IF held = {} THEN Nobody
        ELSE BeginHold(FirstOf(held), Cardinality(held) > 1,
                       FirstOf(held) \notin gesturesDown)

HoldAfter(down) ==
    LET held == down \cap SourceSet
    IN  IF Keeps(down) THEN [hold EXCEPT !.overlap = Cardinality(held) > 1]
        ELSE IF held = {} THEN Nobody
        ELSE BeginHold(FirstOf(held), Cardinality(held) > 1,
                       FirstOf(held) \notin gesturesDown)

Clicks(down) == hold # Nobody /\ ~Keeps(down) /\ ~hold.fired

\* emit_button_edges and its like: the edges between what was down and is.
Before == gesturesDown \cup buttonsDown \cup IF dpiDown THEN {Dpi} ELSE {}
Rises(down) == {ButtonOf(c) : c \in down} \ Before
Falls(down) == Before \ {ButtonOf(c) : c \in down}

TakeSnapshot ==
    /\ events # <<>> /\ Head(events).kind = "buttons"
    /\ LET down == Head(events).down
           was == hold
       IN  /\ hold' = HoldAfter(down)
           /\ gesturesDown' = down \cap SourceSet
           /\ dpiDown' = (down \cap DpiControls # {})
           /\ buttonsDown' = down \cap Plain
           /\ edge' = [b \in Buttons |-> IF b \in Rises(down) THEN "down"
                                         ELSE IF b \in Falls(down) THEN "up" ELSE edge[b]]
           /\ given' = [s \in SourceSet |->
                           IF s \in Rises(down) THEN 0
                           ELSE IF Clicks(down) /\ was.cid = s /\ given[s] < 3
                                THEN given[s] + 1 ELSE given[s]]
           /\ alone' = {s \in SourceSet :
                           /\ s \in alone \/ s \in Rises(down)
                           /\ s \in down => down \cap SourceSet = {s}}
           /\ forgiven' = forgiven \ Rises(down)
    /\ events' = Tail(events)
    /\ UNCHANGED <<fingers, diverting, rolling, monitor, naps, wheel, wheelSaid>>

\* handle_raw_xy and SwipeAccumulator::accumulate
Accumulated(e) ==
    LET x == SatAdd(hold.dx, e.dx)
        y == SatAdd(hold.dy, e.dy)
    IN  [hold EXCEPT !.dx = x, !.dy = y,
                     !.fired = hold.long /\ DetectSwipe(x, y) # Nobody,
                     !.mixed = hold.mixed \/ e.by # {hold.cid}]

TakeMotion ==
    /\ events # <<>> /\ Head(events).kind = "motion"
    /\ events' = Tail(events)
    /\ hold' = IF hold = Nobody \/ hold.overlap THEN hold
               ELSE IF hold.skip THEN [hold EXCEPT !.skip = FALSE]
               ELSE IF hold.fired THEN hold
               ELSE Accumulated(Head(events))
    /\ given' = IF hold # Nobody /\ hold'.fired /\ ~hold.fired /\ given[hold.cid] < 3
                THEN [given EXCEPT ![hold.cid] = @ + 1] ELSE given
    /\ UNCHANGED <<fingers, diverting, rolling, gesturesDown, dpiDown,
                   buttonsDown, monitor, naps, wheel, edge, forgiven, alone,
                   wheelSaid>>

\* ArmedThumbwheel::direction: arming inverts a wheel whose positive is back.
Inverted == wheel.known /\ ~wheel.forward
Positive(turn) == ((turn = "forward") <=> wheel.forward) # Inverted

\* thumbwheel_input, RotationStatus::is_rolling
WheelInput(e) ==
    IF e.turn # "none" THEN IF Positive(e.turn) THEN "up" ELSE "down"
    ELSE IF e.status # "inactive" THEN "none"
    ELSE IF e.tap THEN "pulse" ELSE "none"

TakeWheel ==
    /\ events # <<>> /\ Head(events).kind = "wheel"
    /\ events' = Tail(events)
    /\ LET e == Head(events)
       IN  wheelSaid' = [input |-> WheelInput(e),
                         did |-> IF e.turn # "none" THEN e.turn
                                 ELSE IF e.status = "inactive" THEN "tap" ELSE "release"]
    /\ UNCHANGED <<fingers, diverting, rolling, accum, monitor, naps, wheel, sent>>
-----------------------------------------------------------------------------
(***************************************************************************)
(* The monitor, on a reconnection.                                         *)
(***************************************************************************)
\* The emitter's listener passes the broadcast on, after what came before it,
\* and does not wait for the monitor.
TakeBroadcast ==
    /\ events # <<>> /\ Head(events).kind = "back"
    /\ events' = Tail(events)
    /\ told' = told + 1
    /\ UNCHANGED <<fingers, diverting, rolling, accum, settling, naps, wheel, sent,
                   wheelSaid>>

ResetAccum ==
    /\ ~settling /\ told > 0
    /\ told' = told - 1 /\ settling' = TRUE
    /\ hold' = Nobody /\ gesturesDown' = {} /\ dpiDown' = FALSE /\ buttonsDown' = {}
    /\ forgiven' = forgiven \cup {b \in Buttons : edge[b] = "down"}
    /\ UNCHANGED <<fingers, diverting, rolling, events, naps, wheel, edge, given,
                   alone, wheelSaid>>

\* ArmedControls::rearm: nothing more is tried if device I/O is not allowed or
\* the device does not take it.  A control that is down is reported when it is
\* diverted.
RearmControls(taken) ==
    /\ settling /\ settling' = FALSE
    /\ diverting' = (diverting \/ taken)
    /\ events' = IF diverting' = diverting \/ fingers = {} THEN events
                 ELSE Append(events, Snapshot(fingers))
    /\ UNCHANGED <<fingers, rolling, accum, told, naps, wheel, sent, wheelSaid>>

InputNext ==
    \/ \E c \in Held : Press(c) \/ Lift(c)
    \/ \E d \in {<<1, 0>>, <<0, -1>>} : Move(d[1], d[2])
    \/ HeldLong
    \/ \E S \in SUBSET fingers : Reconnect(S, FALSE) \/ Reconnect(S, TRUE)
    \/ \E f, tap \in BOOLEAN, s \in {"start", "active", "stop"} : Roll(f, s, tap)
    \/ Tap
    \/ TakeSnapshot \/ TakeMotion \/ TakeWheel
    \/ TakeBroadcast \/ ResetAccum \/ RearmControls(TRUE) \/ RearmControls(FALSE)

InputSpec == InputInit /\ [][InputNext]_inputVars
-----------------------------------------------------------------------------
\* Once everything has been handled, a button that was last sent down is
\* held, and while the controls are diverted one that is held was last sent
\* down; unless the reset at a reconnection dropped it (emit_button_edges and
\* the edge loops of the gesture listener).
EdgesFollowFingers ==
    events = <<>> /\ told = 0 =>
        \A b \in Buttons \ forgiven :
            /\ edge[b] = "down" => ControlsOf(b) \cap fingers # {}
            /\ diverting /\ ControlsOf(b) \cap fingers # {} => edge[b] = "down"

\* A press of a gesture source is at most one gesture, exactly one if no
\* other source was down meanwhile, and the motion counted for it is its own:
\* not another's and not the panel's contact jump, but for a second contact
\* with the panel after a reconnection the monitor has still to hear of
\* (HoldState).
GesturesMatchPresses ==
    /\ \A s \in SourceSet \ forgiven :
           /\ given[s] <= 1
           /\ edge[s] = "up" /\ s \in alone => given[s] = 1
    /\ hold # Nobody /\ hold.mixed => hold.cid = Panel /\ told > 0

\* Presses reach the consumer as they are made (the gesture listener).
PressesAreUnderstood == EdgesFollowFingers /\ GesturesMatchPresses

\* The wheel's scroll has the sign of the physical turn if arming could read
\* the wheel's polarity, a tap is sent for a tap only, and for every one
\* (thumbwheel_input).
WheelIsUnderstood ==
    LET i == wheelSaid.input
        d == wheelSaid.did
    IN  /\ i = "pulse" <=> d = "tap"
        /\ wheel.known => (i = "up" <=> d = "forward") /\ (i = "down" <=> d = "back")

\* What the hand does on the diverted controls and on the wheel is what the
\* consumer is told.
InputIsUnderstood == PressesAreUnderstood /\ WheelIsUnderstood
-----------------------------------------------------------------------------
(***************************************************************************)
(* The inductive invariant the proofs use (TLC checks it too).             *)
(***************************************************************************)
ButtonsOf(down) == {ButtonOf(c) : c \in down}
\* What the consumer was sent is what the listener keeps, or was dropped.
EdgesAreKept ==
    /\ Before \cap forgiven = {}
    /\ \A b \in Buttons : edge[b] = "down" <=> b \in Before \cup forgiven

Queued == 1..Len(events)
Shows(i) == events[i].kind = "buttons"
Wakes(i) == events[i].kind = "back"
NoneShows(i) == \A j \in Queued : j < i => ~Shows(j)   \* before place i

\* A snapshot with neither another nor a reconnection behind it is as things
\* are, and while the controls are not diverted there is none.
SnapshotsAreLast ==
    \A i \in Queued : Shows(i) =>
        /\ \/ \E j \in Queued : j > i /\ (Shows(j) \/ Wakes(j))
           \/ events[i].down = fingers
        /\ diverting \/ \E j \in Queued : j > i /\ Wakes(j)

\* What is held is on its way or has been told.
HeldAreReported ==
    diverting /\ fingers # {} =>
        /\ \A i \in Queued : Shows(i) =>
               (\E j \in Queued : j > i /\ Shows(j)) \/ events[i].down = fingers
        /\ (\A i \in Queued : ~Shows(i)) =>
               /\ \A b \in ButtonsOf(fingers) : edge[b] = "down"
               /\ gesturesDown \in {{}, fingers \cap SourceSet}

\* With no snapshot and no reset to come, nothing is kept that is not held.
NothingLingers ==
    told = 0 /\ (\A i \in Queued : ~Wakes(i)) =>
        /\ (\A i \in Queued : ~Shows(i)) => Before \subseteq ButtonsOf(fingers)
        /\ ~diverting => Before = {}

\* Motion comes after the snapshot with the sources that were down for it.
OfThose(i) ==
    /\ \A j \in Queued : j < i /\ Shows(j) =>
           \/ \E k \in Queued : j < k /\ k < i /\ Shows(k)
           \/ events[j].down \cap SourceSet = events[i].by
    /\ NoneShows(i) => gesturesDown \in {{}, events[i].by}
MotionIsTheirs ==
    \A i \in Queued : events[i].kind = "motion" /\ events[i].by # {} => OfThose(i)

\* The panel's jump comes right after the snapshot that shows the contact, and
\* the snapshot before that one did not; a hold is ready for it, or is to be
\* reset.
Announced(i) ==
    IF i = 1
    THEN hold # Nobody /\ ~hold.overlap /\ ~hold.skip => hold.cid = Panel /\ told > 0
    ELSE /\ Shows(i - 1) /\ Panel \in events[i - 1].down \cap SourceSet
         /\ \A j \in Queued : j < i - 1 /\ Shows(j) =>
                \/ \E k \in Queued : j < k /\ k < i - 1 /\ (Shows(k) \/ Wakes(k))
                \/ Panel \notin events[j].down
         /\ (\A j \in Queued : j < i - 1 => ~Shows(j) /\ ~Wakes(j)) =>
                Panel \notin gesturesDown \/ told > 0
JumpsAreExpected ==
    \A i \in Queued : events[i].kind = "motion" /\ events[i].by = {} => Announced(i)

\* A hold is of a source that is down, and of the only one but for an overlap.
HoldIsOfSource ==
    /\ hold = Nobody <=> gesturesDown = {}
    /\ hold # Nobody => hold.cid \in gesturesDown
    /\ hold # Nobody /\ ~hold.overlap => gesturesDown = {hold.cid}

\* A source that is down has been given a gesture if its hold has fired.
GesturesAreCounted ==
    /\ \A s \in gesturesDown :
           /\ given[s] = IF hold.cid = s /\ hold.fired THEN 1 ELSE 0
           /\ s \in alone => gesturesDown = {s}
    /\ \A s \in SourceSet \ (gesturesDown \cup forgiven) :
           given[s] <= 1 /\ (s \in alone => given[s] = 1)
    /\ hold # Nobody /\ hold.mixed => hold.cid = Panel /\ told > 0

InputInv ==
    /\ InputTypes /\ EdgesAreKept /\ SnapshotsAreLast /\ HeldAreReported
    /\ NothingLingers /\ MotionIsTheirs /\ JumpsAreExpected
    /\ HoldIsOfSource /\ GesturesAreCounted /\ WheelIsUnderstood
=============================================================================
