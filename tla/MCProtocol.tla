------------------------------ MODULE MCProtocol ------------------------------
(***************************************************************************)
(* The HID++ layers that share no state with one another, checked side by  *)
(* side: a behaviour is of one part, and the others rest where they start. *)
(***************************************************************************)
EXTENDS ReceiverUsers, SwIdLeases, FeatureWalk, DeviceNames, DeviceTables,
        WirePointing, WireKeys, WireLights, WireDevice, WireRegisters, TLC

CONSTANTS c1, c2, c3      \* leases

VARIABLES part,
          users      \* who uses the receiver in this behaviour

Parts == {"receiver", "leases", "walk", "names", "tables", "wire"}
-----------------------------------------------------------------------------
\* A session alone has the whole instance.  Inventory alone has two slots with
\* one device at least, and one slot at least that its property speaks of.
\* Together they share a receiver with one device at most, near which none is
\* found; the session is left to its deadline and its closing writes are
\* taken, and the reads that count and identify devices are answered.
Company == {{"session"}, {"inventory"}, {"session", "inventory"}}

ReceiverRest == /\ users = {} /\ family = "bolt" /\ occupant = [s \in Slots |-> None]
                /\ flags = {}

NoneNearby == \A c \in Counters : partial'[c] = NoFrames
CountAnswers == scan = "count" /\ scan' # scan => counted' # None
SlotsAnswer ==
    scan = "slots" /\ scan' = scan => Occupied \cap (unread \ unread') \subseteq sighted'.found

Apart ==
    /\ \/ "session" \in users /\ (Session \/ Expires \/ User)
       \/ "session" \in users /\ Deliver /\ UNCHANGED pairingVars
       \/ "inventory" \in users /\ Inventory
       \/ Device
       \/ RemoveDevice
    /\ "inventory" \in users => /\ Occupied' # {} /\ silent' \cup swallowed' # Slots
                                /\ counted = None => SlotsAnswer
Together ==
    /\ (Device \/ Session \/ Expires \/ Inventory)
    /\ Cardinality(Occupied') <= 1 /\ NoneNearby
    /\ result' \notin {"hid", "notfound"} /\ refused' = {}
    /\ CountAnswers /\ SlotsAnswer

ReceiverStep == IF Cardinality(users) = 1 THEN Apart ELSE Together

\* Three opens of one node and two ids, so that ids run out and are leased
\* again.  The third only competes for an id: it hears nothing, and the gate
\* does not move while it opens.  Which of the other two is which makes no
\* difference, so that they start in order.
MCIds == 1..2
LeaseStep ==
    /\ Next
    /\ c3 \notin waiting' /\ inbox'[c3] = {}
    /\ suspended' # suspended => stage[c3] \in {"idle", "closed"}
    /\ stage'[c2] # "idle" => stage'[c1] # "idle"

\* Feature ids and their highest versions.
MCTable == <<[id |-> \h1b04, version |-> 4], [id |-> 1, version |-> 0],
             [id |-> \h1982, version |-> 2], [id |-> \h2201, version |-> 1]>>

\* Names of up to three parts, with a character of two bytes at each place
\* where a part may end.
MCNewNames == {<<>>, <<"a">>, <<"a", "a">>, <<"a", "h", "t">>,
               <<"a", "a", "a", "h", "t">>, <<"h", "t", "h", "t", "a">>}
NamesRest == friendly = <<>> /\ market = <<>>

\* Lists of DPI words with values, a step of zero, of one and of two, and
\* tables of gestures; a device has one or the other.  A byte has eight
\* values, a page three bytes or two fields.
MCTables ==
    {[dpis |-> list, gestures |-> <<>>] : list \in UNION {[1..n -> {3, 8, 56, 57, 58}] : n \in 0..5}}
    \cup {[dpis |-> <<>>, gestures |-> table] :
              table \in UNION {[1..n -> {"divertable wheel", "fixed wheel", "divertable",
                                        "fixed", "end"}] : n \in 0..5}}
TablesRest ==
    /\ dpiList = <<>> /\ gestures = <<>> /\ diverted = {} /\ scanning = "nothing" /\ page = 0
    /\ stream = <<>> /\ seenDivertable = 0 /\ dpiResult = NoResult /\ thumbwheel = Unknown

\* Every feature that has a wrapper.
PointingWrappers ==
    [adjustable_dpi |-> AdjustableDpi, extended_dpi |-> ExtendedDpi,
     mouse_pointer |-> MousePointer, report_rate |-> ReportRate,
     extended_report_rate |-> ExtendedReportRate, hires_wheel |-> HiResWheel,
     thumbwheel |-> Thumbwheel, smartshift |-> SmartShift,
     smartshift_enhanced |-> SmartShiftEnhanced, vertical_scrolling |-> VerticalScrolling,
     haptic_feedback |-> HapticFeedback, touchpad_raw_xy |-> TouchpadRawXy,
     touch_mouse_raw |-> TouchMouseRaw, gestures2 |-> Gestures2, crown |-> Crown]
KeyWrappers ==
    [reprog_controls |-> ReprogControls,
     persistent_remappable_action |-> PersistentRemappableAction,
     fn_inversion_multi_host |-> FnInversionMultiHost,
     fn_inversion_with_default_state |-> FnInversionWithDefaultState,
     disable_keys |-> DisableKeys, disable_keys_by_usage |-> DisableKeysByUsage,
     dual_platform |-> DualPlatform, multi_platform |-> MultiPlatform,
     mode_status |-> ModeStatus]
LightWrappers ==
    [backlight |-> Backlight, brightness_control |-> BrightnessControl,
     illumination |-> Illumination, color_led_effects |-> ColorLedEffects,
     rgb_effects |-> RgbEffects, per_key_lighting |-> PerKeyLighting,
     equalizer |-> Equalizer, sidetone |-> Sidetone]
DeviceWrappers ==
    [root |-> Root, feature_set |-> FeatureSet, device_information |-> DeviceInformation,
     device_type_and_name |-> DeviceTypeAndName, device_friendly_name |-> DeviceFriendlyName,
     wireless_device_status |-> WirelessDeviceStatus, battery_status |-> BatteryStatus,
     battery_voltage |-> BatteryVoltage, unified_battery |-> UnifiedBattery,
     solar_dashboard |-> SolarDashboard, change_host |-> ChangeHost, hosts_info |-> HostsInfo]
MCWrappers == PointingWrappers @@ KeyWrappers @@ LightWrappers @@ DeviceWrappers
\* A feature without registers has nothing that can be set, or told twice.
MCRegisters ==
    PointingRegisters @@ KeyRegisters @@ LightRegisters @@ DeviceRegisters
    @@ [f \in DOMAIN MCWrappers |-> {}]
WireRest == /\ feature = "root" /\ held = <<>> /\ calling = NoCall /\ calls = 0
            /\ learned = Unnamed /\ meant = Unnamed /\ heard = Unnamed
-----------------------------------------------------------------------------
MCInit ==
    /\ part \in Parts
    /\ IF part = "receiver" THEN users \in Company ELSE ReceiverRest
    /\ IF part = "walk" THEN TRUE ELSE peer = "v20"
    /\ IF part = "names" THEN TRUE ELSE NamesRest
    /\ UsersInit /\ Init /\ WalkInit /\ NameInit
    /\ IF part = "tables" THEN TableInit ELSE TablesRest
    /\ IF part = "wire" THEN WireInit ELSE WireRest

MCNext ==
    /\ UNCHANGED <<part, users>>
    /\ IF part = "receiver" THEN ReceiverStep ELSE UNCHANGED usersVars
    /\ IF part = "leases" THEN LeaseStep ELSE UNCHANGED vars
    /\ IF part = "walk" THEN WalkNext ELSE UNCHANGED walkVars
    /\ IF part = "names" THEN NameNext ELSE UNCHANGED nameVars
    /\ IF part = "tables" THEN TableNext ELSE UNCHANGED tableVars
    /\ IF part = "wire" THEN WireNext ELSE UNCHANGED wireVars

MCSpec ==
    MCInit /\ [][MCNext]_<<usersVars, vars, walkVars, nameVars, tableVars, wireVars, part, users>>

Sym == Permutations(Slots) \cup Permutations(Devices)
=============================================================================
