------------------------------- MODULE MCFlows --------------------------------
(***************************************************************************)
(* The flows that share no state with one another, checked side by side:   *)
(* a behaviour is of one part, and the others rest where they start.  Each *)
(* part has its own small instance, named with its operators below.        *)
(***************************************************************************)
EXTENDS HostSwitch, CapturedInput, ProbeCache, Writes, Lighting, Haptics,
        OneShotScan, ConfigFile, DeviceSettings, HidTransport

CONSTANTS t1, t2, c1, c2          \* host switch
CONSTANTS gs                      \* captured input
CONSTANTS bolt, cable, d1, d2     \* probe cache
CONSTANTS m1                      \* haptics
CONSTANTS usb, bluetooth, slot1, o1, o2   \* device settings

VARIABLE part
Parts == {"switch", "buttons", "wheel", "cache", "writes", "paint", "haptic",
          "scan", "file", "settings", "waiting", "writing", "opening"}
-----------------------------------------------------------------------------
\* The keyboard is at host 0; t1 is on its receiver; one control is plain and
\* the other at most an analytics key.  One device at most has a table
\* in which a host lacks something: devices are prepared one by one.
MCHostOf(c) == IF c = c1 THEN 0 ELSE 1
MCShares(t) == t = t1
SwitchStart ==
    /\ home \in [Moving -> Hosts] /\ home[Keyboard] = 0
    /\ slot \in [Moving -> {[h \in Hosts |-> "paired"]}
                             \cup [Hosts -> {"paired", "outside"}]
                             \cup [Hosts -> {"paired", "empty"}]]
    /\ \A h \in Hosts : slot[t1][h] # "outside" /\ slot[t2][h] # "empty"
    /\ \E d \in Moving : \A e \in Moving \ {d}, h \in Hosts : slot[e][h] = "paired"
    /\ capability \in [Controls -> {"divertable", "analytics", "none"}]
    /\ capability[c1] = "divertable" /\ capability[c2] # "divertable"
    /\ SwitchInit
SwitchRest ==
    /\ home = [d \in Moving |-> 0]
    /\ slot = [d \in Moving |-> [h \in Hosts |-> "paired"]]
    /\ capability = [c \in Controls |-> "none"]
    /\ gate = "open" /\ SwitchInit

\* The buttons and the wheel of a mouse are moved in different behaviours; a
\* second reconnection comes while the monitor is busy with the first, with
\* gesture sources only.  The wheel's polarity matters to the wheel alone.
MCSources == <<gs, Panel>>
InputRest == wheel = [forward |-> TRUE, known |-> TRUE] /\ InputInit
InputStep ==
    /\ InputNext
    /\ part = "buttons" => wheelSaid' = wheelSaid /\ rolling' = rolling
    /\ part = "wheel" => fingers' = fingers
    /\ naps' = 2 => (naps = 1 => settling) /\ fingers' \subseteq SourceSet

\* A mouse with everything paired to a receiver, and another one that comes
\* on a cable; places are probed in a fixed order.
MCKind(p) == IF p = bolt THEN "bolt" ELSE "direct"
MCTraits(d) == IF d = d1 THEN {"panel", "serial", "battery", "legacy", "unit", "buttons"}
               ELSE {"battery"}
CacheRest ==
    /\ occupant = [p \in Places |-> IF p = bolt THEN d1 ELSE None]
    /\ CacheInit
CacheStep ==
    /\ CacheNext
    /\ todo = {bolt, cable} => todo' # {bolt}
    /\ occupant' # occupant => pass = "idle"
    /\ occupant'[bolt] # d2

\* A device with every feature, one with the older ones, and one with none;
\* the settings a call does not touch are at rest.
Base == [mode |-> "free", sense |-> 1, torque |-> 1, resolution |-> "low",
         inverted |-> "no", diverted |-> FALSE, dpi |-> 1, across |-> 1,
         lift |-> "low", lit |-> TRUE, light |-> "auto", level |-> 1,
         fnlock |-> FALSE]
ShiftFields == {"mode", "sense", "torque"}
WheelFields == {"resolution", "inverted", "diverted"}
OtherFields == {"across", "lift", "light"}
FieldsOf(op) == CASE op \in {"set", "toggle", "sensitivity"} -> ShiftFields
                  [] op \in {"wheel", "invert", "resolution"} -> WheelFields
                  [] OTHER -> OtherFields
Starts ==
    {[Base EXCEPT !.mode = m, !.sense = s, !.torque = t] :
        m \in {"free", "ratchet"}, s \in {0, 1}, t \in {0, 1, 2}}
    \cup {[Base EXCEPT !.resolution = r, !.inverted = i, !.diverted = d] :
        r \in {"low", "high"}, i \in {"no", "yes"}, d \in BOOLEAN}
    \cup {[Base EXCEPT !.across = a, !.lift = f, !.light = l] :
        a \in {0, 1}, f \in {"low", "high"}, l \in {"auto", "temporary", "permanent"}}
WriteStart ==
    /\ offers \in {Features, Features \ {"0x2111", "0x2201", "0x40a3"}, {}}
    /\ setting \in Starts /\ WriteInit
WriteRest == offers = {} /\ setting = Base /\ invertible = FALSE /\ WriteInit
WriteStep ==
    /\ WriteNext
    /\ stage = "idle" => \A f \in DOMAIN Base :
           f \in FieldsOf(call'.op) \/ setting[f] = Base[f]

\* Zones at both ends of the pages, and one past the last.
MCKeys == 0..4
PaintStart ==
    /\ pages \in [DOMAIN PageBase -> SUBSET {0, 1, 30, 31, 111}]
    /\ pages["low"] \subseteq {0, 1, 111} /\ pages["middle"] \subseteq {0, 111}
    /\ pages["high"] \subseteq {0, 30, 31}
    /\ LightInit
PaintRest == /\ pages = [p \in DOMAIN PageBase |-> {}] /\ engines = {}
             /\ effectZones = 0 /\ LightInit

MCIndex(d) == IF d = m1 THEN 1 ELSE 2
HapticRest == inSlot = m1 /\ armed = FALSE /\ HapticInit

FileRest == file = Absent /\ FileInit

\* Two devices, one reached by USB and by Bluetooth, and one pairing slot
\* both get; in the file, entries that rename to one key, one keyed by the
\* slot, and one that claims routes of another.
MCCables == <<bluetooth, usb>>
MCOrder == <<<<bluetooth, o1>>, <<bluetooth, o2>>, <<usb, o1>>, <<usb, o2>>,
             slot1, o1, o2>>
Measured == [NoLink EXCEPT !.caps = 1]
Override == [NoLink EXCEPT !.dpi = 2]
InFile(k) ==
    {Unset} \cup
    CASE k = <<bluetooth, o1>> -> {[NoEntry EXCEPT !.dpi = 1, !.target = slot1]}
      [] k = <<usb, o1>> -> {[NoEntry EXCEPT !.dpi = 2, !.alias = 1, !.target = <<bluetooth, o1>>]}
      [] k = slot1 -> {[NoEntry EXCEPT !.dpi = 2, !.invert = TRUE],
                       [NoEntry EXCEPT !.alias = 2, !.target = o2]}
      [] k = o1 -> {[NoEntry EXCEPT !.links[slot1] = Measured],
                    [NoEntry EXCEPT !.dpi = 1, !.links[bluetooth] = NoLink]}
      [] k = o2 -> {[NoEntry EXCEPT !.dpi = 1, !.links[slot1] = Override,
                                    !.links[bluetooth] = Measured,
                                    !.target = <<bluetooth, o1>>]}
      [] OTHER -> {}
Written == {<<bluetooth, o1>>, <<usb, o1>>, slot1, o1, o2}
Files == {e \in [Written -> UNION {InFile(k) : k \in Written}] :
             \A k \in Written : e[k] \in InFile(k)}
SettingsStart ==
    /\ \E e \in Files : entries = [k \in EntryKeys |-> IF k \in Written THEN e[k] ELSE Unset]
    /\ selected \in {k \in Written : entries[k] # Unset} \cup {Unset}
    /\ on = [r \in Routes |-> IF r = usb THEN Unset ELSE o1]
    /\ ConfigInit
SettingsRest ==
    /\ entries = [k \in EntryKeys |-> Unset] /\ selected = Unset
    /\ on = [r \in Routes |-> Unset] /\ ConfigInit
SettingsStep ==
    /\ ConfigNext
    /\ on' # on => loaded /\ on'[usb] = on[usb] /\ on'[bluetooth] = on[bluetooth]
                          /\ on'[slot1] # Unset

\* Waiting for the gate, writing, and listing and opening nodes meet only in
\* the gate.
TransportStep ==
    /\ TransportNext
    /\ part # "waiting" => awaited' = awaited
    /\ part # "writing" => writer' = writer
    /\ part # "opening" => UNCHANGED backendVars
TransportRest == composite = FALSE /\ handled = FALSE /\ TransportInit
-----------------------------------------------------------------------------
MCInit ==
    /\ part \in Parts
    /\ IF part = "switch" THEN SwitchStart ELSE SwitchRest
    /\ IF part = "wheel" THEN InputInit ELSE InputRest
    /\ CacheRest
    /\ IF part = "writes" THEN WriteStart ELSE WriteRest
    /\ IF part = "paint" THEN PaintStart ELSE PaintRest
    /\ IF part = "haptic" THEN HapticInit ELSE HapticRest
    /\ ScanInit
    /\ IF part = "file" THEN FileInit ELSE FileRest
    /\ IF part = "settings" THEN SettingsStart ELSE SettingsRest
    /\ IF part \in {"writing", "opening"} THEN TransportInit ELSE TransportRest

MCNext ==
    /\ UNCHANGED part
    /\ IF part = "switch" THEN SwitchNext ELSE UNCHANGED switchVars
    /\ IF part \in {"buttons", "wheel"} THEN InputStep ELSE UNCHANGED inputVars
    /\ IF part = "cache" THEN CacheStep ELSE UNCHANGED cacheVars
    /\ IF part = "writes" THEN WriteStep ELSE UNCHANGED writeVars
    /\ IF part = "paint" THEN LightNext ELSE UNCHANGED lightVars
    /\ IF part = "haptic" THEN HapticNext ELSE UNCHANGED hapticVars
    /\ IF part = "scan" THEN ScanNext ELSE UNCHANGED scanVars
    /\ IF part = "file" THEN FileNext ELSE UNCHANGED fileVars
    /\ IF part = "settings" THEN SettingsStep ELSE UNCHANGED configVars
    /\ IF part \in {"waiting", "writing", "opening"} THEN TransportStep
       ELSE UNCHANGED transportVars

MCSpec == MCInit /\ [][MCNext]_<<switchVars, inputVars, cacheVars, writeVars,
                                 lightVars, hapticVars, scanVars, fileVars,
                                 configVars, transportVars, part>>
=============================================================================
