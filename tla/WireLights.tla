------------------------------ MODULE WireLights ------------------------------
(***************************************************************************)
(* The wrappers of the features of lights: backlights, illumination,       *)
(* lighting zones; and of headsets.                                        *)
(***************************************************************************)
EXTENDS Wire

BacklightOptions == Bits("options", 1, 2, 0)
BacklightMode == OneOf(Bits("mode", 1, 4, 3), 0..3)
BacklightEffect(byte) == Code("effect", byte, 0..6)
BacklightStatus == Code("status", 2, 0..5)
BacklightUpdate ==
    {U8("nb_levels", 0), U8("current_level", 1), BacklightStatus, BacklightEffect(3)}
BacklightInfo ==
    BacklightUpdate
    \cup {Le16("oob_duration_hands_out", 4), Le16("oob_duration_hands_in", 6),
          Le16("oob_duration_powered", 8)}
BacklightConfig ==
    {Flag("enabled", 0, 0), BacklightOptions, BacklightMode, Bits("supported", 2, 7, 0),
     Le16("effect_list", 3), U8("current_level", 5), Le16("duration_hands_out", 6),
     Le16("duration_hands_in", 8), Le16("duration_powered", 10)}
\* An effect of all ones leaves the effect as it is; the mode shares its byte
\* with the options that can be set.
SetBacklightConfig ==
    {Flag("enabled", 0, 0), BacklightOptions, BacklightMode,
     [OneOf(U8("effect", 2), (0..6) \cup {255}) EXCEPT !.keeps = {BitsOf(255)}],
     U8("current_level", 3), Le16("duration_hands_out", 4), Le16("duration_hands_in", 6),
     Le16("duration_powered", 8)}

Backlight ==
    [calls |->
        [get_backlight_config |-> Short(0, {}, BacklightConfig),
         set_backlight_config |-> Long(1, SetBacklightConfig, {}),
         get_backlight_info |-> Short(2, {}, BacklightInfo),
         set_backlight_effect |-> Short(3, {BacklightEffect(0)}, {})],
     events |-> [InfoChanged |-> Event(0, BacklightUpdate)]]

\* The number of steps is in two bytes that are not next to each other.
BrightnessInfo ==
    {Be16("max_brightness", 0), Number("steps", <<6, 2>>), U8("capabilities", 3),
     Be16("min_brightness", 4)}

BrightnessControl ==
    [calls |->
        [get_info |-> Short(0, {}, BrightnessInfo),
         get_brightness |-> Short(1, {}, {Be16("brightness", 0)}),
         set_brightness |-> Short(2, {Be16("brightness", 0)}, {}),
         get_illumination |-> Short(3, {}, {Flag("illumination", 0, 0)}),
         set_illumination |-> Short(4, {Flag("illumination", 0, 0)}, {})],
     events |-> NoEvents]
-----------------------------------------------------------------------------
ControlInfo(of) ==
    {U8(of \o "_capabilities", 0), Be16(of \o "_min", 1), Be16(of \o "_max", 3),
     Be16(of \o "_resolution", 5), Bits(of \o "_max_levels", 7, 3, 0)}

\* Levels are a range with a step, or a table of up to seven at a time.
LinearLevels(of) == {Only(U8(of \o "_linear", 0), {1}), Be16(of \o "_lowest", 2),
                     Be16(of \o "_highest", 4), Be16(of \o "_step", 6)}
TableLevels(of) == {Only(Flag(of \o "_no_table", 0, 0), {0}),
                    Only(Bits(of \o "_valid_count", 0, 7, 5), 1..7),
                    Bits(of \o "_start_index", 1, 7, 4), Bits(of \o "_level_count", 1, 3, 0)}
                   \cup Series(of \o "_level", 2, 2, 7)

\* The calls of brightness and of colour temperature, which are alike; their
\* functions follow one another from this number.
ControlCalls(of, first) ==
    LET Value == {Be16(of, 0)}
        Start == {Bits(of \o "_start_index", 0, 7, 4)}
    IN  (of \o "_info") :> Short(first, {}, ControlInfo(of)) @@
        (of \o "_get") :> Short(first + 1, {}, Value) @@
        (of \o "_set") :> Short(first + 2, Value, {}) @@
        (of \o "_get_levels") :> Short(first + 3, Start, TableLevels(of)) @@
        (of \o "_get_linear_levels") :> Variant(1, Short(first + 3, {}, LinearLevels(of))) @@
        (of \o "_set_levels") :> Long(first + 4, TableLevels(of), {}) @@
        (of \o "_set_linear_levels") :> Variant(1, Long(first + 4, LinearLevels(of), {})) @@
        (of \o "_reset_levels") :> Variant(2, Long(first + 4, {Only(U8(of \o "_reset", 0), {2})}, {}))

IlluminationEvents ==
    [IlluminationChanged |-> Event(0, {Flag("state", 0, 0)}),
     BrightnessChanged |-> Event(1, {Be16("brightness", 0)}),
     ColorTemperatureChanged |-> Event(2, {Be16("color_temperature", 0)}),
     BrightnessEffectiveMaxChanged |-> Event(3, {Be16("effective_max", 0)}),
     BrightnessClamped |-> Event(4, {U8("source", 0), Be16("clamped_to", 1)})]

Illumination ==
    [calls |->
        [get_illumination |-> Short(0, {}, {Flag("state", 0, 0)}),
         set_illumination |-> Short(1, {Flag("state", 0, 0)}, {}),
         get_brightness_effective_max |-> Short(12, {}, {Be16("effective_max", 0)})]
        @@ ControlCalls("brightness", 2) @@ ControlCalls("color_temperature", 7),
     events |-> IlluminationEvents]
-----------------------------------------------------------------------------
ZoneIndex == U8("zone_index", 0)
ZoneEffectIndex == U8("zone_effect_index", 1)

ColorLedInfo ==
    {U8("zone_count", 0), Be16("nv_capabilities", 1), Be16("ext_capabilities", 3)}
ZoneInfo ==
    {ZoneIndex, OneOf(Be16("location", 1), 1..11), U8("effects_number", 3), U8("persistency", 4)}
ZoneEffectInfo ==
    {ZoneIndex, ZoneEffectIndex, OneOf(Be16("effect_id", 2), 0..11),
     Be16("effect_capabilities", 4), Be16("effect_period", 6)}
EffectSettings ==
    {ZoneIndex, Be16("period", 4), U8("brightness", 6), U8("setting", 7)}
    \cup Series("color", 1, 1, 3)
ZoneEffect == {ZoneIndex, ZoneEffectIndex} \cup Series("param", 2, 1, 10)
Persistence == Code("persistence", 12, 0..2)
PersistenceSource == Code("source", 1, 0..1)
SwControl == Code("control", 0, 0..1)
CyclingDirection == Code("direction", 0, 0..1)
\* Exactly one capability is asked for or set at a time.
NvCapability == Only(Be16("capability", 0), {1, 2, 4})
NvConfig == {NvCapability, Code("state", 2, 0..2), U8("param_a", 3), U8("param_b", 4)}
LedBinIndex(byte) == Code("led_bin_index", byte, 0..5)
LedBinInfo ==
    {ZoneIndex, LedBinIndex(1), Be16("red", 2), Be16("green", 4), Be16("blue", 6),
     Be16("white", 8)}

ZoneCalls ==
    [get_info |-> Short(0, {}, ColorLedInfo),
     get_zone_info |-> Short(1, {ZoneIndex}, ZoneInfo),
     get_zone_effect_info |-> Short(2, {ZoneIndex, ZoneEffectIndex}, ZoneEffectInfo),
     set_zone_effect |-> Long(3, ZoneEffect \cup {Persistence}, {}),
     get_nv_config |-> Short(4, {NvCapability}, NvConfig),
     set_nv_config |-> Long(5, NvConfig, {})]

ControlAndCalibrationCalls ==
    [get_led_bin_info |-> Short(6, {ZoneIndex, LedBinIndex(1)}, LedBinInfo),
     get_sw_control |-> Short(7, {}, {SwControl, AnyBit("sync_events", 1)}),
     set_sw_control |-> Short(8, {SwControl, Only(U8("sync_events", 1), 0..1)}, {}),
     get_effect_settings |-> Short(9, {ZoneIndex, PersistenceSource}, EffectSettings),
     clear_effect_settings |-> Short(10, {ZoneIndex}, {}),
     set_cycling_direction |-> Short(11, {CyclingDirection}, {}),
     get_current_color |-> Short(12, {ZoneIndex}, Series("current_color", 1, 1, 3)),
     synchronize_effect |-> Long(13, {ZoneIndex, Be16("drift_value", 2)}, {}),
     get_zone_effect |-> Short(14, {ZoneIndex, PersistenceSource}, ZoneEffect),
     set_led_bin_info |-> Long(15, LedBinInfo, LedBinInfo)]

ColorLedEvents == [SyncEffect |-> Event(0, {ZoneIndex, Be16("effect_counter", 1)})]

ColorLedEffects ==
    [calls |-> ZoneCalls @@ ControlAndCalibrationCalls, events |-> ColorLedEvents]
-----------------------------------------------------------------------------
ClusterIndex == U8("cluster_index", 0)
ClusterEffectIndex == U8("cluster_effect_index", 1)

RgbDeviceInfo ==
    {U8("cluster_count", 2), Be16("nv_capabilities", 3), Be16("ext_capabilities", 5),
     U8("multicluster_effect_count", 7)}
RgbClusterInfo ==
    {ClusterIndex, Be16("location", 2), U8("effects_number", 4), U8("display_persistency", 5),
     AnyBit("effect_persistency", 6), AnyBit("multiled_pattern", 7)}
RgbEffectInfo ==
    {ClusterIndex, ClusterEffectIndex, Be16("effect_id", 2), Be16("effect_capabilities", 4),
     Be16("effect_period", 6)}
SlotInfoType == Code("slot_info_type", 4, 0..6)
RgbSwControl == {U8("control", 1), U8("events", 2)}
RgbNvConfig == {Be16("capability", 1), U8("state", 3), U8("param_a", 4), U8("param_b", 5)}
RgbPowerModeConfig ==
    {Be16("flags", 1), Be16("no_activity_timeout_to_power_save", 3),
     Be16("no_activity_timeout_to_off", 5)}
RgbPowerMode == Code("mode", 1, 1..3)
PowerModeTarget == Bits("power_target", 12, 3, 2)

\* What a cluster shows, with its persistence and for which power mode.
ClusterShows(target) ==
    {ClusterIndex, ClusterEffectIndex, Bits("persistence", 12, 1, 0), target}
    \cup Series("param", 2, 1, 10)

\* Function 0 tells of the device, of a cluster, of an effect or of a slot of
\* an onboard effect: all ones are no cluster and no effect.
RgbInfoCalls ==
    LET Given(field) == Only(field, {0, 1, 128})
        Asked == {Given(ClusterIndex), Given(ClusterEffectIndex)}
        Slot == {Only(U8("type", 2), {1}), U8("slot", 3), SlotInfoType}
        NoEffect == Only(U8("no_effect", 1), {255})
    IN  [get_device_info |->
            Short(0, {Only(U8("no_cluster", 0), {255}), NoEffect}, RgbDeviceInfo),
         get_cluster_info |->
            Variant(1, Short(0, {Given(ClusterIndex), NoEffect}, RgbClusterInfo)),
         get_effect_info |-> Variant(2, Short(0, Asked, RgbEffectInfo)),
         get_onboard_effect_info |->
            Variant(3, Long(0, Asked \cup Slot, Series("onboard", 3, 1, 13))),
         set_rgb_cluster_effect |-> Long(1, ClusterShows(OneOf(PowerModeTarget, 0..1)), {}),
         set_multi_led_cluster_pattern |-> Short(2, {ClusterIndex, U8("pattern", 1)}, {})]

\* The first byte of these says whether they get (0), set (1) or get what was
\* backed up (2).
Get(call) == Variant(0, [call EXCEPT !.request = @ \cup {Only(U8("get", 0), {0})}])
Set(call) == Variant(1, [call EXCEPT !.request = @ \cup {Only(U8("set", 0), {1})}])
Backup(call) == Variant(2, [call EXCEPT !.request = @ \cup {Only(U8("backup", 0), {2})}])

RgbStateCalls ==
    LET BinOf == {U8("bin_cluster", 1), LedBinIndex(2)}
    IN  [get_nv_config |-> Get(Short(3, {Be16("capability", 1)}, RgbNvConfig)),
         set_nv_config |-> Set(Long(3, RgbNvConfig, {})),
         get_led_bin_info |-> Get(Short(4, BinOf, Series("bin", 3, 1, 8))),
         get_led_bin_backup |-> Backup(Short(4, BinOf, Series("backup_bin", 3, 1, 8))),
         set_led_bin_info |-> Set(Long(4, BinOf \cup Series("bin", 3, 1, 8), {})),
         get_sw_control |-> Get(Short(5, {}, RgbSwControl)),
         set_sw_control |-> Set(Short(5, RgbSwControl, {})),
         set_effect_sync_correction |-> Long(6, {ClusterIndex, Be16("drift_value", 2)}, {}),
         get_power_mode_config |-> Get(Short(7, {}, RgbPowerModeConfig)),
         set_power_mode_config |-> Set(Long(7, RgbPowerModeConfig, {})),
         get_power_mode |-> Get(Short(8, {}, {RgbPowerMode})),
         set_power_mode |-> Set(Short(8, {RgbPowerMode}, {})),
         shutdown |-> Short(9, {}, {})]

RgbEvents ==
    [EffectSync |-> Event(0, {ClusterIndex, Be16("effect_counter", 1)}),
     UserActivity |-> Event(1, {U8("activity", 0)}),
     ClusterChanged |-> Event(2, ClusterShows(PowerModeTarget))]

RgbEffects == [calls |-> RgbInfoCalls @@ RgbStateCalls, events |-> RgbEvents]
-----------------------------------------------------------------------------
\* No zone is zero or all ones; a zone of zero is a slot that is not used.
Zones(name, first, step, count) ==
    {Only(U8(name \o ToString(k), first + step * k), {0, 1, 128, 254}) : k \in 0..(count - 1)}
Rgb(name, first, step, count) ==
    {Bytes(name \o ToString(k), first + step * k, 3) : k \in 0..(count - 1)}
First == Only(U8("first_zone", 0), {1, 128, 254})

Packed == {First} \cup Series("packed", 1, 1, 15)
IndividualZones == Zones("zone", 0, 4, 4) \cup Rgb("rgb", 1, 4, 4)
ConsecutiveZones == {First} \cup Rgb("rgb", 1, 3, 5)
ZoneRanges == Zones("from", 0, 5, 3) \cup Zones("to", 1, 5, 3) \cup Rgb("rgb", 2, 5, 3)
SingleValue == Rgb("rgb", 0, 3, 1) \cup Zones("zone", 3, 1, 13)
FrameEnd ==
    {Code("persistence", 0, 0..1), Be16("current_frame", 1), Be16("frames_till_next_change", 3)}

PerKeyLighting ==
    [calls |->
        [get_rgb_zone_presence |->
            Short(0, {Only(U8("type", 0), {0}), Code("page", 1, 0..2)},
                  Series("present", 2, 1, 14)),
         set_individual_rgb_zones |-> Long(1, IndividualZones, {}),
         set_consecutive_rgb_zones |-> Long(2, ConsecutiveZones, {}),
         set_consecutive_rgb_zones_delta_5bit |-> Long(3, Packed, {}),
         set_consecutive_rgb_zones_delta_4bit |-> Long(4, Packed, {}),
         set_range_rgb_zones |-> Long(5, ZoneRanges, {}),
         set_rgb_zones_single_value |-> Long(6, SingleValue, {}),
         frame_end |-> Long(7, FrameEnd, {})],
     events |-> NoEvents]
-----------------------------------------------------------------------------
\* Frequencies come in pages of seven; gains are told with a byte less in
\* front than they are set with.
EqInfo ==
    {U8("band_count", 0), U8("db_range", 1), U8("capabilities", 2), U8("db_min", 3),
     U8("db_max", 4)}

Equalizer ==
    LET Gains(first, count) == Series("gain", first, 1, count)
    IN  [calls |->
            [get_eq_info |-> Short(0, {}, EqInfo),
             get_frequencies |->
                Short(1, {U8("index", 0)}, {U8("index", 0)} \cup Series("frequency", 1, 2, 7)),
             get_frequency_gains |-> Short(2, {Code("location", 0, 0..1)}, Gains(0, 16)),
             set_frequency_gains |->
                Long(3, {Code("persistence", 0, 0..2)} \cup Gains(1, 15), Gains(1, 15)),
             get_mic_noise_reduction |-> Short(4, {}, {AnyBit("noise_reduction", 0)}),
             set_mic_noise_reduction |-> Short(5, {Only(U8("noise_reduction", 0), 0..1)}, {})],
         events |-> NoEvents]

\* The lowest and the highest of the eight mute bits stand for all.
Sidetone ==
    [calls |->
        [get_sidetone_level |-> Short(0, {}, {U8("level", 0)}),
         set_sidetone_level |-> Short(1, {U8("level", 0)}, {}),
         get_sidetone_mute |-> Short(2, {}, Flags(0, [mute_low |-> 0, mute_high |-> 7])),
         set_sidetone_mute |->
            Short(3, {Masked("mute_low", 1, 0, 0, 0), Masked("mute_high", 1, 7, 0, 7)}, {})],
     events |-> NoEvents]
=============================================================================
