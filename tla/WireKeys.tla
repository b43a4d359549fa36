------------------------------- MODULE WireKeys -------------------------------
(***************************************************************************)
(* The wrappers of the features of keyboards and of controls that can be   *)
(* given another task.                                                     *)
(***************************************************************************)
EXTENDS Wire

Cid == Be16("cid", 0)

\* CidReportingChange: what is diverted or told, with the bits that mark it.
ReportingChange ==
    {Cid, OrKeep(Be16("remap", 3)),
     Masked("diverted", 2, 0, 2, 1), Masked("persistently_diverted", 2, 2, 2, 3),
     Masked("raw_xy", 2, 4, 2, 5), Masked("force_raw_xy", 2, 6, 2, 7),
     Masked("analytics_key_events", 5, 0, 5, 1), Masked("raw_wheel", 5, 2, 5, 3)}

\* CidReportingChangeEcho: the same bits, as the device tells them.
ReportingEcho ==
    {Cid, Be16("remap", 3)}
    \cup Flags(2, [diverted |-> 0, diverted_marked |-> 1, persistently_diverted |-> 2,
                   persistently_marked |-> 3, raw_xy |-> 4, raw_xy_marked |-> 5,
                   force_raw_xy |-> 6, force_raw_xy_marked |-> 7])
    \cup Flags(5, [analytics_key_events |-> 0, analytics_marked |-> 1, raw_wheel |-> 2,
                   raw_wheel_marked |-> 3])

Reporting ==
    {Cid, Be16("remap", 3)}
    \cup Flags(2, [diverted |-> 0, persistently_diverted |-> 2, raw_xy |-> 4,
                   force_raw_xy |-> 6])
    \cup Flags(5, [analytics_key_events |-> 0, raw_wheel |-> 2])

ReprogControlsEvents ==
    [DivertedButtons |->
        Event(0, {Be16("first", 0), Be16("second", 2), Be16("third", 4), Be16("fourth", 6)}),
     DivertedRawMouseXy |-> Event(1, {Be16("dx", 0), Be16("dy", 2)}),
     AnalyticsKeyEvents |->
        Event(2, Series("cid_and_event", 0, 3, 5)),
     DivertedRawWheel |->
        Event(4, {Flag("resolution", 0, 4), Bits("periods", 0, 3, 0),
                  Be16("delta_vertical", 1)})]

\* The flags of a control are in two bytes that are not next to each other.
CidFlags == Number("flags", <<8, 4>>)
CidInfo ==
    {Cid, Be16("task_id", 2), CidFlags, U8("position", 5), U8("group", 6), U8("group_mask", 7)}

ReprogControls ==
    [calls |->
        [get_count |-> Short(0, {}, {U8("count", 0)}),
         get_cid_info |-> Long(1, {U8("index", 0)}, CidInfo),
         get_cid_reporting |-> Short(2, {Cid}, Reporting),
         set_cid_reporting |-> Long(3, ReportingChange, ReportingEcho),
         get_capabilities |-> Short(4, {}, {Flag("reset_all_cid_report_settings", 0, 0)}),
         reset_all_cid_report_settings |-> Short(5, {}, {})],
     events |-> ReprogControlsEvents]
-----------------------------------------------------------------------------
RemappableCapabilities == Be16("capabilities", 0)
HostMask == Only(U8("hosts", 0), 0..7)
ActionId == Code("action_id", 3, 1..9)
Remapping == {Cid, U8("host", 2), ActionId, Be16("value", 4), U8("modifier_mask", 6)}

PersistentRemappableAction ==
    LET Of == {Cid, U8("host", 2)}
    IN  [calls |->
            [get_feature_info |-> Short(0, {}, {RemappableCapabilities}),
             get_count |-> Short(1, {}, {U8("count", 0), U8("host_count", 1)}),
             get_cid_info |-> Short(2, {U8("index", 0), U8("host", 1)}, {Cid}),
             get_persistent_action |-> Short(3, Of, Remapping \cup {Flag("remapped", 7, 0)}),
             set_persistent_action |-> Long(4, Remapping, {}),
             reset_persistent_action |-> Short(5, Of, {}),
             reset_to_factory_settings |-> Short(6, {HostMask}, {})],
         events |-> NoEvents]

FnState(name, byte) == Code(name, byte, 0..1)

FnInversionMultiHost ==
    LET Info == {U8("host_index", 0), FnState("state", 1), FnState("default_state", 2),
                 U8("capabilities", 3)}
    IN  [calls |->
            [get_global_fn_inversion |-> Short(0, {U8("host_index", 0)}, Info),
             set_global_fn_inversion |->
                Short(1, {U8("host_index", 0), FnState("state", 1)}, Info)],
         events |-> NoEvents]

FnInversionWithDefaultState ==
    LET Both == {FnState("state", 0), FnState("default_state", 1)}
    IN  [calls |-> [get_global_fn_inversion |-> Short(0, {}, Both),
                    set_global_fn_inversion |-> Short(1, {FnState("state", 0)}, Both)],
         events |-> NoEvents]

DisableKeys ==
    LET Disabled == {U8("disabled", 0)}
    IN  [calls |-> [get_capabilities |-> Short(0, {}, {U8("keys", 0)}),
                    get_disabled_keys |-> Short(1, {}, Disabled),
                    set_disabled_keys |-> Short(2, Disabled, Disabled)],
         events |-> NoEvents]

\* One packet of usages; zero is no usage and only pads the last packet.
Usages == Series("usage", 0, 1, 16)

DisableKeysByUsage ==
    [calls |-> [get_capabilities |-> Short(0, {}, {U8("max_disabled", 0)}),
                disable_keys |-> Long(1, Usages, {}),
                enable_keys |-> Long(2, Usages, {}),
                enable_all_keys |-> Short(3, {}, {})],
     events |-> NoEvents]
-----------------------------------------------------------------------------
DualPlatform ==
    LET Platform == {Code("platform", 0, 0..1)}
    IN  [calls |-> [get_platform |-> Short(1, {}, Platform),
                    set_platform |-> Short(2, Platform, Platform)],
         events |-> [PlatformChanged |-> Event(0, Platform)]]

PlatformInfos ==
    {Be16("capabilities", 0), U8("platform_count", 2), U8("descriptor_count", 3),
     U8("host_count", 4), U8("current_host", 5), U8("current_host_platform", 6)}
PlatformDescriptor ==
    {U8("platform_index_of", 0), U8("descriptor_index", 1), Be16("os_mask", 2),
     U8("from_version", 4), U8("from_revision", 5), U8("to_version", 6), U8("to_revision", 7)}
\* An index of all ones is none.
HostPlatform ==
    {U8("host_index", 0), U8("status", 1), U8("platform_index", 2), Code("source", 3, 0..3),
     U8("auto_platform_index", 4), U8("auto_descriptor_index", 5)}

MultiPlatform ==
    [calls |->
        [get_feature_infos |-> Short(0, {}, PlatformInfos),
         get_platform_descriptor |->
            Short(1, {U8("descriptor_index", 0)}, PlatformDescriptor),
         get_host_platform |-> Short(2, {U8("host_index", 0)}, HostPlatform)],
     events |-> NoEvents]

\* The first status byte has one bit that is known, the second stands for any.
ModeStatus ==
    [calls |->
        [get_mode_status |->
            Short(0, {}, {Flag("performance", 0, 0), Flag("low", 1, 0), Flag("high", 1, 7)}),
         set_mode_status |->
            Long(1, {Masked("performance", 0, 0, 2, 0), Masked("low", 1, 0, 3, 0),
                     Masked("high", 1, 7, 3, 7)}, {}),
         get_device_config |-> Short(2, {}, {Be16("mode_capabilities", 0)})],
     events |-> NoEvents]
=============================================================================
