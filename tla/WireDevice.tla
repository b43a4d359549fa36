------------------------------ MODULE WireDevice ------------------------------
(***************************************************************************)
(* The wrappers of the features by which a device tells what it is, how    *)
(* its battery does, and which hosts it knows.                             *)
(***************************************************************************)
EXTENDS Wire

\* No feature has the index zero.
Root ==
    [calls |->
        [get_feature |->
            Short(0, {Be16("id", 0)},
                  {Only(U8("index", 0), {1, 128, 255}), U8("type", 1), U8("version", 2)}),
         ping |-> Short(1, {U8("data", 2)}, {U8("data", 2)})],
     events |-> NoEvents]

FeatureSet ==
    [calls |->
        [count |-> Short(0, {}, {U8("count", 0)}),
         get_feature |->
            Short(1, {U8("index", 0)}, {Be16("id", 0), U8("type", 2), U8("version", 3)})],
     events |-> NoEvents]

Entity ==
    {U8("entity_count", 0), Bytes("unit_id", 1, 4), U8("transport", 6),
     U8("extended_model_id", 13), Flag("serial_number", 14, 0)}
    \cup Series("model_id", 7, 2, 3)
FirmwareInfo ==
    {Code("entity_type", 0, 0..9), Text("firmware_prefix", 1, 3),
     Decimal(U8("firmware_number", 4)), Decimal(U8("revision", 5)), Decimal(Be16("build", 6)),
     Flag("active", 8, 0), Be16("transport_pid", 9), Bytes("extra_version", 11, 5)}

DeviceInformation ==
    [calls |->
        [get_device_info |-> Short(0, {}, Entity),
         get_fw_info |-> Short(1, {U8("entity_index", 0)}, FirmwareInfo),
         get_serial_number |-> Short(2, {}, {Text("serial", 0, 12)})],
     events |-> NoEvents]

DeviceType == Code("type", 0, 0..19)

DeviceTypeAndName ==
    [calls |->
        [get_device_name_count |-> Short(0, {}, {U8("count", 0)}),
         get_device_name |-> Short(1, {U8("index", 0)}, {Bytes("part", 0, 16)}),
         get_device_type |-> Short(2, {}, {DeviceType})],
     events |-> NoEvents]

DeviceFriendlyName ==
    [calls |->
        [get_friendly_name_length |->
            Short(0, {}, {U8("name_length", 0), U8("name_max_length", 1),
                          U8("default_name_length", 2)}),
         get_friendly_name |-> Short(1, {U8("index", 0)}, {Bytes("part", 1, 15)}),
         get_default_friendly_name |->
            Short(2, {U8("index", 0)}, {Bytes("default_part", 1, 15)}),
         set_friendly_name |->
            Long(3, {U8("index", 0), Bytes("part", 1, 15)}, {U8("name_length", 0)}),
         reset_friendly_name |-> Short(4, {}, {U8("name_length", 0)})],
     events |-> NoEvents]

\* The only feature that tells without being asked, and is not asked at all.
WirelessDeviceStatus ==
    [calls |-> NoEvents,
     events |->
        [StatusBroadcast |-> Event(0, {U8("status", 0), U8("request", 1), U8("reason", 2)})]]
-----------------------------------------------------------------------------
BatteryStatus ==
    [calls |->
        [get_battery_level_status |->
            Short(0, {}, {U8("discharge_level", 0), U8("next_level", 1),
                          Code("status", 2, 0..7)})],
     events |-> NoEvents]

\* VoltageChargingStatus::from_flags: bit 7 says that it charges, bits 0 and 1
\* how it ended, bits 3 and 4 how fast it is.
FromFlags(bits) ==
    CASE 7 \notin bits -> "discharging"
      [] 7 \in bits /\ 0 \in bits -> "full"
      [] 7 \in bits /\ 0 \notin bits /\ 1 \in bits -> "not charging"
      [] 7 \in bits /\ bits \cap {0, 1} = {} /\ 3 \in bits -> "charging fast"
      [] 7 \in bits /\ bits \cap {0, 1, 3} = {} /\ 4 \in bits -> "charging slow"
      [] OTHER -> "charging"

BatteryVoltage ==
    LET Status == ReadAs(Field("status", [k \in {0, 1, 3, 4, 7} |-> 16 + k], {}),
                         SUBSET {0, 1, 3, 4, 7}, FromFlags)
    IN  [calls |-> [get_battery_info |->
                        Short(0, {}, {Be16("voltage_mv", 0), Status, Flag("critical", 2, 5)})],
         events |-> NoEvents]

BatteryInfo ==
    {U8("charging_percentage", 0), Code("level", 1, {1, 2, 4, 8}), Code("status", 2, 0..7)}

UnifiedBattery ==
    [calls |->
        [get_battery_capabilities |->
            Short(0, {}, Flags(0, [critical |-> 0, low |-> 1, good |-> 2, full |-> 3])
                         \cup Flags(1, [rechargeable |-> 0, percentage |-> 1])),
         get_battery_info |-> Short(1, {}, BatteryInfo)],
     events |-> [InfoUpdate |-> Event(0, BatteryInfo)]]

SolarEvents ==
    LET Status == {U8("battery_level", 0), Be16("light_level", 1)}
    IN  [Battery |-> Event(0, Status), LightMeasure |-> Event(1, Status),
         CheckLightButton |-> Event(2, Status)]

SolarDashboard ==
    [calls |->
        [set_light_measure |-> Short(0, {U8("max_reports", 0), U8("report_period", 1)}, {}),
         set_led |-> Short(1, {Code("led", 0, 0..3)}, {})],
     events |-> SolarEvents]
-----------------------------------------------------------------------------
\* Switching is not answered: the device has left for the other host.
ChangeHost ==
    [calls |->
        [get_host_info |->
            Short(0, {}, {U8("host_count", 0), U8("current_host", 1), U8("capabilities", 2)}),
         set_current_host |-> Short(1, {U8("current_host", 0)}, {}),
         get_cookies |-> Short(2, {}, Series("cookie_of", 0, 1, 16)),
         set_cookie |-> Short(3, {U8("host", 0), U8("cookie", 1)}, {})],
     events |-> NoEvents]

\* All ones stand for the current host.
HostIndex == U8("host_index", 0)
HostInfo ==
    {HostIndex, Code("status", 1, 0..1), Code("bus_type", 2, 0..5), U8("page_count", 3),
     U8("name_len", 4), U8("name_max_len", 5)}
HostDescriptor ==
    {HostIndex, OneOf(Bits("bus_type", 1, 7, 4), 0..5), Bits("page_index", 1, 3, 0),
     Bytes("body", 2, 14)}

HostsInfo ==
    [calls |->
        [get_feature_info |->
            Short(0, {}, {U8("capabilities", 0), U8("descriptor_capabilities", 1),
                          U8("host_count", 2), U8("current_host", 3)}),
         get_host_info |-> Short(1, {HostIndex}, HostInfo),
         get_host_descriptor |-> Short(2, {HostIndex, Only(U8("page", 1), 0..15)}, HostDescriptor)],
     events |-> NoEvents]
=============================================================================
