----------------------------- MODULE WirePointing -----------------------------
(***************************************************************************)
(* The wrappers of the features of mice and touchpads: sensors, wheels,    *)
(* raw touch data and haptics.                                             *)
(***************************************************************************)
EXTENDS Wire

AdjustableDpi ==
    [calls |->
        [get_sensor_count |-> Short(0, {}, {U8("sensor_count", 0)}),
         get_sensor_dpi |-> Short(2, {U8("sensor", 0)}, {Be16("dpi", 1)}),
         set_sensor_dpi |-> Short(3, {U8("sensor", 0), Be16("dpi", 1)}, {})],
     events |-> NoEvents]

Sensor == U8("sensor", 0)
Direction(byte) == Code("direction", byte, 0..1)
Lod(byte) == Code("lod", byte, 0..3)

SensorCapabilities ==
    {Sensor, U8("dpi_level_count", 1)}
    \cup Flags(2, [separate_y |-> 0, lod_settable |-> 1, calibration |-> 2, profile |-> 3])
DpiParameters ==
    {Sensor, Be16("dpi_x", 1), Be16("default_dpi_x", 3), Be16("dpi_y", 5),
     Be16("default_dpi_y", 7), Lod(9)}
SetDpiParameters == {Sensor, Be16("dpi_x", 1), Be16("dpi_y", 3), Lod(5)}
ShowDpiStatus ==
    {Sensor, U8("dpi_level", 1), Code("led_hold_type", 2, 0..3), U8("button_num", 3)}
DpiCalibrationInfo ==
    {Sensor, U8("mouse_width", 1), Be16("mouse_length", 2), Be16("calib_dpi_x", 4),
     Be16("calib_dpi_y", 6)}
StartDpiCalibration ==
    {Sensor, Direction(1), Be16("expected_count", 2), Code("calib_type", 4, 0..1),
     U8("start_timeout", 5), U8("hw_process_timeout", 6), U8("sw_process_timeout", 7)}
DpiCorrection == {Sensor, Direction(1), Be16("correction", 2)}

DpiCalls ==
    [get_sensor_count |-> Short(0, {}, {U8("sensor_count", 0)}),
     get_sensor_capabilities |-> Short(1, {Sensor}, SensorCapabilities),
     get_sensor_dpi_parameters |-> Short(5, {Sensor}, DpiParameters),
     set_sensor_dpi_parameters |-> Long(6, SetDpiParameters, {})]

CalibrationCalls ==
    [show_sensor_dpi_status |-> Long(7, ShowDpiStatus, {}),
     get_dpi_calibration_info |-> Short(8, {Sensor}, DpiCalibrationInfo),
     start_dpi_calibration |-> Long(9, StartDpiCalibration, {}),
     set_dpi_calibration |-> Long(10, DpiCorrection, {})]

ExtendedDpiEvents ==
    [ParametersChanged |-> Event(0, SetDpiParameters),
     CalibrationCompleted |-> Event(1, DpiCorrection \cup {Be16("delta", 4)})]

ExtendedDpi == [calls |-> DpiCalls @@ CalibrationCalls, events |-> ExtendedDpiEvents]

MousePointer ==
    [calls |->
        [get_mouse_pointer_info |->
            Short(0, {}, {Be16("sensor_resolution", 0), Bits("pointer_acceleration", 2, 1, 0)}
                \cup Flags(2, [suggest_os_ballistics |-> 2, suggest_vertical_tuning |-> 3]))],
     events |-> NoEvents]

ReportRate ==
    [calls |->
        [get_report_rate_list |-> Short(0, {}, {U8("rates", 0)}),
         get_report_rate |-> Short(1, {}, {U8("rate", 0)}),
         set_report_rate |-> Short(2, {U8("rate", 0)}, {})],
     events |-> NoEvents]

ExtendedReportRate ==
    LET Connection == Code("connection", 0, 0..1)
    IN  [calls |->
            [get_device_capabilities |-> Short(0, {Connection}, {Be16("possible_rates", 0)}),
             get_actual_report_rate_list |-> Short(1, {}, {Be16("rates", 0)}),
             get_report_rate |-> Short(2, {Connection}, {Code("rate", 0, 0..6)}),
             set_report_rate |-> Short(3, {Code("rate", 0, 0..6)}, {})],
         events |-> NoEvents]
-----------------------------------------------------------------------------
WheelCapabilities ==
    {U8("multiplier", 0), U8("ratches_per_rotation", 2), U8("wheel_diameter", 3)}
    \cup Flags(1, [has_invert |-> 3, has_switch |-> 2])
WheelMode == Flags(0, [inverted |-> 2, resolution |-> 1, target |-> 0])

WheelEvents ==
    [WheelMovement |->
        Event(0, {Flag("moved_at", 0, 4), Bits("periods", 0, 3, 0), Be16("delta_vertical", 1)}),
     RatchetSwitch |-> Event(1, {Flag("ratchet", 0, 0)})]

\* Mutant: the mode is written with the direction a bit too high.
HiResWheelShifted ==
    [calls |->
        [get_wheel_capabilities |-> Short(0, {}, WheelCapabilities),
         get_wheel_mode |-> Short(1, {}, WheelMode),
         set_wheel_mode |->
            Short(2, Flags(0, [inverted |-> 3, resolution |-> 1, target |-> 0]), WheelMode),
         get_ratchet_switch_state |-> Short(3, {}, {Flag("ratchet", 0, 0)})],
     events |-> WheelEvents]

HiResWheel ==
    [calls |->
        [get_wheel_capabilities |-> Short(0, {}, WheelCapabilities),
         get_wheel_mode |-> Short(1, {}, WheelMode),
         set_wheel_mode |-> Short(2, WheelMode, WheelMode),
         get_ratchet_switch_state |-> Short(3, {}, {Flag("ratchet", 0, 0)})],
     events |-> WheelEvents]

ThumbwheelInfo ==
    {Be16("native_resolution", 0), Be16("diverted_resolution", 2),
     Flag("default_direction", 4, 0), U8("capabilities", 5), Be16("time_unit", 6)}
ThumbwheelStatus ==
    {Code("mode", 0, 0..1)} \cup Flags(1, [inverted |-> 0, touch |-> 1, proxy |-> 2])
ThumbwheelUpdate ==
    {Be16("rotation", 0), Be16("time_elapsed", 2), U8("rotation_status", 4)}
    \cup Flags(5, [touch |-> 1, proxy |-> 2, single_tap |-> 3])

Thumbwheel ==
    [calls |->
        [get_thumbwheel_info |-> Short(0, {}, ThumbwheelInfo),
         get_thumbwheel_status |-> Short(1, {}, ThumbwheelStatus),
         set_thumbwheel_reporting |->
            Short(2, {Code("mode", 0, 0..1), Flag("inverted", 1, 0)}, {})],
     events |-> [StatusUpdate |-> Event(0, ThumbwheelUpdate)]]

\* Disengaging at zero can be read, and cannot be written.
SmartShift ==
    LET Mode(f) == OneOf(f, 1..2)
    IN  [calls |->
            [get_ratchet_control_mode |->
                Short(0, {}, {Mode(U8("wheel_mode", 0)), U8("auto_disengage", 1),
                              U8("auto_disengage_default", 2)}),
             set_ratchet_control_mode |->
                Short(1, {OrKeep(Mode(U8("wheel_mode", 0))), OrKeep(U8("auto_disengage", 1)),
                          OrKeep(U8("auto_disengage_default", 2))}, {})],
         events |-> NoEvents]

SmartShiftInfo ==
    {U8("capabilities", 0), U8("auto_disengage_default", 1), U8("default_tunable_torque", 2),
     U8("max_force", 3)}
SmartShiftStatus == {Code("wheel_mode", 0, 1..2), U8("auto_disengage", 1), U8("torque", 2)}

SmartShiftEnhanced ==
    [calls |->
        [get_capabilities |-> Short(0, {}, SmartShiftInfo),
         get_ratchet_control_mode |-> Short(1, {}, SmartShiftStatus),
         set_ratchet_control_mode |->
            Short(2, {OrKeep(f) : f \in SmartShiftStatus}, SmartShiftStatus)],
     events |-> NoEvents]

VerticalScrolling ==
    [calls |->
        [get_roller_info |->
            Short(0, {}, {Code("roller_type", 0, {1, 3, 4, 5, 6}), U8("ratchets_per_turn", 1),
                          U8("scroll_lines", 2)})],
     events |-> NoEvents]
-----------------------------------------------------------------------------
\* An intensity is a per cent; 64 to 100 stand for the others.
HapticConfiguration == {Code("enabled", 0, 0..1), Code("intensity", 1, {0, 1, 64, 100})}

HapticFeedback ==
    [calls |->
        [get_capabilities |->
            Short(0, {}, {Bytes("unknown_prefix", 0, 4), Bytes("waveforms", 4, 4)}),
         get_configuration |->
            Short(1, {}, HapticConfiguration
                         \cup {Bits("level_step", 2, 7, 4), Bits("level_count", 2, 3, 0)}),
         set_configuration |-> Short(2, HapticConfiguration, {}),
         play |-> Short(4, {Code("waveform", 0, {1, 4})}, {})],
     events |-> NoEvents]

\* A coordinate is fourteen bits; the two bits over it say what the touch is.
Coord14(name, byte) == Field(name, [k \in 0..13 |-> IF k < 8 THEN 8 * (byte + 1) + k
                                                    ELSE 8 * byte + k - 8], Samples(14))
RawTouch(names, first, fingers) ==
    {Bits(names[1], first, 7, 6), Coord14(names[2], first),
     Bits(names[3], first + 2, 7, 6), Coord14(names[4], first + 2),
     U8(names[5], first + 4), U8(names[6], first + 5), Bits(names[7], fingers, 7, 4)}

DualXy ==
    {Be16("timestamp", 0), Flag("button", 8, 2), Flag("end_of_frame", 8, 0),
     Bits("finger_count", 15, 3, 0)}
    \cup RawTouch(<<"type1", "x1", "status1", "y1", "z1", "area1", "finger1">>, 2, 8)
    \cup RawTouch(<<"type2", "x2", "status2", "y2", "z2", "area2", "finger2">>, 9, 15)

TouchpadInfo ==
    {Be16("x_size", 0), Be16("y_size", 2), U8("z_data_range", 4), U8("area_data_range", 5),
     U8("timestamp_units", 6), U8("max_finger_count", 7), Code("origin", 8, 1..4),
     AnyBit("pen_support", 9), U8("mapping_version", 12), Be16("dpi", 13)}

TouchpadRawXy ==
    [calls |->
        [get_touchpad_info |-> Short(0, {}, TouchpadInfo),
         get_raw_report_state |-> Short(1, {}, {U8("reports", 0)}),
         set_raw_report_state |-> Short(2, {U8("reports", 0)}, {})],
     events |-> [DualXy |-> Event(0, DualXy)]]

\* Twelve bits: the high eight in one byte, where all ones say that nothing
\* touches, and the low four in a nibble.
Coord12(name, high, byte, bit) ==
    Field(name, [k \in 0..11 |-> IF k < 4 THEN 8 * byte + bit + k ELSE 8 * high + k - 4],
          Samples(12) \ {0..11})
MouseTouch(names, first) ==
    {Coord12(names[1], first, first + 2, 0), Coord12(names[2], first + 1, first + 2, 4),
     Bits(names[3], first + 3, 3, 0), Bits(names[4], first + 3, 7, 4)}

TouchMouseEvents ==
    [RawData |->
        Event(0, MouseTouch(<<"x0", "y0", "width_x0", "width_y0">>, 0)
            \cup MouseTouch(<<"x1", "y1", "width_x1", "width_y1">>, 4)
            \cup MouseTouch(<<"x2", "y2", "width_x2", "width_y2">>, 8)
            \cup MouseTouch(<<"x3", "y3", "width_x3", "width_y3">>, 12)),
     StatusChanged |-> Event(1, {U8("status", 0)})]

TouchMouseInfo ==
    {Be16("x_max_count", 0), Be16("y_max_count", 2), Be16("resolution_dpi", 4),
     Code("origin", 6, 1..4), U8("max_finger_count", 7), U8("width_height_data_range", 8)}
RawMode == Code("raw_mode", 0, 0..4)

TouchMouseRaw ==
    [calls |->
        [get_touchpad_info |-> Short(0, {}, TouchMouseInfo),
         get_raw_mode |-> Short(1, {}, {RawMode}),
         set_raw_mode |-> Short(2, {RawMode}, {})],
     events |-> TouchMouseEvents]

\* A bit is set with the mask of what changes; the lowest and the highest of
\* the eight gestures of a byte stand for all.
Gestures2 ==
    LET Eight == {U8("offset", 0), U8("count", 1)}
    IN  [calls |->
            [thumbwheel_diverted |->
                Short(3, Eight \cup {U8("mask", 2)}, Flags(0, [first |-> 0, eighth |-> 7])),
             set_thumbwheel_diverted |->
                Long(4, Eight \cup {Masked("first", 3, 0, 2, 0), Masked("eighth", 3, 7, 2, 7)}, {})],
         events |-> NoEvents]

CrownInfo ==
    {U8("controls", 0), U8("sensors", 1), Be16("slots", 2), Be16("ratchets", 4)}
CrownMode ==
    {Code("diverting", 0, 1..2), Code("ratchet_mode", 1, 1..2), U8("rotation_timeout", 2),
     U8("short_long_timeout", 3), U8("double_tap_speed", 4)}
CrownUpdate ==
    {U8("rotation_state", 0), U8("relative_slot_rotation", 1),
     U8("relative_ratchet_rotation", 2), U8("proximity", 3), U8("touch", 4), U8("gesture", 5),
     U8("button", 6), Be16("speed", 14)}

Crown ==
    [calls |->
        [get_info |-> Short(0, {}, CrownInfo),
         get_mode |-> Short(1, {}, CrownMode),
         set_mode |-> Long(2, {OrKeep(f) : f \in CrownMode}, {})],
     events |-> [Update |-> Event(0, CrownUpdate)]]
=============================================================================
