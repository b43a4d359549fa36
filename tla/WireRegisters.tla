----------------------------- MODULE WireRegisters -----------------------------
(***************************************************************************)
(* What devices do with the bytes of the features that can be set, or that *)
(* tell the same in two places: which bytes of a request, an answer or an  *)
(* event are the bytes of another answer or event.  It stands for the      *)
(* devices, which are no part of the program, and knows nothing of the     *)
(* wrappers: bytes are by their offsets, functions by their numbers, and a *)
(* device repeats the index that it was asked with.                        *)
(***************************************************************************)
EXTENDS Wire

PointingRegisters ==
    [adjustable_dpi |-> Same({Q(3)}, A(2), {1, 2}),
     extended_dpi |->
        Same({Q(1), Q(5), Q(6), Q(7), Q(8), Q(9), Q(10), A(1), A(8), E(0), E(1)}, A(5), {0})
        \cup Same({Q(6), E(0)}, A(5), {1, 2})
        \cup Move(Q(6), A(5), {3, 4}, 2) \cup Move(E(0), A(5), {3, 4}, 2)
        \cup Move(Q(6), A(5), {5}, 4) \cup Move(E(0), A(5), {5}, 4)
        \cup Same({Q(9)}, E(1), {1}) \cup Same({Q(10)}, E(1), {1, 2, 3}),
     report_rate |-> Same({Q(2)}, A(1), {0}),
     extended_report_rate |-> Same({Q(3)}, A(2), {0}),
     hires_wheel |-> Same({Q(2), A(2)}, A(1), {0}) \cup SameBits({A(3)}, E(1), {0}),
     thumbwheel |-> Same({Q(2)}, A(1), {0}) \cup SameBits({Q(2)}, A(1), {8})
                    \cup MoveBits(E(0), A(1), {41, 42}, -32),
     smartshift |-> EachUnlessZero(Q(1), A(0), {0, 1, 2}),
     smartshift_enhanced |->
        EachUnlessZero(Q(2), A(1), {0, 1, 2}) \cup Same({A(2)}, A(1), {0, 1, 2}),
     haptic_feedback |-> Same({Q(2)}, A(1), {0, 1}),
     touchpad_raw_xy |-> Same({Q(2)}, A(1), {0}),
     touch_mouse_raw |-> Same({Q(2)}, A(1), {0}),
     gestures2 |-> Marked(Q(4), A(3), 24, 16, -24) \cup Marked(Q(4), A(3), 31, 23, -24),
     crown |-> EachUnlessZero(Q(2), A(1), 0..4)]
-----------------------------------------------------------------------------
KeyRegisters ==
    [reprog_controls |->
        Same({Q(2), Q(3), A(1), A(3)}, A(2), {0, 1})
        \cup UNION {Marked(Q(3), A(2), bit, bit + 1, 0) : bit \in {16, 18, 20, 22, 40, 42}}
        \cup SameBits({A(3)}, A(2), {16, 18, 20, 22, 40, 42})
        \cup UnlessZero(Q(3), A(2), {3, 4}) \cup Same({A(3)}, A(2), {3, 4}),
     persistent_remappable_action |->
        Same({Q(4)}, A(3), 0..6) \cup Same({Q(3), Q(5)}, A(3), {0, 1, 2})
        \cup Same({A(2)}, A(3), {0, 1}) \cup Move(Q(2), A(3), {1}, 1),
     fn_inversion_multi_host |->
        Same({Q(0)}, A(0), {0}) \cup Same({Q(1)}, A(0), {0, 1}) \cup Same({A(1)}, A(0), 0..3),
     fn_inversion_with_default_state |->
        Same({Q(1)}, A(0), {0}) \cup Same({A(1)}, A(0), {0, 1}),
     disable_keys |-> Same({Q(2), A(2)}, A(1), {0}),
     dual_platform |-> Same({Q(2), A(2), E(0)}, A(1), {0}),
     multi_platform |-> Move(Q(1), A(1), {0}, 1) \cup Same({Q(2)}, A(2), {0}),
     mode_status |-> UNION {Marked(Q(1), A(0), bit, bit + 16, 0) : bit \in {0, 8, 15}}]
-----------------------------------------------------------------------------
\* Brightness and colour temperature, at functions that follow one another.
ControlRegisters(first, event) ==
    Same({Q(first + 2), E(event)}, A(first + 1), {0, 1})
    \cup MoveBits(Q(first + 3), A(first + 3), 4..7, 8)
    \cup Same({Q(first + 4)}, A(first + 3), 0..15)
    \cup Same({Q(first + 20)}, A(first + 19), 0..7)

LightRegisters ==
    [backlight |->
        SameBits({Q(1)}, A(0), {0} \cup 8..12)
        \cup {Row(Q(1), A(2), [p \in 16..23 |-> p + 8], 16..23, 16..23)}
        \cup Move(Q(3), A(2), {0}, 3) \cup Move(Q(1), A(0), 3..9, 2)
        \cup Same({E(0)}, A(2), {0, 2, 3}) \cup Move(E(0), A(0), {1}, 4) \cup Move(A(2), A(0), {1}, 4),
     brightness_control |-> Same({Q(2)}, A(1), {0, 1}) \cup SameBits({Q(4)}, A(3), {0}),
     illumination |->
        SameBits({Q(1), E(0)}, A(0), {0}) \cup Same({E(3)}, A(12), {0, 1})
        \cup ControlRegisters(2, 1) \cup ControlRegisters(7, 2),
     color_led_effects |->
        Same({Q(1), Q(2), Q(3), Q(6), Q(9), Q(10), Q(12), Q(13), Q(14), Q(15),
              A(2), A(6), A(9), A(14), A(15), E(0)}, A(1), {0})
        \cup Same({Q(2), Q(3), A(14)}, A(2), {1}) \cup Same({Q(3)}, A(14), 2..11)
        \cup Same({Q(4)}, A(4), {0, 1}) \cup Same({Q(5)}, A(4), 0..4)
        \cup Same({Q(6)}, A(6), {1}) \cup Same({Q(15), A(15)}, A(6), 1..9)
        \cup Same({Q(8)}, A(7), {0, 1}),
     rgb_effects |->
        Same({Q(1), Q(2), Q(6), Q(16), Q(32), Q(48), A(32), E(0), E(2)}, A(16), {0})
        \cup Same({Q(1), Q(32), Q(48), E(2)}, A(32), {1}) \cup Same({Q(1)}, E(2), 2..12)
        \cup Same({Q(3)}, A(3), {1, 2}) \cup Same({Q(19)}, A(3), 1..5)
        \cup Same({Q(20)}, A(4), 3..10) \cup Same({Q(21)}, A(5), {1, 2})
        \cup Same({Q(23)}, A(7), 1..6) \cup Same({Q(24)}, A(8), {1}),
     equalizer |->
        Same({Q(1)}, A(1), {0}) \cup Same({Q(5)}, A(4), {0})
        \cup Move(Q(3), A(2), 1..15, -1) \cup Move(A(3), A(2), 1..15, -1),
     sidetone |->
        Same({Q(1)}, A(0), {0})
        \cup Marked(Q(3), A(2), 8, 0, -8) \cup Marked(Q(3), A(2), 15, 7, -8)]
-----------------------------------------------------------------------------
DeviceRegisters ==
    [root |-> Same({Q(1)}, A(1), {2}),
     device_friendly_name |->
        Same({Q(3)}, A(1), 1..15) \cup Same({A(3), A(4)}, A(0), {0}),
     unified_battery |-> Same({E(0)}, A(1), {0, 1, 2}),
     solar_dashboard |-> Same({E(1), E(2)}, E(0), {0, 1, 2}),
     change_host |-> Move(Q(1), A(0), {0}, 1),
     hosts_info |->
        Same({Q(1), Q(2), A(2)}, A(1), {0}) \cup MoveBits(A(2), A(1), 12..15, 4)]
=============================================================================
