-------------------------------- MODULE Writes --------------------------------
(***************************************************************************)
(* Changing one setting of a device (crates/openlogi-device/src/write/     *)
(* smartshift.rs, hires_wheel.rs, dpi.rs, backlight.rs, fn_lock.rs): find  *)
(* the feature that drives it, read what must be kept, write, check.       *)
(*                                                                         *)
(* One call runs at a time; whatever else may change the same setting (a   *)
(* second caller, the keyboard's own keys, other software) is Meddle.  A   *)
(* request may be answered, refused for good, refused for now, lost, or    *)
(* carried out though its answer is lost or replaced by another request's  *)
(* ("crossed"; smartshift.rs, #485).  A write may also be acknowledged and *)
(* yet not carried out ("ignored"; dpi.rs).  A wrong feature index that a  *)
(* crossed lookup yields answers every request with an error.              *)
(***************************************************************************)
EXTENDS Naturals, Sequences

CONSTANTS Senses,       \* auto-disengage thresholds and DPI values (never 0)
          MaxMeddling,  \* bound: changes by somebody else
          MaxCrossed    \* bound: lookups that get another request's answer

ASSUME WriteBounds == MaxMeddling \in Nat /\ MaxCrossed \in Nat
ASSUME SensesArePositive == Senses \subseteq Nat \ {0}

VARIABLES
    offers,     \* features the device exposes
    invertible, \* its wheel capabilities
    setting,    \* its settings
    call,       \* [op, arg] of the call
    stage,      \* where the call is: "idle", "look", "caps", "read", "write",
                \* "check", "ok" or "failed"
    choices,    \* features still to be looked up, in order
    feature,    \* the one found; "wrong" after a crossed lookup
    seen,       \* settings read
    tries,      \* attempts at the whole call
    crossed, meddling,
    before,     \* ghost: settings when the call started
    touched,    \* ghost: somebody else changed them since
    ignored,    \* ghost: its last write was acknowledged, not carried out
    carried     \* ghost: a write of it that failed was carried out

writeVars == <<offers, invertible, setting, call, stage, choices, feature, seen,
               tries, crossed, meddling, before, touched, ignored, carried>>

Features == {"0x2111", "0x2110", "0x2121", "0x2201", "0x2202", "0x1982",
             "0x40a3", "0x40a2"}
Settings == [mode : {"free", "ratchet"}, sense : Senses \cup {0},
             torque : Senses \cup {0},             \* 0: no tunable torque
             resolution : {"low", "high"}, inverted : {"no", "yes"},
             diverted : BOOLEAN,
             dpi : Senses, across : Senses \cup {0}, \* 0: no Y axis of its own
             lift : {"low", "high"},
             lit : BOOLEAN, light : {"auto", "temporary", "permanent"},
             level : Senses, fnlock : BOOLEAN]

Keep == "keep"     \* Option::None: leave the field alone
Ops == {"set", "toggle", "sensitivity", "wheel", "invert", "resolution", "dpi",
        "backlight", "fnlock"}
WheelOps == {"wheel", "invert", "resolution"}
Calls ==
    [op : {"set"}, mode : {"free", "ratchet"}, sense : Senses,
     torque : Senses \cup {0}]                    \* 0: None
    \cup [op : {"toggle"}]
    \cup [op : {"sensitivity"}, sense : Senses]
    \cup [op : {"wheel"}, resolution : {"low", "high"}, inverted : {"no", "yes"}]
    \cup [op : {"invert"}, resolution : {Keep}, inverted : {"no", "yes"}]
    \cup [op : {"resolution"}, resolution : {"low", "high"}, inverted : {Keep}]
    \cup [op : {"dpi"}, dpi : Senses]
    \cup [op : {"backlight"}, lit : BOOLEAN]
    \cup [op : {"fnlock"}, on : BOOLEAN]

WriteTypes ==
    /\ offers \subseteq Features /\ invertible \in BOOLEAN
    /\ setting \in Settings /\ before \in Settings
    /\ stage \in {"idle", "look", "caps", "read", "write", "check", "ok", "failed"}
    /\ stage # "idle" => call.op \in Ops
    /\ feature \in Features \cup {"none", "wrong"}
    /\ tries \in 1..2 /\ crossed \in 0..MaxCrossed
    /\ meddling \in 0..MaxMeddling
    /\ touched \in BOOLEAN /\ ignored \in BOOLEAN /\ carried \in BOOLEAN

\* Outcomes of one request, and whether it was carried out.
Outcomes == {"answered", "refused", "busy", "lost", "unheard", "crossed"}
WriteOutcomes == Outcomes \cup {"ignored"}
Applied(outcome) == outcome \in {"answered", "unheard", "crossed"}
\* is_transient_smartshift_error
Transient(outcome) == outcome \in {"busy", "crossed"}

WriteInit ==
    /\ offers \in SUBSET Features /\ invertible \in BOOLEAN
    /\ setting \in Settings /\ before = setting
    /\ call = [op |-> "none"] /\ stage = "idle" /\ choices = << >>
    /\ feature = "none" /\ seen = setting /\ tries = 1
    /\ crossed = 0 /\ meddling = 0
    /\ touched = FALSE /\ ignored = FALSE /\ carried = FALSE
-----------------------------------------------------------------------------
(***************************************************************************)
(* What each call does.                                                    *)
(***************************************************************************)
\* The features that drive a setting, in the order they are tried; the next
\* one is tried only when the device says it has not got this one.
Drivers(op) ==
    CASE op \in {"set", "toggle", "sensitivity"} -> <<"0x2111", "0x2111", "0x2110">>
      [] op \in WheelOps -> <<"0x2121">>
      [] op = "dpi" -> <<"0x2201", "0x2202">>
      [] op = "backlight" -> <<"0x1982">>
      [] op = "fnlock" -> <<"0x40a3", "0x40a2">>

\* Where a call goes once its feature is found.
First(op) ==
    CASE op = "set" /\ tries = 2 -> "write"
      [] op \in {"wheel", "invert"} -> "caps"
      [] op = "dpi" /\ feature' = "0x2201" -> "write"
      [] op = "fnlock" -> "write"
      [] OTHER -> "read"

\* Enabling inversion, or naming a resolution, takes the wheel back from
\* whoever it is diverted to; turning inversion off does not (desired_mode).
StillDiverted ==
    call.resolution = Keep /\ call.inverted # "yes" /\ seen.diverted

\* The settings after a request to the found feature.  The legacy feature has
\* no torque, None is sent as 0, "preserve", and a device that has none of it
\* (0 when read) takes none.
Desired ==
    LET or(wanted, kept) == IF wanted = Keep THEN kept ELSE wanted
        torque(t) == IF feature = "0x2110" \/ t = 0 \/ setting.torque = 0
                     THEN setting.torque ELSE t
        full(mode, sense, t) ==
            [setting EXCEPT !.mode = mode, !.sense = sense, !.torque = torque(t)]
    IN CASE call.op = "set" -> full(call.mode, call.sense, call.torque)
         [] call.op = "toggle" ->
              full(IF seen.mode = "free" THEN "ratchet" ELSE "free",
                   seen.sense, seen.torque)
         [] call.op = "sensitivity" -> full(seen.mode, call.sense, seen.torque)
         [] call.op \in WheelOps ->
              [setting EXCEPT
                 !.resolution = or(call.resolution, seen.resolution),
                 !.inverted = or(call.inverted, seen.inverted),
                 !.diverted = StillDiverted]
         [] call.op = "dpi" /\ feature = "0x2201" -> [setting EXCEPT !.dpi = call.dpi]
         [] call.op = "dpi" /\ feature = "0x2202" ->
              [setting EXCEPT !.dpi = call.dpi, !.lift = seen.lift,
                              !.across = IF seen.across = 0 THEN 0 ELSE call.dpi]
         [] call.op = "backlight" ->
              [setting EXCEPT
                 !.lit = call.lit, !.level = seen.level,
                 !.light = IF seen.light = "temporary" THEN "auto" ELSE seen.light]
         [] call.op = "fnlock" -> [setting EXCEPT !.fnlock = call.on]

\* Mutant: a status matches when its mode does.
AlreadyInMode(now) == call.op = "set" /\ now.mode = call.mode

\* status_matches_desired, `current == desired`
AlreadySo(now) ==
    CASE call.op = "set" ->
           /\ now.mode = call.mode /\ now.sense = call.sense
           /\ call.torque \in {0, IF feature = "0x2110" THEN 0 ELSE now.torque}
      [] call.op \in WheelOps ->
           /\ call.resolution \in {Keep, now.resolution} /\ call.inverted \in {Keep, now.inverted}
           /\ call.resolution # Keep \/ call.inverted = "yes" => ~now.diverted
      [] OTHER -> FALSE

\* A threshold of 0 does not decode, and neither error nor refusal can be
\* told from a wrong index by what the call does next.
Readable == \/ call.op \notin {"set", "toggle", "sensitivity"}
            \/ setting.sense # 0
Reads(outcome) == outcome = "answered" /\ feature # "wrong" /\ Readable

\* What is read: the legacy feature has no torque.
Read == [setting EXCEPT !.torque = IF feature = "0x2110" THEN 0 ELSE @]
-----------------------------------------------------------------------------
\* Calls share nothing but the settings, so one call from each start is enough.
StartWrite(c) ==
    /\ stage = "idle"
    /\ call' = c /\ choices' = Drivers(c.op) /\ feature' = "none" /\ stage' = "look"
    /\ tries' = 1 /\ before' = setting
    /\ touched' = FALSE /\ ignored' = FALSE /\ carried' = FALSE
    /\ UNCHANGED <<offers, invertible, setting, seen, crossed, meddling>>

\* The call fails, or starts again once: toggling after any transient error,
\* setting a whole status only after one of its write.
GiveUpOr(again, outcome) ==
    IF tries = 1 /\ again /\ Transient(outcome)
    THEN /\ stage' = "look" /\ tries' = 2
         /\ choices' = Drivers(call.op) /\ feature' = "none"
    ELSE stage' = "failed" /\ UNCHANGED <<tries, choices, feature>>

\* Device::new's ping, made once before the first lookup, is the caller's:
\* it fails the call as a lost lookup does.
LookUp(outcome) ==
    /\ stage = "look"
    /\ IF outcome \in {"answered", "crossed"}
       THEN /\ crossed' = crossed + (IF outcome = "crossed" THEN 1 ELSE 0)
            /\ crossed' <= MaxCrossed
            /\ \/ /\ feature' = IF outcome = "crossed" THEN "wrong" ELSE Head(choices)
                  /\ outcome = "answered" => Head(choices) \in offers
                  /\ stage' = First(call.op)
                  /\ UNCHANGED choices
               \/ /\ outcome = "crossed" \/ Head(choices) \notin offers
                  /\ choices' = Tail(choices)
                  /\ stage' = IF Tail(choices) = << >> THEN "failed" ELSE "look"
                  /\ UNCHANGED feature
            /\ UNCHANGED tries
       ELSE GiveUpOr(call.op = "toggle", outcome) /\ UNCHANGED crossed
    /\ UNCHANGED <<offers, invertible, setting, call, seen, meddling, before, touched,
                   ignored, carried>>

\* Inversion is not attempted on a wheel that cannot invert.
CheckCapabilities(outcome) ==
    /\ stage = "caps"
    /\ stage' = IF Reads(outcome) /\ invertible THEN "read" ELSE "failed"
    /\ UNCHANGED <<offers, invertible, setting, call, choices, feature, seen, tries,
                   crossed, meddling, before, touched, ignored, carried>>

\* A whole status is written even though the present one cannot be read.
ReadSetting(outcome) ==
    /\ stage = "read"
    /\ IF Reads(outcome)
       THEN /\ seen' = Read
            /\ stage' = IF AlreadySo(setting) THEN "ok" ELSE "write"
            /\ UNCHANGED <<tries, choices, feature>>
       ELSE /\ UNCHANGED seen
            /\ IF call.op = "set"
               THEN stage' = "write" /\ UNCHANGED <<tries, choices, feature>>
               ELSE GiveUpOr(call.op = "toggle",
                             IF Readable THEN outcome ELSE "crossed")
    /\ UNCHANGED <<offers, invertible, setting, call, crossed, meddling, before, touched,
                   ignored, carried>>

\* The wheel's answer tells what the device has taken (validate_applied); a
\* device that ignored the write may still echo it, and is found out later.
WriteSetting(outcome) ==
    /\ stage = "write"
    /\ setting' = IF feature # "wrong" /\ Applied(outcome) THEN Desired ELSE setting
    /\ ignored' = (feature # "wrong" /\ outcome = "ignored")
    /\ carried' = (carried \/ (feature # "wrong" /\ outcome = "crossed"))
    /\ IF feature # "wrong" /\ outcome \in {"answered", "ignored"}
       THEN /\ \/ stage' = IF call.op \in {"set", "toggle", "fnlock"} THEN "ok" ELSE "check"
               \/ /\ call.op \in WheelOps /\ outcome = "ignored" /\ setting # Desired
                  /\ stage' = "failed"
            /\ UNCHANGED <<tries, choices, feature>>
       ELSE GiveUpOr(call.op \in {"set", "toggle"}, outcome)
    /\ UNCHANGED <<offers, invertible, call, seen, crossed, meddling, before, touched>>

\* The wheel's read-back must agree; DPI's is only logged; sensitivity and
\* backlight return what they read.
CheckSetting(outcome) ==
    /\ stage = "check"
    /\ seen' = IF Reads(outcome) THEN Read ELSE seen
    /\ stage' = IF \/ call.op = "dpi"
                   \/ Reads(outcome) /\ (call.op \in WheelOps => setting = Desired)
                THEN "ok" ELSE "failed"
    /\ UNCHANGED <<offers, invertible, setting, call, choices, feature, tries,
                   crossed, meddling, before, touched, ignored, carried>>

Meddle ==
    /\ stage \in {"look", "caps", "read", "write", "check"} /\ meddling < MaxMeddling
    /\ \/ setting' = [setting EXCEPT !.mode = IF @ = "free" THEN "ratchet" ELSE "free"]
       \/ setting' = [setting EXCEPT !.diverted = ~@]
       \/ setting' = [setting EXCEPT !.light = "temporary"]
       \/ \E s \in Senses : setting' = [setting EXCEPT !.level = s]
    /\ setting' # setting
    /\ meddling' = meddling + 1 /\ touched' = TRUE
    /\ UNCHANGED <<offers, invertible, call, stage, choices, feature, seen, tries,
                   crossed, before, ignored, carried>>

WriteNext == \/ \E c \in Calls : StartWrite(c)
             \/ \E outcome \in Outcomes :
                  \/ LookUp(outcome) \/ CheckCapabilities(outcome)
                  \/ ReadSetting(outcome) \/ CheckSetting(outcome)
             \/ \E outcome \in WriteOutcomes : WriteSetting(outcome)
             \/ Meddle
WriteSpec == WriteInit /\ [][WriteNext]_writeVars
-----------------------------------------------------------------------------
(***************************************************************************)
(* Properties.                                                             *)
(***************************************************************************)
Asked ==
    CASE call.op = "set" -> /\ setting.mode = call.mode /\ setting.sense = call.sense
                            /\ \/ call.torque = 0 \/ feature = "0x2110"
                               \/ setting.torque \in {0, call.torque}
      [] call.op = "sensitivity" -> setting.sense = call.sense
      [] call.op \in WheelOps ->
           /\ call.resolution # Keep => setting.resolution = call.resolution /\ ~setting.diverted
           /\ call.inverted # Keep => setting.inverted = call.inverted
           /\ call.inverted = "yes" => ~setting.diverted
      [] call.op = "dpi" -> setting.dpi = call.dpi
      [] call.op = "backlight" -> setting.lit = call.lit
      [] call.op = "fnlock" -> setting.fnlock = call.on
      [] OTHER -> TRUE

\* What was read last is what the device has.
SeenIsNow == seen = Read

\* Toggling reads, flips and writes, twice if the first write's answer was
\* another request's: then the mode is flipped back if that write was carried
\* out after all.  The mode returned is the device's all the same, unless the
\* device ignored the write.
Toggled ==
    /\ (setting.mode # before.mode) <=> (carried <=> ignored)
    /\ (setting.mode # seen.mode) <=> ~ignored

\* What a device that acknowledges writes it does not carry out is left with.
Unmoved == ignored /\ (carried \/ setting = before)

(* What Ok is worth, through retries, crossed answers, a feature bound at   *)
(* the second attempt only, and writes skipped as needless.  A wheel call   *)
(* that returned Ok read the device with what was asked for, and the calls  *)
(* that return a status return the device's, even when a device ignores     *)
(* writes it acknowledges or somebody else is at work.  The others, with    *)
(* nobody else at work: the device has what was asked for, or it ignored    *)
(* the write and still has what it had, which Ok does not tell: DPI's       *)
(* read-back is only logged (dpi.rs:300-304), and a whole status, a toggle  *)
(* and fn-lock have none.  A toggle has flipped the mode once, but for that *)
(* and for a first attempt whose answer only was lost (smartshift.rs:       *)
(* 326-333).  (write/smartshift.rs, hires_wheel.rs, dpi.rs, backlight.rs,   *)
(* fn_lock.rs.)                                                             *)
ReplyIsTrue ==
    stage = "ok" =>
      /\ call.op \in WheelOps => Asked
      /\ call.op \in WheelOps \cup {"sensitivity", "backlight"} => SeenIsNow
      /\ ~touched => /\ Asked \/ Unmoved
                     /\ call.op = "toggle" => Toggled

Fields(op) ==
    CASE op = "set" -> {"mode", "sense", "torque"} [] op = "toggle" -> {"mode"}
      [] op = "sensitivity" -> {"sense"}
      [] op = "wheel" -> {"resolution", "inverted", "diverted"}
      [] op = "invert" -> {"inverted", "diverted"}
      [] op = "resolution" -> {"resolution", "diverted"}
      [] op = "dpi" -> {"dpi", "across"} [] op = "backlight" -> {"lit", "light"}
      [] op = "fnlock" -> {"fnlock"} [] OTHER -> {}

(* At every moment of a call, also between its requests, after a failure    *)
(* and at the second attempt, no field has changed that it was not asked to *)
(* change; turning inversion off does not take a diverted wheel away from   *)
(* its consumer, turning the backlight on or off ends only a temporary      *)
(* level, an absent Y axis stays absent.                                    *)
(* (set_sensitivity, toggle_once, desired_mode, DpiFeature::set_dpi,        *)
(* set_backlight_enabled.)                                                  *)
OnlyWhatWasAsked ==
    ~touched =>
      /\ \A f \in DOMAIN setting \ Fields(call.op) : setting[f] = before[f]
      /\ call.op = "invert" /\ call.inverted = "no" => setting.diverted = before.diverted
      /\ call.op = "set" /\ call.torque = 0 => setting.torque = before.torque
      /\ before.light # "temporary" => setting.light = before.light
      /\ before.across = 0 => setting.across = 0

\* A write does what it says, and nothing else (write/*.rs).
WritesAreHonest == ReplyIsTrue /\ OnlyWhatWasAsked
-----------------------------------------------------------------------------
(***************************************************************************)
(* The inductive invariant the proofs use (TLC checks it too).             *)
(***************************************************************************)

\* The writes that need nothing of what was read.
WritesBlind == call.op \in {"set", "fnlock"} \/ (call.op = "dpi" /\ feature = "0x2201")

\* What the attempts before have left, with nobody else at work.
BeforeWriting ==
    /\ ~carried => setting = before
    /\ carried => tries = 2
    /\ carried /\ call.op = "toggle" => setting.mode # before.mode

WriteInv ==
    /\ WriteTypes /\ seen \in Settings
    /\ choices \in Seq(Features) /\ (stage = "look" => choices # << >>)
    /\ IF stage = "idle" THEN call = [op |-> "none"] ELSE call \in Calls
    /\ call.op = "dpi" => /\ choices \in Seq({"0x2201", "0x2202"})
                         /\ feature \in {"0x2201", "0x2202", "none", "wrong"}
    /\ stage \in {"caps", "read", "write", "check"} => feature # "none"
    /\ stage = "check" => call.op # "toggle" /\ feature # "wrong"
    /\ stage \in {"idle", "look", "caps", "read", "write"} => ~ignored
    /\ tries = 2 => call.op \in {"set", "toggle"}
    /\ ~touched =>
           /\ stage = "write" => WritesBlind \/ SeenIsNow
           /\ stage \in {"idle", "look", "caps", "read", "write"} => BeforeWriting
           /\ stage = "check" => Asked \/ Unmoved
    /\ WritesAreHonest
=============================================================================
