------------------------------- MODULE Haptics --------------------------------
(***************************************************************************)
(* Arming the haptic engine once per Actions Ring session and playing a    *)
(* waveform per hover (crates/openlogi-device/src/write/haptic.rs).        *)
(* Callers run at the same time and share one cached feature location.     *)
(* Behind their back the channel is reopened, another device is paired     *)
(* into the slot, and power transitions disarm the engine.                 *)
(***************************************************************************)
EXTENDS Naturals

CONSTANTS Callers, Mice, Nowhere,
          HapticIndex(_),   \* runtime index of 0x19b0 on a mouse, or 0
          MaxChannels,      \* bound: channels opened for the node
          MaxPairings       \* bound: devices paired into the slot

ASSUME HapticBounds == MaxChannels \in Nat \ {0} /\ MaxPairings \in Nat
ASSUME IndicesAreNumbers == \A d \in Mice : HapticIndex(d) \in Nat
ASSUME NowhereIsNoMouse == Nowhere \notin Mice

VARIABLES
    live,        \* the channel the node has now
    inSlot,      \* the device in the slot
    armed,       \* whether its haptic engine would be felt
    location,    \* CACHED_LOCATION: [channel, feature] or Nowhere
    hop,         \* where each caller is
    holds,       \* the channel each caller was given
    bound,       \* feature index each caller is using
    pairings,
    proven,      \* ghost: the last session armed this very device over this
                 \* very channel, and nothing happened to it since
    astray,      \* ghost: callers at work while the slot, the channel or the
                 \* power changed
    misled       \* ghost: the location was stored by such a caller's play

hapticVars == <<live, inSlot, armed, location, hop, holds, bound, pairings,
                proven, astray, misled>>

Hops == {"idle", "look to arm", "ask", "arm", "cached", "look", "play",
         "ok", "failed"}

HapticTypes ==
    /\ live \in 1..MaxChannels /\ inSlot \in Mice /\ armed \in BOOLEAN
    /\ location = Nowhere \/ location \in [channel : 1..MaxChannels, feature : Nat]
    /\ hop \in [Callers -> Hops] /\ holds \in [Callers -> 1..MaxChannels]
    /\ bound \in [Callers -> Nat] /\ pairings \in 0..MaxPairings
    /\ proven \in BOOLEAN /\ astray \subseteq Callers /\ misled \in BOOLEAN

HapticInit ==
    /\ live = 1 /\ inSlot \in Mice /\ armed \in BOOLEAN
    /\ location = Nowhere
    /\ hop = [c \in Callers |-> "idle"] /\ holds = [c \in Callers |-> 1]
    /\ bound = [c \in Callers |-> 0] /\ pairings = 0
    /\ proven = FALSE /\ astray = {} /\ misled = FALSE

To(c, h) == hop' = [hop EXCEPT ![c] = h]
Store(c, index, late) ==
    location' = [channel |-> holds[c], feature |-> index] /\ misled' = late
Clear == location' = Nowhere /\ misled' = FALSE
CacheKept == UNCHANGED <<location, misled>>

\* A request over a retired channel has no answer.
Answered(c, answered) == answered /\ holds[c] = live
Busy == {c \in Callers : hop[c] \notin {"idle", "ok", "failed"}}
Right(c) == bound[c] = HapticIndex(inSlot)
-----------------------------------------------------------------------------
(***************************************************************************)
(* ensure_haptics_armed_on                                                 *)
(***************************************************************************)
StartArm(c) ==
    /\ hop[c] \in {"idle", "ok", "failed"}
    /\ To(c, "look to arm") /\ holds' = [holds EXCEPT ![c] = live]
    /\ astray' = astray \ {c}
    /\ UNCHANGED <<live, inSlot, armed, location, bound, pairings, proven, misled>>

\* Mutant: a session begins with the location of the one before.
ReuseLocation(c, answered) ==
    /\ hop[c] = "look to arm"
    /\ IF location # Nowhere /\ location.channel = holds[c]
       THEN bound' = [bound EXCEPT ![c] = location.feature] /\ CacheKept
       ELSE /\ Answered(c, answered) /\ HapticIndex(inSlot) # 0
            /\ bound' = [bound EXCEPT ![c] = HapticIndex(inSlot)]
            /\ Store(c, HapticIndex(inSlot), FALSE)
    /\ To(c, "ask")
    /\ UNCHANGED <<live, inSlot, armed, holds, pairings, proven, astray>>

\* The lookup bypasses the cached location and overwrites it.
LookToArm(c, answered) ==
    /\ hop[c] = "look to arm"
    /\ IF Answered(c, answered) /\ HapticIndex(inSlot) # 0
       THEN /\ bound' = [bound EXCEPT ![c] = HapticIndex(inSlot)]
            /\ Store(c, HapticIndex(inSlot), FALSE) /\ To(c, "ask")
       ELSE To(c, "failed") /\ UNCHANGED bound /\ CacheKept
    /\ UNCHANGED <<live, inSlot, armed, holds, pairings, proven, astray>>

Proven(c) == proven' = (c \notin astray)

\* getConfiguration: enabled and with an intensity, or not.
AskConfiguration(c, answered) ==
    /\ hop[c] = "ask"
    /\ IF ~Answered(c, answered)
       THEN To(c, "failed") /\ Clear /\ UNCHANGED proven
       ELSE /\ CacheKept
            /\ IF armed \/ ~Right(c)   \* another feature may answer anything
               THEN To(c, "ok") /\ Proven(c)
               ELSE To(c, "arm") /\ UNCHANGED proven
    /\ UNCHANGED <<live, inSlot, armed, holds, bound, pairings, astray>>

Arm(c, answered) ==
    /\ hop[c] = "arm"
    /\ \/ armed' = (armed \/ (holds[c] = live /\ Right(c)))
       \/ ~answered /\ armed' = armed
    /\ IF Answered(c, answered)
       THEN To(c, "ok") /\ Proven(c) /\ CacheKept
       ELSE To(c, "failed") /\ Clear /\ UNCHANGED proven
    /\ UNCHANGED <<live, inSlot, holds, bound, pairings, astray>>
-----------------------------------------------------------------------------
(***************************************************************************)
(* play_haptic_on                                                          *)
(***************************************************************************)
\* cached_feature: the entry of this channel, or a lookup.
StartPlay(c) ==
    /\ hop[c] \in {"idle", "ok", "failed"}
    /\ holds' = [holds EXCEPT ![c] = live]
    /\ IF location # Nowhere /\ location.channel = live
       THEN To(c, "cached") /\ bound' = [bound EXCEPT ![c] = location.feature]
       ELSE To(c, "look") /\ UNCHANGED bound
    /\ astray' = astray \ {c}
    /\ UNCHANGED <<live, inSlot, armed, location, pairings, proven, misled>>

\* A play changes nothing but the cache: what it reaches is the property's.
PlayCached(c, answered) ==
    /\ hop[c] = "cached"
    /\ IF Answered(c, answered) THEN To(c, "ok") /\ CacheKept
       ELSE To(c, "look") /\ Clear
    /\ UNCHANGED <<live, inSlot, armed, holds, bound, pairings, proven, astray>>

LookToPlay(c, answered) ==
    /\ hop[c] = "look"
    /\ IF Answered(c, answered) /\ HapticIndex(inSlot) # 0
       THEN To(c, "play") /\ bound' = [bound EXCEPT ![c] = HapticIndex(inSlot)]
       ELSE To(c, "failed") /\ UNCHANGED bound
    /\ UNCHANGED <<live, inSlot, armed, location, holds, pairings, proven, astray,
                   misled>>

\* The location is remembered once a play went through, whatever became of the
\* slot and of the cache since the caller looked it up.
Play(c, answered) ==
    /\ hop[c] = "play"
    /\ IF Answered(c, answered)
       THEN To(c, "ok") /\ Store(c, bound[c], c \in astray)
       ELSE To(c, "failed") /\ CacheKept
    /\ UNCHANGED <<live, inSlot, armed, holds, bound, pairings, proven, astray>>
-----------------------------------------------------------------------------
(***************************************************************************)
(* The world.                                                              *)
(***************************************************************************)
ReopenNode ==
    /\ live < MaxChannels /\ live' = live + 1
    /\ proven' = FALSE /\ astray' = astray \cup Busy
    /\ UNCHANGED <<inSlot, armed, location, hop, holds, bound, pairings, misled>>

PairAnother(d) ==
    /\ d # inSlot /\ pairings < MaxPairings /\ pairings' = pairings + 1
    /\ inSlot' = d /\ armed' \in BOOLEAN
    /\ proven' = FALSE /\ astray' = astray \cup Busy
    /\ UNCHANGED <<live, location, hop, holds, bound, misled>>

LosePower ==
    /\ armed /\ armed' = FALSE
    /\ proven' = FALSE /\ astray' = astray \cup Busy
    /\ UNCHANGED <<live, inSlot, location, hop, holds, bound, pairings, misled>>

HapticNext ==
    \/ \E c \in Callers :
         \/ StartArm(c) \/ StartPlay(c)
         \/ \E answered \in BOOLEAN :
              \/ LookToArm(c, answered) \/ AskConfiguration(c, answered)
              \/ Arm(c, answered) \/ PlayCached(c, answered)
              \/ LookToPlay(c, answered) \/ Play(c, answered)
    \/ ReopenNode \/ LosePower \/ \E d \in Mice : PairAnother(d)
HapticSpec == HapticInit /\ [][HapticNext]_hapticVars
-----------------------------------------------------------------------------
LocationRight ==
    location # Nowhere /\ location.channel = live => location.feature = HapticIndex(inSlot)

(* Once a session has armed the engine of the device at hand, and until the *)
(* slot, the channel or the device's power changes, the engine stays armed, *)
(* and a remembered location is that engine's, so that a hover's play       *)
(* reaches it - with one exception.  A play that had looked its index up    *)
(* before the last change, and is answered only after the arming, stores    *)
(* the old index over the freshly proven one (haptic.rs:168-174), and the   *)
(* hovers that follow use it until a play over it fails or the next session *)
(* begins: the session's lifetime the comment of ensure_haptics_armed_on    *)
(* speaks of (haptic.rs:119-123) does not hold for it.  It is the only way: *)
(* what earlier callers left, a caller that finds a location in the cache,  *)
(* a failed request that clears it, a second session, and the play of a     *)
(* caller that started since the last change never leave another index.     *)
PlaysAreFelt == proven => armed /\ (LocationRight \/ misled)
-----------------------------------------------------------------------------
(***************************************************************************)
(* The inductive invariant the proofs use (TLC checks it too).             *)
(***************************************************************************)

\* A caller under whom nothing changed uses the right index over the channel
\* the node has; one that arms has left the right location behind.
CallersAreRight ==
    \A c \in Callers \ astray :
        hop[c] \in {"ask", "arm", "play"} =>
            /\ Right(c) /\ holds[c] = live
            /\ hop[c] # "play" => LocationRight \/ misled

HapticInv == HapticTypes /\ CallersAreRight /\ PlaysAreFelt
=============================================================================
