------------------------------- MODULE Lighting -------------------------------
(***************************************************************************)
(* Giving a keyboard one colour (crates/openlogi-device/src/write/         *)
(* lighting.rs).  Three features can do it: the effect engine 0x8070, zone *)
(* by zone; 0x8081, which paints a frame of zones and then commits it; and *)
(* 0x8080, whose frames are written without waiting for an answer.         *)
(***************************************************************************)
EXTENDS Naturals, FiniteSets, FiniteSetsExt

CONSTANTS Keys,        \* key ids of 0x8080, 0x00..=0xe8
          ChunkSize,   \* MAX_SINGLE_VALUE_ZONES and KEYS_PER_FRAME
          ZoneCap,     \* MAX_COLOR_LED_EFFECT_ZONES
          MaxZones     \* bound: zones an effect engine reports

ASSUME KeysAreFinite == IsFiniteSet(Keys)
ASSUME ZonesAreCounted == ZoneCap \in Nat /\ MaxZones \in Nat
ASSUME ChunksAreNotEmpty == ChunkSize \in Nat \ {0}

VARIABLES
    engines,     \* lighting features the keyboard exposes
    effectZones, \* zones its effect engine reports
    pages,       \* presence bits of its 0x8081 zones, by page
    paint,       \* where the call is
    engine,      \* the feature being driven
    unpainted,   \* zones, or keys, still to send
    pending,     \* painted, not committed
    shining      \* zones or keys that show the new colour

lightVars == <<engines, effectZones, pages, paint, engine, unpainted, pending, shining>>

Methods == {"auto", "0x8070", "0x8081", "0x8080"}
\* The presence pages and the first zone id of each.
PageBase == [low |-> 0, middle |-> 112, high |-> 224]

LightInit ==
    /\ engines \in SUBSET {"0x8070", "0x8081", "0x8080"}
    /\ effectZones \in 0..MaxZones
    /\ pages \in [DOMAIN PageBase -> SUBSET (0..111)]
    /\ paint = "idle" /\ engine = "none"
    /\ unpainted = {} /\ pending = {} /\ shining = {}

\* Zone ids whose bit is set; 0 and 0xff end a list, and the last page is
\* padded past 0xff (collect_present_zones).
PresentZones == {z \in UNION {{PageBase[p] + b : b \in pages[p]} : p \in DOMAIN pages} :
                    z \in 1..254}

\* Zones 0x8070 is asked to paint: what it reports, but four at most, and
\* four when it reports none.
EffectCount == IF effectZones = 0 THEN ZoneCap
               ELSE Min({effectZones, ZoneCap})

\* Mutant: one request for all of them, of which the device reads a chunk's.
OneRequest == {Max({1, Cardinality(unpainted)})}

\* How many ids one request takes off the list: a chunk, or the rest.
ChunkOf == {Min({ChunkSize, Cardinality(unpainted)})}

\* A request carries so many ids; the keyboard reads no more than a chunk.
Sent(n) == {z \in unpainted : Cardinality({y \in unpainted : y < z}) < n}
Taken(n) == Sent(Min({n, ChunkSize}))
-----------------------------------------------------------------------------
StartPaint(method) ==
    /\ paint = "idle"
    /\ paint' = IF method = "auto" THEN "auto" ELSE "only"
    /\ engine' = IF method = "auto" THEN "0x8070" ELSE method
    /\ UNCHANGED <<engines, effectZones, pages, unpainted, pending, shining>>

\* A missing feature passes Auto on to the next one; every other error, and a
\* missing feature that was asked for, is the caller's.
NextEngine ==
    /\ paint' = IF paint = "auto" /\ engine # "0x8080" THEN "auto" ELSE "failed"
    /\ engine' = CASE paint = "auto" /\ engine = "0x8070" -> "0x8081"
                   [] paint = "auto" /\ engine = "0x8081" -> "0x8080"
                   [] OTHER -> engine

\* Open the feature and learn what there is to paint; a 0x8081 without zones
\* counts as missing.
FindZones(answered) ==
    /\ paint \in {"auto", "only"}
    /\ LET zones == CASE engine = "0x8070" -> 0..(EffectCount - 1)
                      [] engine = "0x8081" -> PresentZones
                      [] engine = "0x8080" -> Keys
           missing == engine \notin engines \/ (engine = "0x8081" /\ zones = {})
       IN \/ /\ ~answered
             /\ paint' = "failed" /\ UNCHANGED <<engine, unpainted>>
          \/ /\ answered /\ missing
             /\ NextEngine /\ UNCHANGED unpainted
          \/ /\ answered /\ ~missing
             /\ paint' = "painting" /\ unpainted' = zones /\ UNCHANGED engine
    /\ UNCHANGED <<engines, effectZones, pages, pending, shining>>

\* 0x8070: one zone, shown at once; a zone it has not got is an error, unless
\* it said it has none.
PaintZone(answered) ==
    /\ paint = "painting" /\ engine = "0x8070" /\ unpainted # {}
    /\ LET z == Min(unpainted)
           has == z < effectZones \/ effectZones = 0
       IN /\ unpainted' = unpainted \ {z}
          /\ \/ has /\ shining' = shining \cup {z}
             \/ ~(has /\ answered) /\ shining' = shining
          /\ paint' = IF ~(has /\ answered) THEN "failed"
                      ELSE IF unpainted' = {} THEN "ok" ELSE "painting"
    /\ UNCHANGED <<engines, effectZones, pages, engine, pending>>

\* 0x8081 and 0x8080: a chunk into the frame.  A raw report is not answered:
\* it is written whole, or the call fails.
PaintChunk(answered) ==
    /\ paint = "painting" /\ engine # "0x8070" /\ unpainted # {}
    /\ \E n \in ChunkOf :
         /\ unpainted' = unpainted \ Sent(n)
         /\ \/ pending' = pending \cup Taken(n)
            \/ ~answered /\ pending' = pending
    /\ paint' = IF answered THEN "painting" ELSE "failed"
    /\ UNCHANGED <<engines, effectZones, pages, engine, shining>>

\* frame_end, the commit report
CommitFrame(answered) ==
    /\ paint = "painting" /\ engine # "0x8070" /\ unpainted = {}
    /\ \/ shining' = pending
       \/ ~answered /\ shining' = shining
    /\ paint' = IF answered THEN "ok" ELSE "failed"
    /\ UNCHANGED <<engines, effectZones, pages, engine, unpainted, pending>>

LightNext == \/ \E method \in Methods : StartPaint(method)
             \/ \E answered \in BOOLEAN :
                  \/ FindZones(answered) \/ PaintZone(answered)
                  \/ PaintChunk(answered) \/ CommitFrame(answered)
LightSpec == LightInit /\ [][LightNext]_lightVars
-----------------------------------------------------------------------------
(* A colour that was set shows on everything the feature in use can paint:  *)
(* every zone of the effect engine up to the cap, every zone 0x8081 reports *)
(* on any of its pages, every key of 0x8080; and wherever a call fails, a   *)
(* frame of 0x8081 shows whole or not at all.                               *)
(* (set_keyboard_color_with_on_channel.)                                    *)
PaintedWhole ==
    /\ paint = "ok" =>
         /\ engine \in engines
         /\ engine = "0x8070" =>
              \A z \in 0..(effectZones - 1) : z < ZoneCap => z \in shining
         /\ engine = "0x8081" =>
              \A p \in DOMAIN pages : \A b \in pages[p] :
                PageBase[p] + b \in 1..254 => PageBase[p] + b \in shining
         /\ engine = "0x8080" => Keys \subseteq shining
    /\ engine = "0x8081" => shining \in {{}, PresentZones}
-----------------------------------------------------------------------------
(***************************************************************************)
(* The inductive invariant the proofs use (TLC checks it too).             *)
(***************************************************************************)

\* Whatever is to be painted is on the list, in the frame or showing; a frame
\* shows nothing before its end.
NothingMissed ==
    /\ engine = "0x8070" => \A z \in 0..(effectZones - 1) : z < ZoneCap => z \in unpainted \cup shining
    /\ engine = "0x8081" => unpainted \cup pending = PresentZones /\ shining = {}
    /\ engine = "0x8080" => Keys \subseteq unpainted \cup pending

PaintInv ==
    /\ effectZones \in 0..MaxZones /\ DOMAIN pages = DOMAIN PageBase
    /\ IsFiniteSet(unpainted)
    /\ paint = "idle" => engine = "none"
    /\ paint \in {"auto", "only"} => engine \in {"0x8070", "0x8081", "0x8080"}
    /\ paint \in {"idle", "auto", "only"} => pending = {} /\ shining = {}
    /\ paint = "painting" => engine \in engines /\ NothingMissed
    /\ PaintedWhole
=============================================================================
