----------------------------- MODULE MCProbeCache -----------------------------
(***************************************************************************)
(* One mouse with a wheel that can be inverted, on a Bolt receiver.        *)
(***************************************************************************)
EXTENDS ProbeCache

CONSTANTS bolt, d1

MCKind(p) == "bolt"
MCTraits(d) == {"panel", "wheel", "serial", "battery", "unit", "buttons"}

MCInit == CacheInit /\ occupant[bolt] = d1
MCSpec == MCInit /\ [][CacheNext]_cacheVars
=============================================================================
