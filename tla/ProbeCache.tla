----------------------------- MODULE ProbeCache -----------------------------
(***************************************************************************)
(* What inventory knows of a device and how long it knows it: the probe    *)
(* cache (crates/openlogi-device/src/inventory/cache.rs), the probe that   *)
(* fills it (features.rs, probe.rs), the part of it that outlives the      *)
(* process (persist.rs, crates/openlogi-hid/src/probe_cache.rs), and the   *)
(* end of a pass, which applies and evicts (inventory.rs).                 *)
(*                                                                         *)
(* A place is a slot of a Bolt receiver, a slot of a Unifying receiver or  *)
(* a node.  A pass probes the places in any order: each probe sees the     *)
(* cache as it was when the pass began, and any reply may be lost.  What   *)
(* a probe read is written down with the device it was read from.          *)
(***************************************************************************)
EXTENDS Naturals, FiniteSets

CONSTANTS Devices, Places, None,
          Kind(_),      \* place: "bolt", "unifying" or "direct"
          Traits(_),    \* device: its "panel", "wheel", "serial", "buttons",
                        \* "battery", "legacy", and "unit": an id of its own
          Grace,        \* CACHE_MISS_GRACE
          MaxLost,      \* bound: replies one probe may lose
          MaxMoves      \* bound: devices that come, go or change places

ASSUME NoneIsNothing == None \notin Devices \cup Places
ASSUME PlacesAreNoDevices == Devices \cap Places = {}
ASSUME MovesAreCounted == MaxMoves \in Nat
ASSUME GraceIsPositive == Grace \in Nat \ {0}

VARIABLES
    occupant,   \* the device in each place
    cache,      \* Enumerator::cache, by CacheKey
    stale,      \* keys whose entry is older than REFRESH_INTERVAL
    misses,     \* Enumerator::misses
    dirty,      \* Enumerator::cache_dirty
    disk,       \* what the store would load
    pass,       \* "idle", "probing", "applying" or "saving"
    todo,       \* places not probed yet in this pass
    outcomes,   \* CacheOutcomes of this pass
    served,     \* what the last probe contributed to the inventory
    moves,
    known       \* ghost: facts memoized of each device since its last eviction

cacheVars == <<occupant, cache, stale, misses, dirty, disk, pass, todo, outcomes,
               served, moves, known>>

CacheKeys == Devices \cup Places
Persistable == Devices    \* persist::is_persistable: the Bolt unit ids
Facts == {"model", "serial", "name", "panel", "wheel"}

\* ProbedFeatures: the source of each part that was read.
NoProbe == [caps |-> None, panel |-> FALSE, wheel |-> FALSE, model |-> None,
            serial |-> None, name |-> None, battery |-> None,
            identityIncomplete |-> FALSE, capabilitiesIncomplete |-> FALSE]
Probes ==
    [caps : Devices \cup {None}, panel : BOOLEAN, wheel : BOOLEAN,
     model : Devices \cup {None}, serial : Devices \cup {None},
     name : Devices \cup {None}, battery : {None, 0, 1},
     identityIncomplete : BOOLEAN, capabilitiesIncomplete : BOOLEAN]

ASSUME NoneIsNoProbe == None \notin Probes

\* CacheKey of what a place shows; None for a unit id of zeros.
KeyOf(p) ==
    IF Kind(p) # "bolt" THEN p
    ELSE IF "unit" \in Traits(occupant[p]) THEN occupant[p] ELSE None

CacheTypes ==
    /\ occupant \in [Places -> Devices \cup {None}]
    /\ cache \in [CacheKeys -> Probes \cup {None}] /\ disk \in [CacheKeys -> Probes \cup {None}]
    /\ stale \subseteq CacheKeys /\ misses \in [CacheKeys -> 0..Grace]
    /\ dirty \in BOOLEAN
    /\ pass \in {"idle", "probing", "applying", "saving"}
    /\ todo \subseteq Places
    /\ \A o \in outcomes : o.key \in CacheKeys
    /\ served = None \/ (served.place \in Places /\ served.device \in Devices)
    /\ moves \in 0..MaxMoves
    /\ known \in [Devices -> SUBSET Facts]

CacheInit ==
    /\ occupant \in [Places -> Devices \cup {None}]
    /\ \A p, q \in Places : occupant[p] = occupant[q] => p = q \/ occupant[p] = None
    /\ cache = [k \in CacheKeys |-> None] /\ disk = [k \in CacheKeys |-> None]
    /\ stale = {} /\ misses = [k \in CacheKeys |-> 0] /\ dirty = FALSE
    /\ pass = "idle" /\ todo = {} /\ outcomes = {} /\ served = None
    /\ moves = 0 /\ known = [d \in Devices |-> {}]
-----------------------------------------------------------------------------
(***************************************************************************)
(* The probe (probe_features).                                             *)
(***************************************************************************)
Losses == [lost : {L \in SUBSET {"walk", "panel", "wheel", "model", "serial", "name",
                                "battery"} : Cardinality(L) <= MaxLost},
          charging : BOOLEAN]
Got(r, reply) == reply \notin r.lost

\* read_battery and hold_percentage_while_charging: the legacy feature reads
\* zero while it charges, and the last known level is kept for it.
Reading(d, r, before) ==
    IF "battery" \notin Traits(d) \/ ~Got(r, "battery") THEN None
    ELSE IF ~r.charging THEN 1
    ELSE IF "legacy" \in Traits(d) /\ before \notin {None, 0} THEN before ELSE 0

\* A wheel whose read is lost counts as one that cannot be inverted; a
\* panel's makes the walk incomplete (probe_extra_capabilities).
Walked(d, r) ==
    LET t == Traits(d)
    IN  [caps |-> d, panel |-> "panel" \in t /\ Got(r, "panel"),
         wheel |-> "wheel" \in t /\ Got(r, "wheel"),
         model |-> IF Got(r, "model") THEN d ELSE None,
         serial |-> IF Got(r, "model") /\ Got(r, "serial") /\ "serial" \in t THEN d ELSE None,
         name |-> IF Got(r, "name") THEN d ELSE None,
         battery |-> None,
         identityIncomplete |-> ~Got(r, "model") \/ ("serial" \in t /\ ~Got(r, "serial")),
         capabilitiesIncomplete |-> "panel" \in t /\ ~Got(r, "panel")]

Probed(d, r, before) ==
    IF ~Got(r, "walk") THEN NoProbe
    ELSE [Walked(d, r) EXCEPT !.battery =
             Reading(d, r, IF before = None THEN None ELSE before.battery)]

\* backfill_identity
Backfilled(fresh, before) ==
    LET named == [fresh EXCEPT !.name = IF @ = None THEN before.name ELSE @]
    IN  IF ~fresh.identityIncomplete THEN named
        ELSE IF fresh.model = None /\ before.model # None
        THEN [named EXCEPT !.model = before.model, !.serial = before.serial,
                           !.identityIncomplete = FALSE]
        ELSE IF fresh.model # None /\ fresh.serial = None /\ before.serial # None
        THEN [named EXCEPT !.serial = before.serial, !.identityIncomplete = FALSE]
        ELSE named

\* keep_known_capabilities
Deferring(fresh, before) ==
    [fresh EXCEPT !.caps = before.caps, !.panel = before.panel, !.wheel = before.wheel]

Fresh(k, probe) == [kind |-> "fresh", key |-> k, probe |-> probe]
Update(k, probe) == [kind |-> "update", key |-> k, probe |-> probe]
Seen(k) == [kind |-> "seen", key |-> k, probe |-> NoProbe]

\* Mutant: whatever a walk has read is memoized.
ReprobeEager(d, k, before, r) ==
    LET fresh == Probed(d, r, before)
    IN  IF fresh.caps = None
        THEN <<IF before = None THEN fresh ELSE before, Seen(k)>>
        ELSE <<fresh, Fresh(k, fresh)>>

\* probe_or_reuse, the part that probes; what it serves and its outcome.
\* A slot's probe that runs out of time ends like one that fails.
Reprobe(d, k, before, r) ==
    LET read == Probed(d, r, before)
        fresh == IF before = None THEN read ELSE Backfilled(read, before)
    IN  IF read.caps = None
        THEN <<IF before = None THEN read ELSE before, Seen(k)>>
        ELSE IF fresh.identityIncomplete /\ before = None THEN <<fresh, Seen(k)>>
        ELSE IF fresh.capabilitiesIncomplete
        THEN <<IF before = None THEN fresh ELSE Deferring(fresh, before), Seen(k)>>
        ELSE <<fresh, Fresh(k, fresh)>>

\* ... and the part that does not: a hit refreshes the battery.
Reuse(d, k, before, online, r) ==
    IF before = None THEN <<NoProbe, Seen(k)>>
    ELSE LET now == IF online /\ Got(r, "walk") THEN Reading(d, r, before.battery) ELSE None
         IN  IF now = None \/ k = None THEN <<before, Seen(k)>>
             ELSE <<[before EXCEPT !.battery = now],
                    Update(k, [before EXCEPT !.battery = now])>>

ProbeOrReuse(d, k, online, r) ==
    LET before == IF k = None THEN None ELSE cache[k]
    IN  IF online /\ (before = None \/ k \in stale) THEN Reprobe(d, k, before, r)
                                                   ELSE Reuse(d, k, before, online, r)

\* probe_direct: a node is a peripheral if it has a battery or controls.
Rejected(p, d, probe) ==
    Kind(p) = "direct" /\ probe.battery = None /\ "buttons" \notin Traits(d)
-----------------------------------------------------------------------------
(***************************************************************************)
(* A pass.                                                                 *)
(***************************************************************************)
StartPass ==
    /\ pass = "idle"
    /\ pass' = "probing" /\ todo' = Places /\ outcomes' = {} /\ served' = None
    /\ UNCHANGED <<occupant, cache, stale, misses, dirty, disk, moves, known>>

\* walk_bolt_slot, probe_unifying_slot, probe_direct
ProbePlace(p, online, r) ==
    /\ pass = "probing" /\ p \in todo /\ occupant[p] # None
    /\ Kind(p) = "direct" => online
    /\ r.lost \subseteq {"walk", "model", "name"} \cup Traits(occupant[p])
    /\ todo' = todo \ {p}
    /\ LET result == ProbeOrReuse(occupant[p], KeyOf(p), online, r)
           probe == result[1]
           gone == Kind(p) = "direct"
                      /\ (probe.caps = None \/ Rejected(p, occupant[p], probe))
       IN  /\ outcomes' = IF KeyOf(p) = None \/ (gone /\ probe.caps # None)
                          THEN outcomes
                          ELSE outcomes \cup {IF gone THEN Seen(p) ELSE result[2]}
           /\ served' = IF gone THEN None
                        ELSE [place |-> p, device |-> occupant[p], probe |-> probe]
    /\ UNCHANGED <<occupant, cache, stale, misses, dirty, disk, pass, moves, known>>

\* Nothing is learnt of a place: it is empty, its register or its receiver
\* did not answer, or the node's budget ran out.
MissPlace(p) ==
    /\ pass = "probing" /\ p \in todo
    /\ todo' = todo \ {p} /\ served' = None
    /\ UNCHANGED <<occupant, cache, stale, misses, dirty, disk, pass, outcomes,
                   moves, known>>

FactsOf(d, probe) ==
    {f \in Facts : CASE f = "panel" -> probe.panel /\ probe.caps = d
                     [] f = "wheel" -> probe.wheel /\ probe.caps = d
                     [] OTHER -> probe[f] = d}

\* apply_outcomes
Apply ==
    /\ pass = "probing" /\ todo = {}
    /\ pass' = "applying" /\ served' = None
    /\ LET valued == {o \in outcomes : o.kind # "seen"}
           walked == {o.key : o \in {u \in outcomes : u.kind = "fresh"}}
           ValueOf(k) == (CHOOSE o \in valued : o.key = k).probe
       IN  /\ cache' = [k \in CacheKeys |-> IF \E o \in valued : o.key = k
                                       THEN ValueOf(k) ELSE cache[k]]
           /\ stale' = stale \ walked
           /\ dirty' = (dirty \/ walked \cap Persistable # {})
           /\ known' = [d \in Devices |-> IF \E o \in valued : o.key = d
                                          THEN known[d] \cup FactsOf(d, ValueOf(d))
                                          ELSE known[d]]
    /\ UNCHANGED <<occupant, misses, disk, todo, outcomes, moves>>

\* Mutant: an eviction does not dirty the cache.
EvictQuietly ==
    /\ pass = "applying"
    /\ LET missing == {k \in CacheKeys : cache[k] # None /\ \A o \in outcomes : o.key # k}
           evicted == {k \in missing : misses[k] = Grace}
       IN  /\ misses' = [k \in CacheKeys |-> IF k \in missing \ evicted THEN misses[k] + 1
                                        ELSE IF k \in evicted \/ \E o \in outcomes : o.key = k
                                        THEN 0 ELSE misses[k]]
           /\ cache' = [k \in CacheKeys |-> IF k \in evicted THEN None ELSE cache[k]]
           /\ stale' = stale \ evicted
           /\ known' = [d \in Devices |-> IF d \in evicted THEN {} ELSE known[d]]
    /\ outcomes' = {}
    /\ pass' = IF dirty THEN "saving" ELSE "idle"
    /\ UNCHANGED <<occupant, disk, todo, served, moves, dirty>>

\* evict_unseen
Evict ==
    /\ pass = "applying"
    /\ LET missing == {k \in CacheKeys : cache[k] # None /\ \A o \in outcomes : o.key # k}
           evicted == {k \in missing : misses[k] = Grace}
       IN  /\ misses' = [k \in CacheKeys |-> IF k \in missing \ evicted THEN misses[k] + 1
                                        ELSE IF k \in evicted \/ \E o \in outcomes : o.key = k
                                        THEN 0 ELSE misses[k]]
           /\ cache' = [k \in CacheKeys |-> IF k \in evicted THEN None ELSE cache[k]]
           /\ stale' = stale \ evicted
           /\ dirty' = (dirty \/ evicted \cap Persistable # {})
           /\ known' = [d \in Devices |-> IF d \in evicted THEN {} ELSE known[d]]
    /\ outcomes' = {}
    /\ pass' = IF dirty' THEN "saving" ELSE "idle"
    /\ UNCHANGED <<occupant, disk, todo, served, moves>>

\* ProbeCacheSnapshot::of: the persistable entries, without the reading.
Persisted ==
    [k \in CacheKeys |-> IF k \in Persistable /\ cache[k] # None
                    THEN [cache[k] EXCEPT !.battery = None] ELSE None]

\* flush_cache: the file is replaced as a whole, or the save fails.
Save(works) ==
    /\ pass = "saving"
    /\ pass' = "idle" /\ dirty' = ~works
    /\ disk' = IF works THEN Persisted ELSE disk
    /\ UNCHANGED <<occupant, cache, stale, misses, todo, outcomes, served, moves, known>>
-----------------------------------------------------------------------------
\* REFRESH_INTERVAL passes between passes.
Age ==
    /\ pass = "idle"
    /\ stale' = {k \in CacheKeys : cache[k] # None} /\ stale' # stale
    /\ UNCHANGED <<occupant, cache, misses, dirty, disk, pass, todo, outcomes,
                   served, moves, known>>

\* A device is paired, unpaired or replaced.
Occupy(p, d) ==
    /\ moves < MaxMoves /\ pass # "probing"
    /\ d # occupant[p] /\ (d # None => \A q \in Places : occupant[q] # d)
    /\ occupant' = [occupant EXCEPT ![p] = d] /\ moves' = moves + 1
    /\ UNCHANGED <<cache, stale, misses, dirty, disk, pass, todo, outcomes, served, known>>

\* The process dies, at any point, and starts again (into_entries); a save
\* under way may have been committed.  A file this version cannot read is a
\* cold start.
Restart(committed, readable) ==
    /\ committed => pass = "saving"
    /\ disk' = IF ~readable THEN [k \in CacheKeys |-> None]
               ELSE IF committed THEN Persisted ELSE disk
    /\ cache' = disk' /\ known' = [d \in Devices |-> IF disk'[d] = None THEN {}
                                                     ELSE FactsOf(d, disk'[d])]
    /\ stale' = {} /\ misses' = [k \in CacheKeys |-> 0] /\ dirty' = FALSE
    /\ pass' = "idle" /\ todo' = {} /\ outcomes' = {} /\ served' = None
    /\ UNCHANGED <<occupant, moves>>

CacheNext ==
    \/ StartPass \/ Apply \/ Evict \/ Age
    \/ \E p \in Places : MissPlace(p)
    \/ \E p \in Places, online \in BOOLEAN, r \in Losses : ProbePlace(p, online, r)
    \/ \E p \in Places, d \in Devices \cup {None} : Occupy(p, d)
    \/ \E b \in BOOLEAN : Save(b)
    \/ \E c, b \in BOOLEAN : Restart(c, b)

CacheSpec == CacheInit /\ [][CacheNext]_cacheVars
-----------------------------------------------------------------------------
\* What was once memoized of a Bolt device keeps being served, through lost
\* replies, moves, restarts and failed walks, until its entry is evicted or
\* a restart loses what was never saved: otherwise its configuration key
\* would change or a panel vanish (probe_or_reuse, backfill_identity,
\* keep_known_capabilities).  The wheel is WheelStaysKnown's.
KnownStaysKnown ==
    served # None /\ Kind(served.place) = "bolt" =>
        known[served.device] \ {"wheel"} \subseteq FactsOf(served.device, served.probe)

\* Between passes the store holds the cache's persistable entries unless the
\* cache is still dirty, and no entry of a device was read from another
\* (apply_outcomes, evict_unseen, flush_cache, ProbeCacheSnapshot).
StoreIsCurrent ==
    /\ pass = "idle" /\ ~dirty => disk = Persisted
    /\ \A d \in Devices : disk[d] # None =>
           {disk[d].caps, disk[d].model, disk[d].serial, disk[d].name} \subseteq {d, None}

\* A capability a device was found to have is not lost to an unanswered read
\* (probe_extra_capabilities: "only an unanswered read is" an error, which
\* "the caller must not let ... be memoized").
WheelStaysKnown ==
    served # None /\ Kind(served.place) = "bolt" =>
        known[served.device] \cap {"wheel"} \subseteq FactsOf(served.device, served.probe)
-----------------------------------------------------------------------------
(***************************************************************************)
(* The inductive invariant the proofs use (TLC checks it too).             *)
(***************************************************************************)

\* What was read of a device d: from d alone, the serial only with the model
\* and only if d has one, the panel only if d has one.
ReadFrom(d, probe) ==
    /\ {probe.caps, probe.model, probe.serial, probe.name} \subseteq {d, None}
    /\ probe.serial # None => probe.model # None /\ "serial" \in Traits(d)
    /\ probe.panel => "panel" \in Traits(d)

KeepsKnown(d, probe) == known[d] \ {"wheel"} \subseteq FactsOf(d, probe)

\* An entry of a device was read from it and holds what is known of it.
EntriesAreOwn ==
    \A d \in Devices : IF cache[d] = None THEN known[d] = {}
                       ELSE /\ ReadFrom(d, cache[d]) /\ KeepsKnown(d, cache[d])
                            /\ "unit" \in Traits(d)

\* The store's entries are those a save writes.
StoreIsOwn ==
    \A k \in CacheKeys : disk[k] # None =>
        k \in Devices /\ disk[k].battery = None /\ ReadFrom(k, disk[k])
                     /\ "unit" \in Traits(k)

\* What a pass has gathered so far: an update changes only the reading.
OutcomesAreOwn ==
    \A o \in outcomes :
        /\ o.kind \in {"fresh", "update", "seen"} /\ o.key \in CacheKeys /\ o.probe \in Probes
        /\ o.kind # "seen" /\ o.key \in Devices =>
               ReadFrom(o.key, o.probe) /\ "unit" \in Traits(o.key)
        /\ pass = "probing" =>
               /\ o.kind # "seen" /\ o.key \in Devices => KeepsKnown(o.key, o.probe)
               /\ o.kind = "update" =>
                      /\ cache[o.key] # None
                      /\ [o.probe EXCEPT !.battery = None]
                            = [cache[o.key] EXCEPT !.battery = None]

\* Everything but a save under way leaves the store behind only when dirty.
CacheInv ==
    /\ CacheTypes /\ EntriesAreOwn /\ StoreIsOwn /\ OutcomesAreOwn
    /\ ~dirty => disk = Persisted
    /\ KnownStaysKnown
=============================================================================
