---------------------------- MODULE DeviceSettings ----------------------------
(***************************************************************************)
(* Whose settings are whose: the entries of config.toml, the route index   *)
(* in their links, the renaming of transport-scoped keys and the repair of *)
(* that index when a file is loaded, and the adoption of a route when a    *)
(* device is sighted on it.  The keys are strings in the code.  Here a     *)
(* device stands for its identity key (unit: or serial:), a slot for the   *)
(* receiver: key of a pairing slot, and <<cable, device>> for a direct:    *)
(* key of schema 4.  Of the settings there is one of each way of folding:  *)
(* dpi stands for the values with an override per link, invert for the     *)
(* wheel's direction, alias for the values without an override and target  *)
(* for the lists.                                                          *)
(***************************************************************************)
EXTENDS Naturals, Sequences

CONSTANTS Owners,    \* devices
          Cables,    \* direct routes, in the order of their keys
          Slots,     \* receiver routes
          Unset,
          KeyOrder   \* the keys of a loaded file, in the order of the map

VARIABLES
    entries,   \* Config::devices
    selected,  \* Config::selected_device
    on,        \* the device on each route
    loaded,
    reported,  \* what adopt_route returned last
    lastSeen   \* ghost: the device a route was last adopted for
configVars == <<entries, selected, on, loaded, reported, lastSeen>>

CableSet == {Cables[i] : i \in DOMAIN Cables}
Routes == CableSet \cup Slots
Scoped == CableSet \X Owners
EntryKeys == Owners \cup Slots \cup Scoped
Values == {1, 2}   \* 0 is None
Links == [dpi : {0} \cup Values, invert : {FALSE, TRUE, Unset}, caps : 0..1]
Entries == [dpi : {0} \cup Values, invert : BOOLEAN, alias : {0} \cup Values,
            target : EntryKeys \cup {Unset}, links : [Routes -> Links \cup {Unset}]]

ASSUME UnsetIsNothing == Unset \notin EntryKeys \cup Links \cup Entries \cup BOOLEAN
\* The kinds of keys begin with different words.
ASSUME KeysAreApart ==
    CableSet \cap Slots = {} /\ Owners \cap Slots = {} /\ Scoped \cap (Owners \cup Slots) = {}
ASSUME CablesAreDistinct ==
    /\ Cables \in Seq(CableSet)
    /\ \A i, j \in DOMAIN Cables : Cables[i] = Cables[j] => i = j
ASSUME OrderIsWhole ==
    /\ KeyOrder \in Seq(EntryKeys)
    /\ \A k \in EntryKeys : \E i \in DOMAIN KeyOrder : KeyOrder[i] = k

NoLink == [dpi |-> 0, invert |-> Unset, caps |-> 0]
NoLinks == [r \in Routes |-> Unset]
NoEntry == [dpi |-> 0, invert |-> FALSE, alias |-> 0, target |-> Unset,
            links |-> NoLinks]
Has(ents, k) == ents[k] # Unset
Bare(entry) == entry = [NoEntry EXCEPT !.links = entry.links]

ConfigTypes ==
    /\ entries \in [EntryKeys -> Entries \cup {Unset}]
    /\ selected \in EntryKeys \cup {Unset}
    /\ on \in [Routes -> Owners \cup {Unset}]
    /\ loaded \in BOOLEAN /\ reported \in BOOLEAN
    /\ lastSeen \in [Routes -> Owners \cup {Unset}]

\* A file of schema 4 or below has no links but those edited into entries
\* that already have an identity key.
ConfigInit ==
    /\ entries \in [EntryKeys -> Entries \cup {Unset}]
    /\ \A k \in Slots \cup Scoped : Has(entries, k) => entries[k].links = NoLinks
    /\ selected \in EntryKeys \cup {Unset}
    /\ on \in [Routes -> Owners \cup {Unset}]
    /\ loaded = FALSE /\ reported = FALSE /\ lastSeen = [r \in Routes |-> Unset]
-----------------------------------------------------------------------------
(***************************************************************************)
(* Reading: effective_*, holds_settings, resolve_device_key.               *)
(***************************************************************************)
EffectiveDpi(entry, r) ==
    IF entry.links[r] # Unset /\ entry.links[r].dpi # 0 THEN entry.links[r].dpi
    ELSE entry.dpi
EffectiveInvert(entry, r) ==
    IF entry.links[r] # Unset /\ entry.links[r].invert # Unset
    THEN entry.links[r].invert ELSE entry.invert

HoldsSettings(ents, k) == Has(ents, k) /\ ~Bare(ents[k])

\* physical_key of the id of a device whose identity is known.
PhysicalKey(r, d) == IF r \in Slots THEN r ELSE <<r, d>>

ResolveAwake(ents, r, d) ==
    LET legacy == PhysicalKey(r, d)
    IN  IF ~HoldsSettings(ents, d) /\ HoldsSettings(ents, legacy) THEN legacy ELSE d

Indexes(ents, k, r) == Has(ents, k) /\ ents[k].links[r] # Unset
FirstOwner(ents, r) ==
    LET claims == {i \in DOMAIN KeyOrder : Indexes(ents, KeyOrder[i], r)}
    IN  IF claims = {} THEN Unset
        ELSE KeyOrder[CHOOSE i \in claims : \A j \in claims : i <= j]
\* A cable tells nothing of a device that does not answer.
ResolveAsleep(ents, r) ==
    LET owner == FirstOwner(ents, r)
    IN  IF owner # Unset THEN owner ELSE IF r \in Slots THEN r ELSE Unset

ReadDpi(ents, k, r) == IF Has(ents, k) THEN EffectiveDpi(ents[k], r) ELSE 0
ReadInvert(ents, k, r) == Has(ents, k) /\ EffectiveInvert(ents[k], r)
-----------------------------------------------------------------------------
(***************************************************************************)
(* Folding a legacy entry into the entry of its device (fold, fold_maps).  *)
(***************************************************************************)
LinkOf(entry, r) == IF entry.links[r] = Unset THEN NoLink ELSE entry.links[r]

\* Mutant: of two values the legacy one becomes the device's.
FoldOver(entry, legacy, r) ==
    [entry EXCEPT !.dpi = IF legacy.dpi = 0 THEN @ ELSE legacy.dpi,
                  !.links = [q \in Routes |->
                      IF @[q] # Unset THEN @[q] ELSE IF q = r THEN NoLink ELSE legacy.links[q]],
                  !.alias = IF @ = 0 THEN legacy.alias ELSE @,
                  !.target = IF @ = Unset THEN legacy.target ELSE @]

Fold(entry, legacy, r) ==
    LET joined == [q \in Routes |-> IF entry.links[q] # Unset THEN entry.links[q]
                                    ELSE legacy.links[q]]
        link == LinkOf([entry EXCEPT !.links = joined], r)
        differs == entry.dpi # 0 /\ legacy.dpi \notin {0, entry.dpi}
        reversed == legacy.invert /\ ~entry.invert
    IN  [dpi |-> IF entry.dpi = 0 THEN legacy.dpi ELSE entry.dpi,
         invert |-> entry.invert,
         alias |-> IF entry.alias = 0 THEN legacy.alias ELSE entry.alias,
         target |-> IF entry.target = Unset THEN legacy.target ELSE entry.target,
         links |-> [joined EXCEPT ![r] =
                       [link EXCEPT !.dpi = IF differs THEN legacy.dpi ELSE @,
                                    !.invert = IF reversed THEN TRUE ELSE @]]]

Follow(k, old, new) == IF k = old THEN new ELSE k

\* repoint_references
Repointed(ents, old, new) ==
    [k \in EntryKeys |-> IF Has(ents, k)
                         THEN [ents[k] EXCEPT !.target = Follow(@, old, new)]
                         ELSE Unset]
-----------------------------------------------------------------------------
(***************************************************************************)
(* Loading (migrate_transport_scoped_keys, repair_duplicate_routes).       *)
(***************************************************************************)
\* One transport-scoped entry, renamed to its device.
Renamed(ents, c, d) ==
    IF ~Has(ents, <<c, d>>) THEN ents
    ELSE LET old == ents[<<c, d>>]
             moved == [old EXCEPT !.links[c] = LinkOf(old, c)]
         IN  [ents EXCEPT ![<<c, d>>] = Unset,
                          ![d] = IF @ = Unset THEN moved ELSE Fold(@, moved, c)]
RenamedFrom(ents, c) ==
    [k \in EntryKeys |-> IF k \in Owners THEN Renamed(ents, c, k)[k]
                         ELSE IF k \in {c} \X Owners THEN Unset ELSE ents[k]]
RenamedAll(ents) ==
    LET Upto[i \in 0..Len(Cables)] ==
            IF i = 0 THEN ents ELSE RenamedFrom(Upto[i - 1], Cables[i])
    IN  Upto[Len(Cables)]
\* References are renamed even where no entry is.
Unscoped(k) == IF k \in Scoped THEN k[2] ELSE k

Repaired(ents) ==
    [k \in EntryKeys |-> IF ~Has(ents, k) THEN Unset
        ELSE [ents[k] EXCEPT !.target = Unscoped(@), !.links =
                 [r \in Routes |-> IF FirstOwner(ents, r) = k THEN @[r] ELSE Unset]]]

Load ==
    /\ ~loaded /\ loaded' = TRUE
    /\ entries' = Repaired(RenamedAll(entries))
    /\ selected' = Unscoped(selected)
    /\ UNCHANGED <<on, reported, lastSeen>>
-----------------------------------------------------------------------------
(***************************************************************************)
(* Adoption: device d, online, sighted on route r with what it measured.   *)
(***************************************************************************)
Unclaimed(ents, d, r) ==
    [k \in EntryKeys |-> IF Has(ents, k) /\ k # d
                         THEN [ents[k] EXCEPT !.links[r] = Unset] ELSE ents[k]]

AdoptRoute(d, r, caps) ==
    LET freed == Unclaimed(entries, d, r)
        legacy == IF r \in Slots THEN freed[r] ELSE Unset
        entry == IF Has(freed, d) THEN freed[d] ELSE NoEntry
        link == LinkOf(entry, r)
        measured == [link EXCEPT !.caps = IF caps # 0 THEN caps ELSE @]
        indexed == [entry EXCEPT !.links[r] = measured]
    IN  /\ reported' = \/ legacy # Unset \/ freed # entries
                       \/ entry.links[r] = Unset \/ measured # link
        /\ IF legacy = Unset
           THEN entries' = [freed EXCEPT ![d] = indexed] /\ UNCHANGED selected
           ELSE /\ entries' = Repointed([freed EXCEPT ![r] = Unset,
                                             ![d] = Fold(indexed, legacy, r)], r, d)
                /\ selected' = Follow(selected, r, d)

Sight(r, caps) ==
    /\ loaded /\ on[r] # Unset
    /\ AdoptRoute(on[r], r, caps)
    /\ lastSeen' = [lastSeen EXCEPT ![r] = on[r]]
    /\ UNCHANGED <<on, loaded>>

\* set_dpi, under the key the device resolves to; entry().or_default().
SetDpi(r, awake, v) ==
    LET k == IF awake THEN ResolveAwake(entries, r, on[r]) ELSE ResolveAsleep(entries, r)
    IN  /\ loaded /\ on[r] # Unset /\ k # Unset
        /\ entries' = [entries EXCEPT ![k] =
                          [(IF @ = Unset THEN NoEntry ELSE @) EXCEPT !.dpi = v]]
        /\ UNCHANGED <<selected, on, loaded, reported, lastSeen>>

\* Another device takes the cable or is paired into the slot.
Replug(r, d) ==
    /\ on[r] # d /\ on' = [on EXCEPT ![r] = d]
    /\ UNCHANGED <<entries, selected, loaded, reported, lastSeen>>

ConfigNext ==
    \/ Load
    \/ \E r \in Routes : \/ \E caps \in 0..1 : Sight(r, caps)
                         \/ \E d \in Owners : Replug(r, d)
                         \/ \E awake \in BOOLEAN, v \in Values : SetDpi(r, awake, v)

ConfigSpec == ConfigInit /\ [][ConfigNext]_configVars
-----------------------------------------------------------------------------
\* A route indexes one device, and a device that is asleep on a route gets
\* the entry of the one last sighted there (repair_duplicate_routes,
\* adopt_route, resolve_device_key).
SleeperIsKnown ==
    loaded => \A r \in Routes :
        /\ \A k, l \in EntryKeys :
               (Indexes(entries, k, r) /\ Indexes(entries, l, r)) => k = l
        /\ lastSeen[r] # Unset => ResolveAsleep(entries, r) = lastSeen[r]

\* What names an entry follows it when it is consumed (repoint_references).
NamesAnEntry(ents, k) == k # Unset /\ Has(ents, k)
ReferencesFollow ==
    /\ NamesAnEntry(entries, selected) => NamesAnEntry(entries', selected')
    /\ \A k \in EntryKeys :
           (Has(entries, k) /\ Has(entries', k) /\ NamesAnEntry(entries, entries[k].target))
               => NamesAnEntry(entries', entries'[k].target)

\* Adoption changes what a device reads on the adopted route only in favour
\* of a value set for that route, be it in the slot's entry or in the device's
\* link, and on its other routes only where nothing was set; no other device
\* notices (AdoptRoute, fold).
LegacyDpi(r) == IF r \in Slots THEN ReadDpi(entries, r, r) ELSE 0
LegacyInvert(r) == r \in Slots /\ ReadInvert(entries, r, r)
OwnLink(d, r) == IF Has(entries, d) THEN LinkOf(entries[d], r) ELSE NoLink
AdoptionKeepsSettings ==
    \A r \in Routes : (lastSeen' # lastSeen /\ lastSeen'[r] # lastSeen[r]) =>
        LET d == on[r]
            set == {LegacyDpi(r), OwnLink(d, r).dpi} \ {0}
            read == ReadDpi(entries, ResolveAwake(entries, r, d), r)
        IN  /\ ReadDpi(entries', d, r) \in IF set = {} THEN {read} ELSE set
            /\ LegacyInvert(r) /\ OwnLink(d, r).invert # FALSE => ReadInvert(entries', d, r)
            /\ \A q \in Routes \ {r} :
                   /\ ReadDpi(entries, d, q) # 0 => ReadDpi(entries', d, q) = ReadDpi(entries, d, q)
                   /\ \A other \in Owners \ {d} :
                          ReadDpi(entries', other, q) = ReadDpi(entries, other, q)

\* A sighting that changed the configuration says so, or it is never saved
\* (adopt_route's result).
LinksIn(ents) == [k \in EntryKeys |-> IF Has(ents, k) THEN ents[k].links ELSE NoLinks]
ChangesAreReported ==
    (loaded /\ LinksIn(entries') # LinksIn(entries)) => reported'

\* The inductive invariant the proofs use: nothing is keyed by a cable once
\* the file is loaded, a slot's entry has no links, and a route last adopted
\* for a device is among its links.
SettingsInv ==
    /\ ConfigTypes
    /\ loaded => \A k \in Scoped : ~Has(entries, k)
    /\ \A k \in Slots : Has(entries, k) => entries[k].links = NoLinks
    /\ loaded => \A r \in Routes, k, l \in EntryKeys :
           Indexes(entries, k, r) /\ Indexes(entries, l, r) => k = l
    /\ \A r \in Routes : lastSeen[r] # Unset => loaded /\ Indexes(entries, lastSeen[r], r)

\* Settings stay with their devices.
SettingsFollowDevices ==
    /\ []SleeperIsKnown
    /\ [][ReferencesFollow /\ AdoptionKeepsSettings /\ ChangesAreReported]_configVars
=============================================================================
