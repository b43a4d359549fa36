---------------------------- MODULE InventoryProofs ----------------------------
(***************************************************************************)
(* Proofs about what inventory reports: the one-shot scan (OneShotScan) and *)
(* the memory of what devices can do (ProbeCache).                         *)
(***************************************************************************)
EXTENDS OneShotScan, ProbeCache, TLAPS

-----------------------------------------------------------------------------
(***************************************************************************)
(* The scan.                                                               *)
(***************************************************************************)
Pass == [found : SUBSET Expected, healthy : BOOLEAN]

\* One pass more, settled or not: the candidate is what the pass found, when
\* nothing went wrong in it (advance).
LEMMA ScanKeepsInv ==
    ASSUME ScanInv, NEW pass_ \in Pass, Scan(pass_)
    PROVE  ScanInv'
<1> USE AttemptsArePositive
<1>1. /\ passes \in Seq(Pass) /\ attempt \in 1..Attempts /\ Len(passes) = attempt - 1
      /\ returned = "scanning" /\ passes' = Append(passes, pass_)
      /\ candidate # NoCandidate => /\ attempt > 1 /\ passes[attempt - 1].healthy
                                    /\ passes[attempt - 1].found = candidate
    BY DEF ScanInv, Scan, Pass
<1>2. /\ passes' \in Seq(Pass) /\ Len(passes') = attempt /\ passes'[attempt] = pass_
      /\ attempt > 1 => passes'[attempt - 1] = passes[attempt - 1]
                        /\ passes[attempt - 1] \in Pass
    BY <1>1
<1>3. CASE Settled(pass_)
  <2>1. returned' = "returned" /\ attempt' = attempt
    BY <1>3 DEF Scan
  <2>2. CASE Complete(pass_)
    BY <1>1, <1>2, <2>1, <2>2 DEF ScanInv, StopsOnEvidence, Complete, Pass
  <2>3. CASE pass_.healthy /\ candidate = pass_.found
    <3>1. candidate # NoCandidate
      BY <2>3, NoCandidateIsNoSnapshot DEF Pass
    <3>2. attempt > 1 /\ passes'[attempt - 1] = pass_
      BY <1>1, <1>2, <2>3, <3>1 DEF Pass
    <3> QED
      BY <1>1, <1>2, <2>1, <2>3, <3>2 DEF ScanInv, StopsOnEvidence, Pass
  <2>4. CASE attempt >= Attempts
    BY <1>1, <1>2, <2>1, <2>4 DEF ScanInv, StopsOnEvidence, Pass
  <2> QED
    BY <1>3, <2>2, <2>3, <2>4 DEF Settled
<1>4. CASE ~Settled(pass_)
  <2>1. /\ returned' = "scanning" /\ candidate' = Candidate(pass_)
        /\ attempt' = attempt + 1 /\ attempt < Attempts
    BY <1>1, <1>4 DEF Scan, Settled
  <2>2. candidate' # NoCandidate => pass_.healthy /\ pass_.found = candidate'
    BY <2>1 DEF Candidate
  <2> QED
    BY <1>1, <1>2, <2>1, <2>2 DEF ScanInv, StopsOnEvidence, Pass
<1> QED
  BY <1>3, <1>4

\* The scan's invariant.
THEOREM ScanInvHolds == ScanSpec => []ScanInv
<1>1. ScanInit => ScanInv
  BY AttemptsArePositive DEF ScanInit, ScanInv, StopsOnEvidence
<1>2. ScanInv /\ [ScanNext]_scanVars => ScanInv'
  <2> SUFFICES ASSUME ScanInv, [ScanNext]_scanVars PROVE ScanInv'
    OBVIOUS
  <2>1. CASE \E found \in SUBSET Expected, healthy \in BOOLEAN :
                 Scan([found |-> found, healthy |-> healthy])
    BY <2>1, ScanKeepsInv DEF Pass
  <2>2. CASE ScanError
    BY <2>2 DEF ScanInv, ScanError, StopsOnEvidence
  <2>3. CASE UNCHANGED scanVars
    BY <2>3 DEF ScanInv, scanVars, StopsOnEvidence, Complete
  <2> QED
    BY <2>1, <2>2, <2>3 DEF ScanNext
<1> QED
  BY <1>1, <1>2, PTL DEF ScanSpec

\* However passes succeed, fail and differ, the scan stops early only on a
\* complete pass or on two healthy ones in a row that agree, and at the last
\* attempt otherwise.
THEOREM ScanStopsOnEvidence == ScanSpec => []StopsOnEvidence
<1>1. ScanInv => StopsOnEvidence
  BY DEF ScanInv
<1> QED
  BY <1>1, ScanInvHolds, PTL
-----------------------------------------------------------------------------
(***************************************************************************)
(* What a probe reads.                                                     *)
(***************************************************************************)
Answers == [lost : SUBSET {"walk", "panel", "wheel", "model", "serial", "name", "battery"},
            charging : BOOLEAN]

LEMMA LossesAreAnswers == Losses \subseteq Answers
BY DEF Losses, Answers

\* The facts an entry holds, one by one.
LEMMA FactsOneByOne ==
    ASSUME NEW d \in Devices, NEW probe \in Probes
    PROVE  /\ FactsOf(d, probe) \subseteq Facts
           /\ "panel" \in FactsOf(d, probe) <=> probe.panel /\ probe.caps = d
           /\ "wheel" \in FactsOf(d, probe) <=> probe.wheel /\ probe.caps = d
           /\ "model" \in FactsOf(d, probe) <=> probe.model = d
           /\ "serial" \in FactsOf(d, probe) <=> probe.serial = d
           /\ "name" \in FactsOf(d, probe) <=> probe.name = d
BY DEF FactsOf, Facts, Probes

LEMMA KeepsOneByOne ==
    ASSUME CacheTypes, NEW d \in Devices, NEW probe \in Probes
    PROVE  KeepsKnown(d, probe) <=>
               /\ "panel" \in known[d] => probe.panel /\ probe.caps = d
               /\ "model" \in known[d] => probe.model = d
               /\ "serial" \in known[d] => probe.serial = d
               /\ "name" \in known[d] => probe.name = d
<1>1. known[d] \in SUBSET Facts
  BY DEF CacheTypes
<1>2. KeepsKnown(d, probe) <=> \A f \in {"panel", "model", "serial", "name"} :
                                  f \in known[d] => f \in FactsOf(d, probe)
  BY <1>1 DEF KeepsKnown, Facts
<1> QED
  BY <1>2, FactsOneByOne

\* A reading is a battery's level or nothing (read_battery).
LEMMA ReadingType ==
    ASSUME NEW d, NEW r, NEW before \in {None, 0, 1}
    PROVE  Reading(d, r, before) \in {None, 0, 1}
BY DEF Reading

\* What a walk yields is about the device walked (probe_features).
LEMMA ProbedIsOwn ==
    ASSUME NEW d \in Devices, NEW r \in Answers, NEW before \in Probes \cup {None}
    PROVE  LET probe == Probed(d, r, before)
           IN  /\ probe \in Probes /\ ReadFrom(d, probe)
               /\ probe.caps # None =>
                      /\ probe.caps = d
                      /\ probe.model = None => probe.identityIncomplete
                      /\ probe.serial = None /\ "serial" \in Traits(d)
                             => probe.identityIncomplete
                      /\ ~probe.panel /\ "panel" \in Traits(d) => probe.capabilitiesIncomplete
<1> DEFINE held == IF before = None THEN None ELSE before.battery
           probe == Probed(d, r, before)
<1>1. held \in {None, 0, 1}
  BY DEF Probes
<1>2. Reading(d, r, held) \in {None, 0, 1}
  BY <1>1, ReadingType
<1>3. CASE ~Got(r, "walk")
  <2>1. probe = NoProbe
    BY <1>3 DEF Probed
  <2> QED
    BY <2>1 DEF NoProbe, Probes, ReadFrom
<1>4. CASE Got(r, "walk")
  <2> DEFINE walk == Walked(d, r)
  <2>1. probe = [walk EXCEPT !.battery = Reading(d, r, held)]
    BY <1>4 DEF Probed
  <2>2. walk \in Probes
    BY DEF Walked, Probes
  <2>3. /\ probe \in Probes /\ probe.caps = walk.caps /\ probe.panel = walk.panel
        /\ probe.model = walk.model /\ probe.serial = walk.serial /\ probe.name = walk.name
        /\ probe.identityIncomplete = walk.identityIncomplete
        /\ probe.capabilitiesIncomplete = walk.capabilitiesIncomplete
    BY <1>2, <2>1, <2>2 DEF Probes
  <2> HIDE DEF walk, probe
  <2>4. /\ walk.caps = d /\ walk.panel = ("panel" \in Traits(d) /\ Got(r, "panel"))
        /\ walk.model = IF Got(r, "model") THEN d ELSE None
        /\ walk.serial = IF Got(r, "model") /\ Got(r, "serial") /\ "serial" \in Traits(d)
                         THEN d ELSE None
        /\ walk.name = IF Got(r, "name") THEN d ELSE None
        /\ walk.identityIncomplete
               = (~Got(r, "model") \/ ("serial" \in Traits(d) /\ ~Got(r, "serial")))
        /\ walk.capabilitiesIncomplete = ("panel" \in Traits(d) /\ ~Got(r, "panel"))
    BY DEF Walked, walk
  <2>5. ReadFrom(d, probe)
    BY <2>3, <2>4, NoneIsNothing DEF ReadFrom
  <2>6. probe.caps = d /\ (probe.model = None => probe.identityIncomplete)
    BY <2>3, <2>4, NoneIsNothing
  <2>7. probe.serial = None /\ "serial" \in Traits(d) => probe.identityIncomplete
    BY <2>3, <2>4, NoneIsNothing
  <2>8. ~probe.panel /\ "panel" \in Traits(d) => probe.capabilitiesIncomplete
    BY <2>3, <2>4
  <2> QED
    BY <2>3, <2>5, <2>6, <2>7, <2>8 DEF probe
<1> QED
  BY <1>3, <1>4

\* Filling in from the entry what a walk did not get keeps all but the panel
\* (backfill_identity).
LEMMA BackfilledKeeps ==
    ASSUME CacheTypes, NEW d \in Devices, NEW fresh \in Probes, NEW before \in Probes,
           ReadFrom(d, fresh), ReadFrom(d, before), KeepsKnown(d, before),
           fresh.caps = d,
           fresh.model = None => fresh.identityIncomplete,
           fresh.serial = None /\ "serial" \in Traits(d) => fresh.identityIncomplete
    PROVE  LET new == Backfilled(fresh, before)
           IN  /\ new \in Probes /\ ReadFrom(d, new)
               /\ new.caps = d /\ new.panel = fresh.panel
               /\ new.capabilitiesIncomplete = fresh.capabilitiesIncomplete
               /\ "model" \in known[d] => new.model = d
               /\ "serial" \in known[d] => new.serial = d
               /\ "name" \in known[d] => new.name = d
<1> DEFINE new == Backfilled(fresh, before)
<1>1. /\ new \in Probes /\ new.caps = fresh.caps /\ new.panel = fresh.panel
      /\ new.capabilitiesIncomplete = fresh.capabilitiesIncomplete
      /\ new.name = IF fresh.name = None THEN before.name ELSE fresh.name
      /\ new.model = IF fresh.identityIncomplete /\ fresh.model = None /\ before.model # None
                     THEN before.model ELSE fresh.model
      /\ new.serial = IF fresh.identityIncomplete
                      THEN IF fresh.model = None /\ before.model # None
                           THEN before.serial
                           ELSE IF fresh.model # None /\ fresh.serial = None
                                   /\ before.serial # None
                                THEN before.serial ELSE fresh.serial
                      ELSE fresh.serial
  BY ZenonT(60) DEF Backfilled, Probes
<1> HIDE DEF new
<1>2. /\ "model" \in known[d] => before.model = d
      /\ "serial" \in known[d] => before.serial = d
      /\ "name" \in known[d] => before.name = d
  BY KeepsOneByOne
<1>3. {fresh.model, fresh.serial, fresh.name, before.model, before.serial, before.name}
          \subseteq {d, None}
  BY DEF ReadFrom
<1>4. d # None
  BY NoneIsNothing
<1>5. ReadFrom(d, new)
  BY <1>1, <1>3, <1>4 DEF ReadFrom
<1>6. "model" \in known[d] => new.model = d
  BY <1>1, <1>2, <1>3, <1>4
<1>7. "serial" \in known[d] => new.serial = d
  BY <1>1, <1>2, <1>3, <1>4 DEF ReadFrom
<1>8. "name" \in known[d] => new.name = d
  BY <1>1, <1>2, <1>3, <1>4
<1> QED
  BY <1>1, <1>5, <1>6, <1>7, <1>8 DEF new

\* What a probe serves and what it writes down, of the device d under the key
\* k: a device's own key is d, and any other key is a place.
Sound(d, k, result) ==
    /\ result[1] \in Probes
    /\ result[2].kind \in {"fresh", "update", "seen"} /\ result[2].key = k
    /\ result[2].probe \in Probes
    /\ k = d => /\ KeepsKnown(d, result[1])
                /\ result[2].kind # "seen" =>
                       ReadFrom(d, result[2].probe) /\ KeepsKnown(d, result[2].probe)
    /\ result[2].kind = "update" =>
           /\ cache[k] # None
           /\ [result[2].probe EXCEPT !.battery = None] = [cache[k] EXCEPT !.battery = None]

LEMMA NoProbeIsAProbe == NoProbe \in Probes
BY DEF NoProbe, Probes

\* The two outcomes of a probe, in terms of what is served and written down.
LEMMA SeenIsSound ==
    ASSUME NEW d, NEW k, NEW probe \in Probes, k = d => KeepsKnown(d, probe)
    PROVE  Sound(d, k, <<probe, Seen(k)>>)
BY NoProbeIsAProbe DEF Sound, Seen

LEMMA FreshIsSound ==
    ASSUME NEW d, NEW k, NEW probe \in Probes,
           k = d => ReadFrom(d, probe) /\ KeepsKnown(d, probe)
    PROVE  Sound(d, k, <<probe, Fresh(k, probe)>>)
BY DEF Sound, Fresh

\* A probe that is run keeps what is known of the device: what it did not get
\* is filled in, or it is not written down (probe_or_reuse).
LEMMA ReprobeIsSound ==
    ASSUME CacheTypes, EntriesAreOwn, NEW d \in Devices, NEW k, NEW r \in Answers,
           k \in CacheKeys \cup {None}, k \in Devices => k = d
    PROVE  LET before == IF k = None THEN None ELSE cache[k]
           IN  Sound(d, k, Reprobe(d, k, before, r))
<1> DEFINE before == IF k = None THEN None ELSE cache[k]
           read == Probed(d, r, before)
           fresh == IF before = None THEN read ELSE Backfilled(read, before)
<1>1. before \in Probes \cup {None}
  BY DEF CacheTypes, CacheKeys
<1>2. k = d => IF before = None THEN known[d] = {}
               ELSE ReadFrom(d, before) /\ KeepsKnown(d, before)
  BY NoneIsNothing DEF EntriesAreOwn
<1>3. /\ read \in Probes /\ ReadFrom(d, read)
      /\ read.caps # None =>
             /\ read.caps = d
             /\ read.model = None => read.identityIncomplete
             /\ read.serial = None /\ "serial" \in Traits(d) => read.identityIncomplete
             /\ ~read.panel /\ "panel" \in Traits(d) => read.capabilitiesIncomplete
  BY <1>1, ProbedIsOwn
<1>4. fresh \in Probes
  <2>1. CASE before = None
    BY <1>3, <2>1
  <2>2. CASE before # None
    <3>1. before \in Probes /\ read \in Probes
      BY <1>1, <1>3, <2>2
    <3> HIDE DEF before, read
    <3>2. Backfilled(read, before) \in Probes
      <4> DEFINE named == [read EXCEPT !.name = IF @ = None THEN before.name ELSE @]
      <4>1. named \in Probes
        BY <3>1 DEF Probes
      <4> HIDE DEF named
      <4>2. [named EXCEPT !.serial = before.serial, !.identityIncomplete = FALSE] \in Probes
        BY <3>1, <4>1 DEF Probes
      <4>3. [named EXCEPT !.model = before.model, !.serial = before.serial,
                          !.identityIncomplete = FALSE] \in Probes
        BY <3>1, <4>1 DEF Probes
      <4> QED
        BY <4>1, <4>2, <4>3 DEF Backfilled, named
    <3> QED
      BY <2>2, <3>2
  <2> QED
    BY <2>1, <2>2
<1>5. k = d /\ before = None => \A probe \in Probes : KeepsKnown(d, probe)
  BY <1>2 DEF KeepsKnown
<1>6. k = d /\ before # None /\ read.caps # None =>
         /\ ReadFrom(d, fresh) /\ fresh.caps = d /\ fresh.panel = read.panel
         /\ fresh.capabilitiesIncomplete = read.capabilitiesIncomplete
         /\ "model" \in known[d] => fresh.model = d
         /\ "serial" \in known[d] => fresh.serial = d
         /\ "name" \in known[d] => fresh.name = d
  <2> SUFFICES ASSUME k = d, before # None, read.caps # None
               PROVE  /\ ReadFrom(d, fresh) /\ fresh.caps = d /\ fresh.panel = read.panel
                      /\ fresh.capabilitiesIncomplete = read.capabilitiesIncomplete
                      /\ "model" \in known[d] => fresh.model = d
                      /\ "serial" \in known[d] => fresh.serial = d
                      /\ "name" \in known[d] => fresh.name = d
    OBVIOUS
  <2>1. /\ read \in Probes /\ before \in Probes /\ ReadFrom(d, read) /\ ReadFrom(d, before)
        /\ KeepsKnown(d, before) /\ read.caps = d
        /\ read.model = None => read.identityIncomplete
        /\ read.serial = None /\ "serial" \in Traits(d) => read.identityIncomplete
    BY <1>1, <1>2, <1>3
  <2>2. fresh = Backfilled(read, before)
    OBVIOUS
  <2> HIDE DEF read, before, fresh
  <2> QED
    BY <2>1, <2>2, BackfilledKeeps
<1>7. Reprobe(d, k, before, r) =
        IF read.caps = None
        THEN <<IF before = None THEN read ELSE before, Seen(k)>>
        ELSE IF fresh.identityIncomplete /\ before = None THEN <<fresh, Seen(k)>>
        ELSE IF fresh.capabilitiesIncomplete
        THEN <<IF before = None THEN fresh ELSE Deferring(fresh, before), Seen(k)>>
        ELSE <<fresh, Fresh(k, fresh)>>
  BY DEF Reprobe
<1>8. before = None => fresh = read
  OBVIOUS
<1> HIDE DEF before, read, fresh
<1>9. CASE read.caps = None \/ (fresh.identityIncomplete /\ before = None)
           \/ (fresh.capabilitiesIncomplete /\ before = None)
  <2>1. PICK probe \in Probes : /\ Reprobe(d, k, before, r) = <<probe, Seen(k)>>
                                /\ probe = before \/ before = None
    BY <1>1, <1>3, <1>4, <1>7, <1>9
  <2>2. k = d => KeepsKnown(d, probe)
    BY <1>2, <1>5, <2>1
  <2> QED
    BY <2>1, <2>2, SeenIsSound DEF before
<1>10. CASE read.caps # None /\ before # None /\ fresh.capabilitiesIncomplete
  <2> DEFINE kept == Deferring(fresh, before)
  <2>1. /\ kept \in Probes /\ kept.caps = before.caps /\ kept.panel = before.panel
        /\ kept.model = fresh.model /\ kept.serial = fresh.serial /\ kept.name = fresh.name
    BY <1>1, <1>4, <1>10 DEF Deferring, Probes
  <2>2. Reprobe(d, k, before, r) = <<kept, Seen(k)>>
    BY <1>7, <1>10
  <2> HIDE DEF kept
  <2>3. k = d => KeepsKnown(d, kept)
    BY ZenonT(60), <1>1, <1>2, <1>6, <1>10, <2>1, KeepsOneByOne
  <2> QED
    BY <2>1, <2>2, <2>3, SeenIsSound DEF before
<1>11. CASE /\ read.caps # None /\ ~fresh.capabilitiesIncomplete
            /\ ~(fresh.identityIncomplete /\ before = None)
  <2>1. Reprobe(d, k, before, r) = <<fresh, Fresh(k, fresh)>>
    BY <1>7, <1>11
  <2>2. k = d => ReadFrom(d, fresh)
    BY <1>3, <1>6, <1>8, <1>11
  <2>3. k = d /\ before # None => KeepsKnown(d, fresh)
    <3> SUFFICES ASSUME k = d, before # None PROVE KeepsKnown(d, fresh)
      OBVIOUS
    <3>1. KeepsKnown(d, before) /\ ReadFrom(d, before) /\ before \in Probes
      BY <1>1, <1>2
    <3>2. "panel" \in known[d] => "panel" \in Traits(d)
      BY <3>1, KeepsOneByOne DEF ReadFrom
    <3>3. "panel" \in known[d] => fresh.panel /\ fresh.caps = d
      BY <1>3, <1>6, <1>11, <3>2
    <3> QED
      BY <1>4, <1>6, <1>11, <3>3, KeepsOneByOne
  <2>4. k = d => KeepsKnown(d, fresh)
    BY <1>4, <1>5, <2>3
  <2> QED
    BY <1>4, <2>1, <2>2, <2>4, FreshIsSound DEF before
<1> QED
  BY <1>9, <1>10, <1>11 DEF before

\* A hit serves the entry, and writes down no more than a new reading.
LEMMA ReuseIsSound ==
    ASSUME CacheTypes, EntriesAreOwn, NEW d \in Devices, NEW k, NEW r \in Answers,
           NEW online \in BOOLEAN,
           k \in CacheKeys \cup {None}, k \in Devices => k = d
    PROVE  LET before == IF k = None THEN None ELSE cache[k]
           IN  Sound(d, k, Reuse(d, k, before, online, r))
<1> DEFINE before == IF k = None THEN None ELSE cache[k]
<1>1. before \in Probes \cup {None}
  BY DEF CacheTypes, CacheKeys
<1>2. k = d => IF before = None THEN known[d] = {}
               ELSE ReadFrom(d, before) /\ KeepsKnown(d, before)
  BY NoneIsNothing DEF EntriesAreOwn
<1>3. CASE before = None
  <2>1. Reuse(d, k, before, online, r) = <<NoProbe, Seen(k)>>
    BY <1>3 DEF Reuse
  <2>2. k = d => KeepsKnown(d, NoProbe)
    BY <1>2, <1>3 DEF KeepsKnown
  <2> QED
    BY <2>1, <2>2, NoProbeIsAProbe, SeenIsSound
<1>4. CASE before # None
  <2> DEFINE now == IF online /\ Got(r, "walk") THEN Reading(d, r, before.battery) ELSE None
             new == [before EXCEPT !.battery = now]
  <2>0. before \in Probes /\ k # None /\ before = cache[k]
    BY <1>1, <1>4
  <2>1. Reuse(d, k, before, online, r) =
          IF now = None \/ k = None THEN <<before, Seen(k)>> ELSE <<new, Update(k, new)>>
    BY <1>4 DEF Reuse
  <2>2. before.battery \in {None, 0, 1}
    BY <2>0 DEF Probes
  <2>3. now \in {None, 0, 1}
    BY <2>2, ReadingType
  <2>4. k = d => KeepsKnown(d, before) /\ ReadFrom(d, before)
    BY <1>2, <1>4
  <2> HIDE DEF before, now
  <2>5. CASE now = None
    BY <2>0, <2>1, <2>4, <2>5, SeenIsSound DEF before
  <2>6. CASE now # None
    <3>1. /\ new \in Probes /\ new.caps = before.caps /\ new.panel = before.panel
          /\ new.model = before.model /\ new.serial = before.serial /\ new.name = before.name
          /\ [new EXCEPT !.battery = None] = [before EXCEPT !.battery = None]
      BY <2>0, <2>3 DEF Probes
    <3>2. Reuse(d, k, before, online, r) = <<new, Update(k, new)>>
      BY <2>0, <2>1, <2>6
    <3> HIDE DEF new
    <3>3. k = d => KeepsKnown(d, new)
      BY <2>0, <2>4, <3>1, KeepsOneByOne
    <3>4. k = d => ReadFrom(d, new)
      BY <2>4, <3>1 DEF ReadFrom
    <3>5. cache[k] # None /\ [new EXCEPT !.battery = None] = [cache[k] EXCEPT !.battery = None]
      BY <1>4, <2>0, <3>1
    <3>6. Sound(d, k, <<new, Update(k, new)>>)
      BY <3>1, <3>3, <3>4, <3>5 DEF Sound, Update
    <3> QED
      BY <3>2, <3>6 DEF before
  <2> QED
    BY <2>5, <2>6
<1> QED
  BY <1>3, <1>4
-----------------------------------------------------------------------------
(***************************************************************************)
(* The steps of a pass.                                                    *)
(***************************************************************************)

\* What is served keeps what is known: all there is to show of it when the
\* place is a Bolt slot (KnownStaysKnown, spelt with KeepsKnown).
LEMMA ServedKeeps ==
    KnownStaysKnown <=> (served # None /\ Kind(served.place) = "bolt" =>
                             KeepsKnown(served.device, served.probe))
BY DEF KnownStaysKnown, KeepsKnown

LEMMA StartKeepsInv == CacheInv /\ StartPass => CacheInv'
BY DEF CacheInv, StartPass, CacheTypes, EntriesAreOwn, StoreIsOwn, OutcomesAreOwn,
       Persisted, KnownStaysKnown, KeepsKnown

LEMMA MissKeepsInv == ASSUME CacheInv, NEW p \in Places, MissPlace(p) PROVE CacheInv'
BY DEF CacheInv, MissPlace, CacheTypes, EntriesAreOwn, StoreIsOwn, OutcomesAreOwn,
       Persisted, KnownStaysKnown, KeepsKnown

LEMMA AgeKeepsInv == CacheInv /\ Age => CacheInv'
BY DEF CacheInv, Age, CacheTypes, EntriesAreOwn, StoreIsOwn, OutcomesAreOwn,
       Persisted, KnownStaysKnown, KeepsKnown

LEMMA OccupyKeepsInv ==
    ASSUME CacheInv, NEW p \in Places, NEW d \in Devices \cup {None}, Occupy(p, d)
    PROVE  CacheInv'
<1>1. occupant' \in [Places -> Devices \cup {None}] /\ moves' \in 0..MaxMoves
  BY MovesAreCounted DEF CacheInv, CacheTypes, Occupy
<1>2. UNCHANGED <<cache, stale, misses, dirty, disk, pass, todo, outcomes, served, known>>
  BY DEF Occupy
<1> QED
  BY <1>1, <1>2 DEF CacheInv, CacheTypes, EntriesAreOwn, StoreIsOwn, OutcomesAreOwn,
                    Persisted, KnownStaysKnown, KeepsKnown

\* A probe of one place.
LEMMA ProbeKeepsInv ==
    ASSUME CacheInv, NEW p \in Places, NEW online \in BOOLEAN, NEW r \in Losses,
           ProbePlace(p, online, r)
    PROVE  CacheInv'
<1> DEFINE d == occupant[p]
           k == KeyOf(p)
           before == IF k = None THEN None ELSE cache[k]
           result == ProbeOrReuse(d, k, online, r)
           probe == result[1]
           gone == Kind(p) = "direct" /\ (probe.caps = None \/ Rejected(p, d, probe))
<1>1. d \in Devices /\ r \in Answers
  BY LossesAreAnswers DEF CacheInv, CacheTypes, ProbePlace
<1>2. /\ k \in CacheKeys \cup {None}
      /\ k \in Devices => k = d /\ "unit" \in Traits(d) /\ Kind(p) = "bolt"
      /\ Kind(p) = "bolt" /\ k # d => k = None /\ "unit" \notin Traits(d)
  BY <1>1, PlacesAreNoDevices, NoneIsNothing DEF KeyOf, CacheKeys
<1>3. Sound(d, k, result)
  <2>1. result \in {Reprobe(d, k, before, r), Reuse(d, k, before, online, r)}
    BY DEF ProbeOrReuse
  <2>2. CacheTypes /\ EntriesAreOwn
    BY DEF CacheInv
  <2>3. Sound(d, k, Reprobe(d, k, before, r))
    BY <1>1, <1>2, <2>2, ReprobeIsSound
  <2>4. Sound(d, k, Reuse(d, k, before, online, r))
    BY <1>1, <1>2, <2>2, ReuseIsSound
  <2> HIDE DEF d, k, before, result
  <2> QED
    BY <2>1, <2>3, <2>4
<1>4. /\ outcomes' = IF k = None \/ (gone /\ probe.caps # None) THEN outcomes
                     ELSE outcomes \cup {IF gone THEN Seen(p) ELSE result[2]}
      /\ served' = IF gone THEN None ELSE [place |-> p, device |-> d, probe |-> probe]
      /\ pass = "probing" /\ todo' = todo \ {p}
      /\ UNCHANGED <<occupant, cache, stale, misses, dirty, disk, pass, moves, known>>
  BY DEF ProbePlace
<1> HIDE DEF d, k, before, result, probe, gone
<1>5. \A o \in outcomes' : o \in outcomes \/ (k # None /\ (o = result[2] \/ o = Seen(p)))
  BY <1>4
<1>6. OutcomesAreOwn'
  <2> SUFFICES ASSUME NEW o \in outcomes'
               PROVE  /\ o.kind \in {"fresh", "update", "seen"} /\ o.key \in CacheKeys
                      /\ o.probe \in Probes
                      /\ o.kind # "seen" /\ o.key \in Devices =>
                             /\ ReadFrom(o.key, o.probe) /\ "unit" \in Traits(o.key)
                             /\ KeepsKnown(o.key, o.probe)
                      /\ o.kind = "update" =>
                             /\ cache[o.key] # None
                             /\ [o.probe EXCEPT !.battery = None]
                                   = [cache[o.key] EXCEPT !.battery = None]
    BY <1>4 DEF OutcomesAreOwn, KeepsKnown
  <2>1. CASE o \in outcomes
    BY <1>4, <2>1 DEF CacheInv, OutcomesAreOwn
  <2>2. CASE o = Seen(p)
    BY <2>2, NoProbeIsAProbe DEF Seen, CacheKeys
  <2>3. CASE o = result[2] /\ k # None
    BY <1>2, <1>3, <2>3 DEF Sound
  <2> QED
    BY <1>5, <2>1, <2>2, <2>3
<1>7. (served # None /\ Kind(served.place) = "bolt" =>
           KeepsKnown(served.device, served.probe))'
  <2> SUFFICES ASSUME ~gone, Kind(p) = "bolt" PROVE KeepsKnown(d, probe)
    BY <1>4 DEF KeepsKnown
  <2>1. CASE k = d
    BY <1>3, <2>1 DEF Sound, probe
  <2>2. CASE k # d
    <3>1. "unit" \notin Traits(d)
      BY <1>2, <2>2
    <3>2. known[d] = {}
      BY <1>1, <3>1 DEF CacheInv, EntriesAreOwn
    <3> QED
      BY <3>2 DEF KeepsKnown
  <2> QED
    BY <2>1, <2>2
<1>8. CacheTypes'
  <2>1. \A o \in outcomes' : o.key \in CacheKeys
    BY <1>6 DEF OutcomesAreOwn
  <2>2. served' = None \/ (served'.place \in Places /\ served'.device \in Devices)
    BY <1>1, <1>4
  <2>3. todo' \subseteq Places
    BY <1>4 DEF CacheInv, CacheTypes
  <2> QED
    BY <1>4, <2>1, <2>2, <2>3 DEF CacheInv, CacheTypes
<1>9. EntriesAreOwn' /\ StoreIsOwn' /\ (~dirty => disk = Persisted)'
  BY <1>4 DEF CacheInv, EntriesAreOwn, StoreIsOwn, Persisted, KeepsKnown
<1>10. KnownStaysKnown'
  BY <1>7 DEF KnownStaysKnown, KeepsKnown
<1> QED
  BY <1>6, <1>8, <1>9, <1>10 DEF CacheInv

\* The end of the probing: what was written down becomes the cache's.
LEMMA ApplyKeepsInv == ASSUME CacheInv, Apply PROVE CacheInv'
<1> DEFINE valued == {o \in outcomes : o.kind # "seen"}
           walked == {o.key : o \in {u \in outcomes : u.kind = "fresh"}}
           Chosen(k) == CHOOSE o \in valued : o.key = k
           Valued(k) == \E o \in valued : o.key = k
<1>1. /\ cache' = [k \in CacheKeys |-> IF Valued(k) THEN Chosen(k).probe ELSE cache[k]]
      /\ stale' = stale \ walked
      /\ dirty' = (dirty \/ walked \cap Persistable # {})
      /\ known' = [d \in Devices |-> IF Valued(d)
                                     THEN known[d] \cup FactsOf(d, Chosen(d).probe)
                                     ELSE known[d]]
      /\ pass = "probing" /\ pass' = "applying" /\ served' = None
      /\ UNCHANGED <<occupant, misses, disk, todo, outcomes, moves>>
  BY DEF Apply
<1>2. CacheTypes /\ EntriesAreOwn /\ StoreIsOwn /\ OutcomesAreOwn
      /\ (~dirty => disk = Persisted)
  BY DEF CacheInv
<1>3. ASSUME NEW k \in CacheKeys, Valued(k)
      PROVE  /\ Chosen(k) \in outcomes /\ Chosen(k).kind \in {"fresh", "update"}
             /\ Chosen(k).key = k /\ Chosen(k).probe \in Probes
  <2>1. Chosen(k) \in valued /\ Chosen(k).key = k
    BY <1>3
  <2> HIDE DEF Chosen
  <2> QED
    BY <1>2, <2>1 DEF OutcomesAreOwn
<1> HIDE DEF Chosen
<1>4. \A d \in Devices : d \in CacheKeys
  BY DEF CacheKeys
<1>5. ASSUME NEW d \in Devices, Valued(d)
      PROVE  /\ cache'[d] \in Probes /\ ReadFrom(d, cache'[d]) /\ "unit" \in Traits(d)
             /\ known'[d] \ {"wheel"} \subseteq FactsOf(d, cache'[d])
  <2>1. /\ Chosen(d).probe \in Probes /\ ReadFrom(d, Chosen(d).probe) /\ "unit" \in Traits(d)
        /\ KeepsKnown(d, Chosen(d).probe)
    BY <1>1, <1>2, <1>3, <1>4, <1>5 DEF OutcomesAreOwn
  <2>2. cache'[d] = Chosen(d).probe /\ known'[d] = known[d] \cup FactsOf(d, Chosen(d).probe)
    BY <1>1, <1>4, <1>5
  <2> QED
    BY <2>1, <2>2 DEF KeepsKnown
<1>6. ASSUME NEW d \in Devices, ~Valued(d)
      PROVE  cache'[d] = cache[d] /\ known'[d] = known[d]
  BY <1>1, <1>4, <1>6
<1>7. cache' \in [CacheKeys -> Probes \cup {None}]
  BY <1>1, <1>2, <1>3 DEF CacheTypes
<1>8. known' \in [Devices -> SUBSET Facts]
  <2>1. \A d \in Devices : known[d] \in SUBSET Facts /\ FactsOf(d, Chosen(d).probe) \in SUBSET Facts
    BY <1>2 DEF CacheTypes, FactsOf
  <2> QED
    BY <1>1, <2>1
<1>9. CacheTypes'
  BY <1>1, <1>2, <1>7, <1>8 DEF CacheTypes
<1>10. EntriesAreOwn'
  <2> SUFFICES ASSUME NEW d \in Devices
               PROVE  IF cache'[d] = None THEN known'[d] = {}
                      ELSE /\ ReadFrom(d, cache'[d]) /\ "unit" \in Traits(d)
                           /\ known'[d] \ {"wheel"} \subseteq FactsOf(d, cache'[d])
    BY DEF EntriesAreOwn, KeepsKnown
  <2>1. CASE Valued(d)
    BY <1>5, <2>1, NoneIsNoProbe
  <2>2. CASE ~Valued(d)
    BY <1>2, <1>6, <2>2 DEF EntriesAreOwn, KeepsKnown
  <2> QED
    BY <2>1, <2>2
<1>11. (~dirty => disk = Persisted)'
  <2> SUFFICES ASSUME ~dirty' PROVE disk' = Persisted'
    OBVIOUS
  <2>1. ~dirty /\ walked \cap Devices = {} /\ disk' = disk /\ disk = Persisted
    BY <1>1, <1>2 DEF Persistable
  <2>2. \A d \in Devices : (cache'[d] = None <=> cache[d] = None)
            /\ (cache[d] # None => [cache'[d] EXCEPT !.battery = None]
                                     = [cache[d] EXCEPT !.battery = None])
    <3> TAKE d \in Devices
    <3>1. CASE Valued(d)
      <4>1. Chosen(d).kind = "update"
        BY <1>3, <1>4, <2>1, <3>1
      <4>2. /\ cache[d] # None
            /\ [Chosen(d).probe EXCEPT !.battery = None] = [cache[d] EXCEPT !.battery = None]
        BY <1>1, <1>2, <1>3, <1>4, <3>1, <4>1 DEF OutcomesAreOwn
      <4>3. cache'[d] = Chosen(d).probe /\ cache'[d] # None
        BY SMTT(90), <1>1, <1>4, <1>5, <3>1, NoneIsNoProbe
      <4> QED
        BY <4>2, <4>3
    <3>2. CASE ~Valued(d)
      BY <1>6, <3>2
    <3> QED
      BY <3>1, <3>2
  <2> QED
    BY <2>1, <2>2 DEF Persisted, Persistable
<1>12. StoreIsOwn' /\ OutcomesAreOwn' /\ KnownStaysKnown'
  BY <1>1, <1>2 DEF StoreIsOwn, OutcomesAreOwn, KnownStaysKnown
<1> QED
  BY <1>9, <1>10, <1>11, <1>12 DEF CacheInv

\* What a save writes fits the store.
PersistedIsOwn ==
    \A k \in CacheKeys : Persisted[k] # None =>
        k \in Devices /\ Persisted[k].battery = None /\ ReadFrom(k, Persisted[k])
                     /\ "unit" \in Traits(k)

LEMMA PersistedFits ==
    ASSUME CacheTypes, EntriesAreOwn
    PROVE  Persisted \in [CacheKeys -> Probes \cup {None}] /\ PersistedIsOwn
<1> DEFINE bare(k) == [cache[k] EXCEPT !.battery = None]
<1>1. \A k \in CacheKeys : k \in Devices /\ cache[k] # None =>
        /\ bare(k) \in Probes /\ bare(k).battery = None /\ bare(k).caps = cache[k].caps
        /\ bare(k).panel = cache[k].panel /\ bare(k).model = cache[k].model
        /\ bare(k).serial = cache[k].serial /\ bare(k).name = cache[k].name
  BY DEF CacheTypes, Probes
<1>2. \A k \in CacheKeys : Persisted[k] = IF k \in Devices /\ cache[k] # None THEN bare(k) ELSE None
  BY DEF Persisted, Persistable
<1> HIDE DEF bare
<1>3. Persisted \in [CacheKeys -> Probes \cup {None}]
  <2>1. Persisted = [k \in CacheKeys |-> IF k \in Devices /\ cache[k] # None THEN bare(k) ELSE None]
    BY DEF Persisted, Persistable, bare
  <2> QED
    BY <1>1, <2>1
<1>4. PersistedIsOwn
  BY <1>1, <1>2 DEF PersistedIsOwn, EntriesAreOwn, ReadFrom
<1> QED
  BY <1>3, <1>4

\* Entries not seen in a pass age, and are dropped in the end.
LEMMA EvictKeepsInv == ASSUME CacheInv, Evict PROVE CacheInv'
<1> DEFINE missing == {k \in CacheKeys : cache[k] # None /\ \A o \in outcomes : o.key # k}
           evicted == {k \in missing : misses[k] = Grace}
<1>1. /\ cache' = [k \in CacheKeys |-> IF k \in evicted THEN None ELSE cache[k]]
      /\ misses' = [k \in CacheKeys |-> IF k \in missing \ evicted THEN misses[k] + 1
                                       ELSE IF k \in evicted \/ \E o \in outcomes : o.key = k
                                       THEN 0 ELSE misses[k]]
      /\ stale' = stale \ evicted
      /\ dirty' = (dirty \/ evicted \cap Persistable # {})
      /\ known' = [d \in Devices |-> IF d \in evicted THEN {} ELSE known[d]]
      /\ outcomes' = {} /\ pass' = IF dirty' THEN "saving" ELSE "idle"
      /\ UNCHANGED <<occupant, disk, todo, served, moves>>
  BY DEF Evict
<1>2. CacheTypes /\ EntriesAreOwn /\ StoreIsOwn /\ (~dirty => disk = Persisted)
      /\ KnownStaysKnown
  BY DEF CacheInv
<1>3. \A k \in CacheKeys : misses'[k] \in 0..Grace
  <2> TAKE k \in CacheKeys
  <2>1. misses[k] \in 0..Grace /\ (k \in missing \ evicted => misses[k] # Grace)
    BY <1>2 DEF CacheTypes
  <2> HIDE DEF missing, evicted
  <2> QED
    BY <1>1, <2>1, GraceIsPositive
<1> HIDE DEF missing, evicted
<1>4. CacheTypes'
  BY <1>1, <1>2, <1>3 DEF CacheTypes
<1>5. EntriesAreOwn'
  BY <1>1, <1>2 DEF EntriesAreOwn, KeepsKnown, CacheKeys
<1>6. StoreIsOwn' /\ OutcomesAreOwn'
  BY <1>1, <1>2 DEF StoreIsOwn, OutcomesAreOwn
<1>7. (~dirty => disk = Persisted)'
  BY <1>1, <1>2 DEF Persisted, Persistable
<1>8. KnownStaysKnown'
  <2> SUFFICES ASSUME served # None, Kind(served.place) = "bolt"
               PROVE  known'[served.device] \ {"wheel"} \subseteq FactsOf(served.device, served.probe)
    BY <1>1 DEF KnownStaysKnown
  <2>1. known[served.device] \ {"wheel"} \subseteq FactsOf(served.device, served.probe)
    BY <1>2 DEF KnownStaysKnown
  <2>2. served.device \in Devices
    BY <1>2 DEF CacheTypes
  <2> QED
    BY <1>1, <2>1, <2>2
<1> QED
  BY <1>4, <1>5, <1>6, <1>7, <1>8 DEF CacheInv

LEMMA SaveKeepsInv == ASSUME CacheInv, NEW works \in BOOLEAN, Save(works) PROVE CacheInv'
<1>1. /\ pass' = "idle" /\ dirty' = ~works /\ disk' = IF works THEN Persisted ELSE disk
      /\ UNCHANGED <<occupant, cache, stale, misses, todo, outcomes, served, moves, known>>
  BY DEF Save
<1>2. CacheTypes /\ EntriesAreOwn /\ StoreIsOwn /\ OutcomesAreOwn /\ KnownStaysKnown
  BY DEF CacheInv
<1>3. Persisted \in [CacheKeys -> Probes \cup {None}] /\ PersistedIsOwn
  BY <1>2, PersistedFits
<1>4. CacheTypes' /\ StoreIsOwn'
  BY <1>1, <1>2, <1>3 DEF CacheTypes, StoreIsOwn, PersistedIsOwn
<1>5. EntriesAreOwn' /\ OutcomesAreOwn' /\ KnownStaysKnown'
  BY <1>1, <1>2 DEF EntriesAreOwn, OutcomesAreOwn, KnownStaysKnown, KeepsKnown
<1>6. (~dirty => disk = Persisted)'
  BY <1>1 DEF Persisted
<1> QED
  BY <1>4, <1>5, <1>6 DEF CacheInv

\* A restart, at any point, with or without a save that went through.
LEMMA RestartKeepsInv ==
    ASSUME CacheInv, NEW committed \in BOOLEAN, NEW readable \in BOOLEAN,
           Restart(committed, readable)
    PROVE  CacheInv'
<1>1. /\ disk' = IF ~readable THEN [k \in CacheKeys |-> None]
                 ELSE IF committed THEN Persisted ELSE disk
      /\ cache' = disk'
      /\ known' = [d \in Devices |-> IF disk'[d] = None THEN {} ELSE FactsOf(d, disk'[d])]
      /\ stale' = {} /\ misses' = [k \in CacheKeys |-> 0] /\ dirty' = FALSE
      /\ pass' = "idle" /\ todo' = {} /\ outcomes' = {} /\ served' = None
      /\ UNCHANGED <<occupant, moves>>
  BY DEF Restart
<1>2. CacheTypes /\ EntriesAreOwn /\ StoreIsOwn
  BY DEF CacheInv
<1>3. Persisted \in [CacheKeys -> Probes \cup {None}] /\ PersistedIsOwn
  BY <1>2, PersistedFits
<1>4. disk' \in [CacheKeys -> Probes \cup {None}]
  BY <1>1, <1>2, <1>3 DEF CacheTypes
<1>5. \A k \in CacheKeys : disk'[k] # None =>
        k \in Devices /\ disk'[k].battery = None /\ ReadFrom(k, disk'[k]) /\ "unit" \in Traits(k)
  BY <1>1, <1>2, <1>3 DEF StoreIsOwn, PersistedIsOwn
<1>6. \A d \in Devices : FactsOf(d, disk'[d]) \subseteq Facts
  BY DEF FactsOf
<1>7. 0 \in 0..Grace
  BY GraceIsPositive
<1>8. CacheTypes'
  BY <1>1, <1>2, <1>4, <1>6, <1>7 DEF CacheTypes
<1>9. EntriesAreOwn'
  BY <1>1, <1>5 DEF EntriesAreOwn, KeepsKnown, CacheKeys
<1>10. StoreIsOwn' /\ OutcomesAreOwn' /\ KnownStaysKnown'
  BY <1>1, <1>5 DEF StoreIsOwn, OutcomesAreOwn, KnownStaysKnown
<1>11. disk' = Persisted'
  <2>1. \A k \in CacheKeys : disk'[k] # None => [disk'[k] EXCEPT !.battery = None] = disk'[k]
    BY <1>4, <1>5 DEF Probes
  <2>2. \A k \in CacheKeys : disk'[k] = IF k \in Devices /\ disk'[k] # None
                                        THEN [disk'[k] EXCEPT !.battery = None] ELSE None
    BY <1>5, <2>1
  <2> QED
    BY <1>1, <1>4, <2>2 DEF Persisted, Persistable
<1> QED
  BY <1>8, <1>9, <1>10, <1>11 DEF CacheInv
-----------------------------------------------------------------------------
(***************************************************************************)
(* The theorems.                                                           *)
(***************************************************************************)
LEMMA CacheInitHasInv == CacheInit => CacheInv
<1> SUFFICES ASSUME CacheInit PROVE CacheInv
  OBVIOUS
<1>1. 0 \in 0..Grace /\ 0 \in 0..MaxMoves
  BY GraceIsPositive, MovesAreCounted
<1>2. CacheTypes
  BY <1>1 DEF CacheInit, CacheTypes
<1>3. disk = Persisted
  BY DEF CacheInit, Persisted
<1> QED
  BY <1>2, <1>3 DEF CacheInit, CacheInv, EntriesAreOwn, StoreIsOwn, OutcomesAreOwn,
                    KnownStaysKnown, CacheKeys

\* The memory's invariant.
THEOREM CacheInvHolds == CacheSpec => []CacheInv
<1>1. CacheInv /\ [CacheNext]_cacheVars => CacheInv'
  <2> SUFFICES ASSUME CacheInv, [CacheNext]_cacheVars PROVE CacheInv'
    OBVIOUS
  <2>1. CASE StartPass
    BY <2>1, StartKeepsInv
  <2>2. CASE Apply
    BY <2>2, ApplyKeepsInv
  <2>3. CASE Evict
    BY <2>3, EvictKeepsInv
  <2>4. CASE Age
    BY <2>4, AgeKeepsInv
  <2>5. CASE \E p \in Places : MissPlace(p)
    BY <2>5, MissKeepsInv
  <2>6. CASE \E p \in Places, online \in BOOLEAN, r \in Losses : ProbePlace(p, online, r)
    BY <2>6, ProbeKeepsInv
  <2>7. CASE \E p \in Places, d \in Devices \cup {None} : Occupy(p, d)
    BY <2>7, OccupyKeepsInv
  <2>8. CASE \E b \in BOOLEAN : Save(b)
    BY <2>8, SaveKeepsInv
  <2>9. CASE \E c, b \in BOOLEAN : Restart(c, b)
    BY <2>9, RestartKeepsInv
  <2>10. CASE UNCHANGED cacheVars
    BY <2>10 DEF cacheVars, CacheInv, CacheTypes, EntriesAreOwn, StoreIsOwn, OutcomesAreOwn,
                 Persisted, KnownStaysKnown, KeepsKnown
  <2> QED
    BY <2>1, <2>2, <2>3, <2>4, <2>5, <2>6, <2>7, <2>8, <2>9, <2>10 DEF CacheNext
<1> QED
  BY <1>1, CacheInitHasInv, PTL DEF CacheSpec

\* Through lost replies, moves, restarts and failed walks, what was memoized
\* of a Bolt device is in everything served of it until it is evicted, for
\* any devices, places, traits and any number of replies lost.
THEOREM KnownIsServed == CacheSpec => []KnownStaysKnown
<1>1. CacheInv => KnownStaysKnown
  BY DEF CacheInv
<1> QED
  BY <1>1, CacheInvHolds, PTL

\* The store never lags behind a cache that is not dirty, and no entry mixes
\* two devices.
THEOREM StoreFollowsCache == CacheSpec => []StoreIsCurrent
<1>1. CacheInv => StoreIsCurrent
  BY DEF CacheInv, StoreIsCurrent, StoreIsOwn, ReadFrom, CacheKeys
<1> QED
  BY <1>1, CacheInvHolds, PTL
=============================================================================
