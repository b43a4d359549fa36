--------------------------- MODULE TransportProofs ----------------------------
(***************************************************************************)
(* Proofs about SwIdLeases, for any number of opens and of ids: the mask   *)
(* is exact, and channels that were ever open together never take each     *)
(* other's answers.  Proofs about HidTransport, for any number of writers  *)
(* and of turns: the gate is heeded.  Last about what is read from a       *)
(* device in pieces: its features, names and tables.                       *)
(***************************************************************************)
EXTENDS SwIdLeases, HidTransport, FeatureWalk, DeviceNames, DeviceTables,
        FiniteSetTheorems, SequenceTheorems, WellFoundedInduction, TLAPS

\* A mask that is not full has a lowest free id, which is an id.
LEMMA LowestFreeIsFree ==
    ASSUME NEW m \in SUBSET Ids, m # Ids
    PROVE  LowestFree(m) \in Ids \ m
<1>1. Ids \ m \subseteq Nat /\ Ids \ m # {}
    BY LeaseAssumption
<1>2. PICK i \in Ids \ m : \A j \in Ids \ m : ~(<<j, i>> \in OpToRel(<, Nat))
    BY <1>1, WFMin, NatLessThanWellFounded
<1>3. \A j \in Ids \ m : i <= j
    <2> TAKE j \in Ids \ m
    <2>1. i \in Nat /\ j \in Nat
        BY <1>1
    <2>2. ~(j < i)
        BY <1>2, <2>1 DEF OpToRel
    <2> QED
        BY <2>1, <2>2
<1> QED
    BY <1>3 DEF LowestFree

LEMMA InitIInv == Init => IInv
<1> SUFFICES ASSUME Init PROVE IInv
    OBVIOUS
<1> USE LeaseAssumption DEF Init
<1>1. TypeOK
    BY DEF TypeOK, Stages
<1>2. MaskExact /\ MetDiffer /\ LeasedFirst /\ SameIdTaken
    BY DEF MaskExact, HasLease, MetDiffer, LeasedFirst, SameIdTaken
<1> QED
    BY <1>1, <1>2 DEF IInv
-----------------------------------------------------------------------------
\* A step that leaves the mask, the ids and who owns them alone disturbs
\* nothing that is said of them.
LEMMA LeaseFrame ==
    ASSUME IInv, UNCHANGED <<mask, id, met>>,
           \A c \in Channels : HasLease(c)' = HasLease(c)
    PROVE  MaskExact' /\ MetDiffer'
<1>1. {id'[c] : c \in {d \in Channels : HasLease(d)'}}
      = {id[c] : c \in {d \in Channels : HasLease(d)}}
    OBVIOUS
<1>2. MaskExact'
    BY <1>1 DEF IInv, MaskExact
<1>3. MetDiffer'
    BY DEF IInv, MetDiffer
<1> QED
    BY <1>2, <1>3

\* The opens before the lease and the drops after it: one channel moves on,
\* and neither gets nor gives back an id.
LEMMA StageStep ==
    ASSUME IInv, NEW c \in Channels,
           \/ CheckGate(c) \/ OpenFails(c) \/ OsOpen(c) \/ Recheck(c)
           \/ LoadMask(c) \/ Drop(c) \/ JoinReader(c) \/ CloseRaw(c)
    PROVE  IInv'
<1> USE DEF IInv
<1>1. /\ UNCHANGED <<mask, id, met, waiting, got, asked, suspended>>
      /\ \E s \in Stages : stage' = [stage EXCEPT ![c] = s]
      /\ inbox' = inbox \/ inbox' = [inbox EXCEPT ![c] = {}]
      /\ seen' = seen \/ seen' = [seen EXCEPT ![c] = mask]
    BY DEF CheckGate, OpenFails, OsOpen, Recheck, LoadMask, Drop, JoinReader,
           CloseRaw, Enter, leaseVars, callVars, Stages
<1>2. TypeOK'
    BY <1>1 DEF TypeOK
<1>3. /\ \A d \in Channels \ {c} : stage'[d] = stage[d] /\ seen'[d] = seen[d]
      /\ \/ /\ stage[c] \in {"idle", "checked", "opened", "loading"}
            /\ stage'[c] \in {"checked", "opened", "loading", "swapping",
                              "dropping", "closed"}
            /\ stage'[c] = "swapping" => seen'[c] # Ids
         \/ /\ stage[c] \in {"live", "dropping", "joined"}
            /\ stage'[c] \in {"dropping", "joined", "rawClosed"}
            /\ c \notin waiting
    BY DEF TypeOK, LeasedFirst, CheckGate, OpenFails, OsOpen, Recheck,
           LoadMask, Drop, JoinReader, CloseRaw, Enter, leaseVars
<1>4. \A d \in Channels : HasLease(d)' = HasLease(d)
    BY <1>1, <1>3 DEF HasLease, LeasedFirst
<1>5. MaskExact' /\ MetDiffer'
    BY <1>1, <1>4, LeaseFrame
<1>6. LeasedFirst' /\ SameIdTaken'
    BY <1>1, <1>3 DEF LeasedFirst, SameIdTaken
<1> QED
    BY <1>2, <1>5, <1>6

\* The calls and the wire: no stage and no id changes.
LEMMA CallStep ==
    ASSUME IInv, NEW c \in Channels,
           \/ Ask(c) \/ GiveUp(c) \/ Answer(c)
           \/ \E d \in Channels : Read(d, c)
    PROVE  IInv'
<1> USE DEF IInv
<1>1. UNCHANGED <<suspended, stage, mask, seen, id, met>>
    BY DEF Ask, GiveUp, Answer, Read, leaseVars
<1>2. /\ waiting' \subseteq Channels /\ asked' \subseteq Channels
      /\ inbox' \in [Channels -> SUBSET Channels]
      /\ \A d \in waiting' \ waiting : stage[d] = "live"
    <2>1. CASE Ask(c) \/ GiveUp(c)
        BY <2>1 DEF TypeOK, Ask, GiveUp
    <2>2. CASE Answer(c)
        BY <2>2 DEF TypeOK, Answer
    <2>3. CASE \E d \in Channels : Read(d, c)
        BY <2>3 DEF TypeOK, Read
    <2> QED
        BY <2>1, <2>2, <2>3
<1>3. \/ got' = got
      \/ \E d \in Channels :
            d \in waiting /\ id[c] = id[d] /\ got' = [got EXCEPT ![d] = c]
    BY DEF Ask, GiveUp, Answer, Read
<1>4. TypeOK'
    BY <1>1, <1>2, <1>3 DEF TypeOK
<1>5. MaskExact' /\ MetDiffer'
    BY <1>1, LeaseFrame DEF HasLease
<1>6. LeasedFirst'
    BY <1>1, <1>2 DEF LeasedFirst
<1>7. SameIdTaken'
    BY <1>1, <1>3 DEF LeasedFirst, SameIdTaken, TypeOK
<1> QED
    BY <1>4, <1>5, <1>6, <1>7

\* The lease: the id is free in the very mask that is replaced.
LEMMA SwapStep ==
    ASSUME IInv, NEW c \in Channels, SwapMask(c)
    PROVE  IInv'
<1> USE DEF IInv
<1>1. /\ stage[c] = "swapping" /\ seen' = seen /\ suspended' = suspended
      /\ UNCHANGED callVars
      /\ id[c] = NoId /\ c \notin waiting /\ seen[c] # Ids
    BY DEF SwapMask, LeasedFirst
<1>2. CASE mask # seen[c] /\ Enter(c, "loading") /\ UNCHANGED <<mask, id, met>>
    <2>1. TypeOK'
        BY <1>1, <1>2 DEF TypeOK, Enter, Stages, callVars
    <2>2. \A d \in Channels : HasLease(d)' = HasLease(d)
        BY <1>1, <1>2 DEF HasLease, Enter, TypeOK
    <2>3. MaskExact' /\ MetDiffer'
        BY <1>2, <2>2, LeaseFrame
    <2>4. LeasedFirst' /\ SameIdTaken'
        BY <1>1, <1>2 DEF LeasedFirst, SameIdTaken, Enter, TypeOK, callVars
    <2> QED
        BY <2>1, <2>3, <2>4
<1>3. CASE mask = seen[c] /\ Own(c, LowestFree(mask)) /\ Enter(c, "live")
    <2> DEFINE i == LowestFree(mask)
               open == {d \in Channels \ {c} : HasLease(d) /\ HasHandle(d)}
    <2>1. i \in Ids \ mask /\ i # NoId
        BY <1>1, <1>3, LowestFreeIsFree, LeaseAssumption DEF TypeOK
    <2> HIDE DEF i
    <2>2. /\ mask' = mask \cup {i} /\ id' = [id EXCEPT ![c] = i]
          /\ stage' = [stage EXCEPT ![c] = "live"]
          /\ met' = [d \in Channels |->
                        IF d = c THEN met[c] \cup open
                        ELSE IF d \in open THEN met[d] \cup {c} ELSE met[d]]
        BY <1>3 DEF Own, Enter, i
    <2> HIDE DEF open
    <2>3. /\ id'[c] = i /\ stage'[c] = "live"
          /\ \A d \in Channels \ {c} : id'[d] = id[d] /\ stage'[d] = stage[d]
        BY <2>2 DEF TypeOK
    <2>4. /\ open \subseteq Channels \ {c}
          /\ \A d \in open : HasLease(d) /\ id[d] \in mask /\ id[d] # NoId
        BY DEF open, MaskExact, HasLease
    <2>5. TypeOK'
        BY <1>1, <2>1, <2>2, <2>4 DEF TypeOK, Stages, callVars
    <2>6. /\ HasLease(c)'
          /\ ~HasLease(c)
          /\ \A d \in Channels \ {c} : HasLease(d)' = HasLease(d)
        BY <1>1, <2>1, <2>3 DEF HasLease
    <2>7. MaskExact'
        <3>1. {d \in Channels : HasLease(d)'}
              = {d \in Channels : HasLease(d)} \cup {c}
            BY <2>6
        <3>2. mask' = {id'[d] : d \in {e \in Channels : HasLease(e)'}}
            BY <2>2, <2>3, <2>6, <3>1 DEF MaskExact
        <3>3. ASSUME NEW d \in Channels, NEW e \in Channels,
                     HasLease(d)', HasLease(e)', id'[d] = id'[e]
              PROVE  d = e
            <4>1. \A f \in Channels \ {c} : HasLease(f)' => id[f] \in mask
                BY <2>6 DEF MaskExact
            <4> QED
                BY <2>1, <2>3, <2>6, <3>3, <4>1 DEF MaskExact
        <3> QED
            BY <3>2, <3>3 DEF MaskExact
    <2>8. MetDiffer'
        <3> SUFFICES ASSUME NEW d \in Channels, NEW e \in Channels,
                            d \in met'[e]
                     PROVE  /\ id'[d] # NoId /\ id'[e] # NoId
                            /\ id'[d] # id'[e]
            BY DEF MetDiffer
        <3>1. d \notin met[c] /\ c \notin met[e]
            BY <1>1 DEF MetDiffer
        <3>2. \/ e = c /\ d \in open
              \/ e \in open /\ d = c
              \/ e # c /\ d # c /\ d \in met[e]
            BY <2>2, <2>4, <3>1
        <3> QED
            BY <2>1, <2>3, <2>4, <3>2 DEF MetDiffer
    <2>9. LeasedFirst'
        BY <1>1, <2>1, <2>2, <2>3 DEF LeasedFirst, callVars
    <2>10. SameIdTaken'
        BY <1>1, <2>3 DEF SameIdTaken, callVars
    <2> QED
        BY <2>5, <2>7, <2>8, <2>9, <2>10
<1> QED
    BY <1>2, <1>3 DEF SwapMask

\* The return of a lease, or of none: nobody else owns the id.
LEMMA FreeStep ==
    ASSUME IInv, NEW c \in Channels, FreeLease(c)
    PROVE  IInv'
<1> USE DEF IInv
<1>1. /\ stage[c] = "rawClosed" /\ mask' = mask \ {id[c]}
      /\ stage' = [stage EXCEPT ![c] = "closed"]
      /\ UNCHANGED <<suspended, seen, id, met, waiting, got, asked, inbox>>
    BY DEF FreeLease, Enter, callVars
<1>2. TypeOK'
    BY <1>1 DEF TypeOK, Stages
<1>3. /\ ~HasLease(c)'
      /\ \A d \in Channels \ {c} : HasLease(d)' = HasLease(d)
    BY <1>1 DEF HasLease, TypeOK
<1>4. MaskExact'
    <2>1. ASSUME id[c] # NoId
          PROVE  mask' = {id[d] : d \in {e \in Channels : HasLease(e)'}}
        <3>1. HasLease(c)
            BY <1>1, <2>1 DEF HasLease
        <3> QED
            BY <1>1, <1>3, <3>1 DEF MaskExact
    <2>2. ASSUME id[c] = NoId
          PROVE  mask' = {id[d] : d \in {e \in Channels : HasLease(e)'}}
        <3>1. ~HasLease(c) /\ NoId \notin mask
            BY <2>2, LeaseAssumption DEF HasLease, TypeOK
        <3> QED
            BY <1>1, <1>3, <2>2, <3>1 DEF MaskExact
    <2> QED
        BY <1>1, <1>3, <2>1, <2>2 DEF MaskExact
<1>5. MetDiffer' /\ SameIdTaken'
    BY <1>1 DEF MetDiffer, SameIdTaken
<1>6. LeasedFirst'
    BY <1>1 DEF LeasedFirst, TypeOK
<1> QED
    BY <1>2, <1>4, <1>5, <1>6

LEMMA NextIInv == IInv /\ [Next]_vars => IInv'
<1> SUFFICES ASSUME IInv, [Next]_vars PROVE IInv'
    OBVIOUS
<1>1. CASE \E c \in Channels :
               \/ CheckGate(c) \/ OpenFails(c) \/ OsOpen(c) \/ Recheck(c)
               \/ LoadMask(c) \/ Drop(c) \/ JoinReader(c) \/ CloseRaw(c)
    BY <1>1, StageStep
<1>2. CASE \E c \in Channels : SwapMask(c) \/ FreeLease(c)
    BY <1>2, SwapStep, FreeStep
<1>3. CASE \E c \in Channels :
               \/ Ask(c) \/ GiveUp(c) \/ Answer(c)
               \/ \E d \in Channels : Read(d, c)
    BY <1>3, CallStep
<1>4. CASE SwitchGate \/ UNCHANGED vars
    <2>1. UNCHANGED <<stage, leaseVars, callVars>> /\ suspended' \in BOOLEAN
        BY <1>4 DEF SwitchGate, vars, IInv, TypeOK
    <2> QED
        BY <2>1 DEF IInv, TypeOK, MaskExact, HasLease, MetDiffer, LeasedFirst,
                    SameIdTaken, leaseVars, callVars
<1> QED
    BY <1>1, <1>2, <1>3, <1>4 DEF Next
-----------------------------------------------------------------------------
\* The inductive invariant holds in every reachable state.
THEOREM LeaseInvariant == Spec => []IInv
BY InitIInv, NextIInv, PTL DEF Spec

\* The lease mask is exact, and no two channels own one id.
THEOREM MaskStaysExact == Spec => []MaskExact
<1>1. IInv => MaskExact
    BY DEF IInv
<1> QED
    BY <1>1, LeaseInvariant, PTL

\* Channels that were open together never take each other's answers: an
\* answer is taken for its id, and their ids differ for good.
THEOREM ConcurrentOpensAreSeparate == Spec => []NoCrossMatch
<1>1. IInv => NoCrossMatch
    BY DEF IInv, NoCrossMatch, MetDiffer, SameIdTaken
<1> QED
    BY <1>1, LeaseInvariant, PTL
-----------------------------------------------------------------------------
(***************************************************************************)
(* Writing to the node.                                                    *)
(***************************************************************************)
WriterTypes ==
    [at : {"idle", "queued", "locked", "cleared", "fallback"}, handle : Handles]

TransportTypes ==
    /\ composite \in BOOLEAN
    /\ allowed \in BOOLEAN
    /\ turns \in Nat /\ seenTurn \in Nat
    /\ writer \in [Writers -> WriterTypes]

HoldsLock(w) == At(w) \in {"locked", "cleared", "fallback"}

\* On one handle one writer at a time is past the lock, and no report is tried
\* again by other means.
OneAtATime ==
    ~composite =>
        \A w \in Writers :
            /\ writer[w].handle = "long"
            /\ At(w) # "fallback"
            /\ HoldsLock(w) => \A v \in Writers \ {w} : ~HoldsLock(v)

\* The reports that came late are counted from the last turn; when one has
\* come, no other is past its second look.
LateInv ==
    /\ allowed => late = {}
    /\ ~composite => /\ late = {} \/ \E w \in Writers : late = {w}
                     /\ late # {} => \A w \in Writers : At(w) # "cleared"

\* A waiter that found the gate closed will see every turn since.
WaiterInv ==
    /\ seenTurn <= turns
    /\ awaited \in {"closed", "asleep"} /\ seenTurn = turns => ~allowed

TransportInv == TransportTypes /\ OneAtATime /\ LateInv /\ WaiterInv

\* The state before anything is written or waited for.
LEMMA TransportStarts == TransportInit => TransportInv
  BY DEF TransportInit, TransportInv, TransportTypes, OneAtATime, LateInv, WaiterInv,
         WriterTypes, Handles, Idle, At, HoldsLock

\* A step that moves neither writers nor the gate and its waiters.
LEMMA BesideWritersAndGate ==
    ASSUME TransportInv, UNCHANGED <<composite, gateVars, writer, late>>
    PROVE  TransportInv'
  BY DEF TransportInv, TransportTypes, OneAtATime, LateInv, WaiterInv, At, HoldsLock, gateVars

\* The gate's own steps, and those of a waiter.
LEMMA GateSteps ==
    ASSUME TransportInv, Turn \/ LosePublisher \/ Look \/ Sleep \/ Wake
    PROVE  TransportInv'
<1> USE DEF TransportInv, TransportTypes, OneAtATime, LateInv, WaiterInv, At, HoldsLock,
            OffGate, GateOf, fixed
<1>1. CASE Turn
  BY <1>1 DEF Turn
<1>2. CASE LosePublisher
  BY <1>2 DEF LosePublisher
<1>3. CASE Look
  BY <1>3 DEF Look
<1>4. CASE Sleep
  BY <1>4 DEF Sleep
<1>5. CASE Wake
  BY <1>5 DEF Wake
<1> QED
  BY <1>1, <1>2, <1>3, <1>4, <1>5

\* A writer asks to write, takes the lock, looks at the gate again, writes,
\* and tries once more by other means.
LEMMA WriterSteps ==
    ASSUME TransportInv, NEW w \in Writers,
           \/ \E length \in Handles : StartReport(w, length)
           \/ TakeLock(w) \/ PassGate(w) \/ OsWrite(w) \/ WriteFallback(w)
    PROVE  TransportInv'
<1> USE DEF TransportInv, TransportTypes, OneAtATime, LateInv, WaiterInv, At, HoldsLock,
            WriterTypes, Handles, gateVars, fixed
<1>1. CASE \E length \in Handles : StartReport(w, length)
  <2>1. PICK length \in Handles : StartReport(w, length)
    BY <1>1
  <2>2. writer' = [writer EXCEPT ![w] = [at |-> "queued", handle |-> HandleFor(length)]]
    BY <2>1 DEF StartReport
  <2>3. HandleFor(length) \in Handles /\ (~composite => HandleFor(length) = "long")
    BY DEF HandleFor
  <2> QED
    BY <2>1, <2>2, <2>3 DEF StartReport
<1>2. CASE TakeLock(w)
  <2>1. writer' = [writer EXCEPT ![w].at = "locked"] /\ ~Locked(writer[w].handle)
    BY <1>2 DEF TakeLock, Go
  <2>2. ~composite => \A v \in Writers \ {w} : ~HoldsLock(v)
    BY <2>1 DEF Locked
  <2> QED
    BY <1>2, <2>1, <2>2 DEF TakeLock
<1>3. CASE PassGate(w)
  BY <1>3 DEF PassGate, Go, Ends, Idle
<1>4. CASE OsWrite(w)
  <2>1. /\ At(w) = "cleared" /\ Asks(w)
        /\ \/ writer' = [writer EXCEPT ![w] = Idle]
           \/ writer' = [writer EXCEPT ![w].at = IF composite THEN "fallback" ELSE "idle"]
        /\ UNCHANGED <<composite, allowed, turns, seenTurn, awaited>>
    BY <1>4 DEF OsWrite, Ends, Go
  <2>2. TransportTypes' /\ OneAtATime' /\ WaiterInv'
    BY <2>1 DEF Idle
  <2>3. LateInv'
    <3>1. CASE allowed
      BY <2>1, <3>1 DEF Asks
    <3>2. CASE ~allowed
      <4>1. ~composite => late = {}
        BY <2>1, <3>2
      <4>2. late' = late \cup {w}
        BY <2>1, <3>2 DEF Asks
      <4>3. ~composite => \A v \in Writers : writer'[v].at # "cleared"
        BY <2>1 DEF Idle
      <4> QED
        BY <2>1, <3>2, <4>1, <4>2, <4>3
    <3> QED
      BY <3>1, <3>2
  <2> QED
    BY <2>2, <2>3
<1>5. CASE WriteFallback(w)
  BY <1>5 DEF WriteFallback, Asks, Ends, Idle
<1> QED
  BY <1>1, <1>2, <1>3, <1>4, <1>5

\* The inductive invariant of the transport, for any writers and turns.
THEOREM TransportInvariant == TransportSpec => []TransportInv
<1>1. TransportInit => TransportInv
  BY TransportStarts
<1>2. TransportInv /\ [TransportNext]_transportVars => TransportInv'
  <2> SUFFICES ASSUME TransportInv, [TransportNext]_transportVars
               PROVE  TransportInv'
    OBVIOUS
  <2>1. CASE Turn \/ LosePublisher \/ Look \/ Sleep \/ Wake
    BY <2>1, GateSteps
  <2>2. CASE \E w \in Writers :
                \/ \E length \in Handles : StartReport(w, length)
                \/ TakeLock(w) \/ PassGate(w) \/ OsWrite(w) \/ WriteFallback(w)
    BY <2>2, WriterSteps
  <2>3. CASE \/ ReadReport \/ Unplug
             \/ StartListing \/ ListNodes \/ KeepHandles
             \/ StartOpening \/ OsOpens \/ OpenedOrNot
    <3>1. UNCHANGED <<composite, gateVars, writer, late>>
      BY <2>3 DEF ReadReport, Unplug, StartListing, ListNodes, KeepHandles, StartOpening,
                  OsOpens, OpenedOrNot, fixed
    <3> QED
      BY <3>1, BesideWritersAndGate
  <2>4. CASE UNCHANGED transportVars
    <3>1. UNCHANGED <<composite, gateVars, writer, late>>
      BY <2>4 DEF transportVars, gateVars
    <3> QED
      BY <3>1, BesideWritersAndGate
  <2> QED
    BY <2>1, <2>2, <2>3, <2>4 DEF TransportNext
<1> QED
  BY <1>1, <1>2, PTL DEF TransportSpec

\* After a suspend at most one report reaches a single handle, and nobody
\* sleeps while the gate is open.
THEOREM GateStaysHeeded == TransportSpec => []GateIsHeeded
<1>1. TransportInv => GateIsHeeded
  <2> SUFFICES ASSUME TransportInv
               PROVE  OneReportLate /\ NoResumeMissed
    BY DEF GateIsHeeded
  <2>1. ASSUME ~composite
        PROVE  Cardinality(late) <= 1
    <3>1. CASE late = {}
      BY <3>1, FS_EmptySet
    <3>2. CASE \E w \in Writers : late = {w}
      BY <3>2, FS_Singleton
    <3> QED
      BY <2>1, <3>1, <3>2 DEF TransportInv, LateInv
  <2>2. NoResumeMissed
    BY DEF TransportInv, WaiterInv, NoResumeMissed
  <2> QED
    BY <2>1, <2>2 DEF OneReportLate
<1> QED
  BY <1>1, TransportInvariant, PTL

(***************************************************************************)
(* The walk over a device's feature table.                                 *)
(***************************************************************************)
\* A step that adds no entry.
LEMMA EntriesAreKept ==
    ASSUME WalkInv, UNCHANGED <<entries, installed>>, overtaken => overtaken'
    PROVE  BoundWhereRead' /\ ReadAreBound' /\ EntriesInPlace'
<1>1. BoundWhereRead /\ ReadAreBound /\ EntriesInPlace
  BY DEF WalkInv
<1> QED
  BY <1>1 DEF BoundWhereRead, ReadAreBound, EntriesInPlace

\* What is under way, but for the oldest.
LEMMA OldestIsTaken ==
    ASSUME WalkInv, flight # << >>, flight' = Tail(flight)
    PROVE  /\ Head(flight) \in [call : Calls, slot : 0..Len(Table)]
           /\ Head(flight).call = "entry" => Head(flight).slot \in 1..Len(Table)
           /\ flight' \in Seq([call : Calls, slot : 0..Len(Table)])
           /\ SlotsAreOfTable'
           /\ ~overtaken => flight' = << >> /\ asking /\ Head(flight).call = walkStage
                            /\ (walkStage = "entry" => Head(flight).slot = NextSlot)
<1>1. flight \in Seq([call : Calls, slot : 0..Len(Table)]) /\ SlotsAreOfTable /\ FlightIsAwaited
  BY DEF WalkInv, WalkTypes
<1>2. /\ Head(flight) = flight[1] /\ Len(flight) \in Nat /\ Len(flight) >= 1
      /\ flight' \in Seq([call : Calls, slot : 0..Len(Table)])
      /\ Len(flight') = Len(flight) - 1
      /\ \A i \in 1..Len(flight') : flight'[i] = flight[i + 1] /\ i + 1 \in 1..Len(flight)
  BY <1>1, HeadTailProperties, LenProperties, EmptySeq
<1>3. Head(flight) \in [call : Calls, slot : 0..Len(Table)]
  <2> DEFINE Requests == [call : Calls, slot : 0..Len(Table)]
  <2>1. flight \in Seq(Requests) /\ 1 \in 1..Len(flight)
    BY <1>1, <1>2
  <2> HIDE DEF Requests
  <2>2. flight[1] \in Requests
    BY <2>1
  <2> QED
    BY <1>2, <2>2 DEF Requests
<1>4. Len(Table) \in Nat
  BY TableHasSet, LenProperties
<1>5. Head(flight).call = "entry" => Head(flight).slot \in 1..Len(Table)
  <2>1. Head(flight).slot \in 0..Len(Table)
    BY <1>3
  <2>2. Head(flight).call = "entry" => Head(flight).slot >= 1
    BY <1>1, <1>2 DEF SlotsAreOfTable
  <2> QED
    BY <1>4, <2>1, <2>2
<1>6. SlotsAreOfTable'
  BY <1>1, <1>2 DEF SlotsAreOfTable
<1>7. Len(flight) = 1 => flight' = << >>
  BY <1>2, EmptySeq
<1> QED
  BY <1>1, <1>2, <1>3, <1>5, <1>6, <1>7 DEF FlightIsAwaited

LEMMA WalkStarts == ASSUME WalkInit PROVE WalkInv
<1>1. WalkTypes
  <2>1. /\ << >> \in Seq([call : Calls, slot : 0..Len(Table)])
        /\ << >> \in Seq([id : Nat, version : Nat])
    OBVIOUS
  <2> QED
    BY <2>1 DEF WalkInit, WalkTypes, Calls
<1>2. WalkShape /\ FlightIsAwaited
  BY DEF WalkInit, WalkShape, FlightIsAwaited, Calls
<1>3. Len(flight) = 0 /\ Len(entries) = 0 /\ DOMAIN installed = {} /\ DOMAIN entries = {}
  BY DEF WalkInit
<1>4. SlotsAreOfTable /\ BoundWhereRead /\ ReadAreBound /\ EntriesInPlace
  BY <1>3 DEF SlotsAreOfTable, BoundWhereRead, ReadAreBound, EntriesInPlace
<1> QED
  BY <1>1, <1>2, <1>4 DEF WalkInv

LEMMA AskKeepsWalk == ASSUME WalkInv, AskDevice PROVE WalkInv'
<1> DEFINE request == [call |-> walkStage, slot |-> IF walkStage = "entry" THEN NextSlot ELSE 0]
<1>1. /\ walkStage \in Calls /\ asking = FALSE /\ asking' = TRUE /\ flight' = Append(flight, request)
      /\ UNCHANGED <<walkStage, entries, installed, overtaken>>
  BY DEF AskDevice, WalkInv, WalkTypes
<1>2. WalkTypes /\ WalkShape /\ SlotsAreOfTable /\ FlightIsAwaited
  BY DEF WalkInv
<1>3. /\ request.call = walkStage /\ request \in [call : Calls, slot : 0..Len(Table)]
      /\ walkStage = "entry" => request.slot = NextSlot /\ request.slot >= 1
  <2>1. Len(Table) \in Nat /\ Len(entries) \in Nat
    BY <1>2, TableHasSet, LenProperties DEF WalkTypes
  <2>2. (IF walkStage = "entry" THEN NextSlot ELSE 0) \in 0..Len(Table)
    BY <1>2, <2>1 DEF WalkShape, NextSlot
  <2> QED
    BY <1>1, <2>1, <2>2 DEF NextSlot
<1> HIDE DEF request
<1>4. /\ flight' \in Seq([call : Calls, slot : 0..Len(Table)])
      /\ Len(flight) \in Nat /\ Len(flight') = Len(flight) + 1
      /\ \A i \in 1..Len(flight) : flight'[i] = flight[i]
      /\ flight'[Len(flight) + 1] = request
  BY <1>1, <1>2, <1>3, AppendProperties, LenProperties DEF WalkTypes
<1>5. WalkTypes'
  BY <1>1, <1>2, <1>4 DEF WalkTypes
<1>6. WalkShape'
  BY <1>1, <1>2 DEF WalkShape
<1>7. SlotsAreOfTable'
  <2> SUFFICES ASSUME NEW i \in 1..Len(flight'), flight'[i].call = "entry"
               PROVE  flight'[i].slot >= 1
    BY DEF SlotsAreOfTable
  <2>1. CASE i \in 1..Len(flight)
    BY <1>2, <1>4, <2>1 DEF SlotsAreOfTable
  <2>2. CASE i = Len(flight) + 1
    BY <1>3, <1>4, <2>2
  <2> QED
    BY <1>4, <2>1, <2>2
<1>8. FlightIsAwaited'
  <2> SUFFICES ASSUME ~overtaken
               PROVE  /\ Len(flight') = 1 /\ flight'[1].call = walkStage
                      /\ walkStage = "entry" => flight'[1].slot = NextSlot
    BY <1>1 DEF FlightIsAwaited, NextSlot
  <2>1. flight = << >>
    BY <1>1, <1>2 DEF FlightIsAwaited
  <2>2. Len(flight) = 0
    BY <2>1
  <2> QED
    BY <1>3, <1>4, <2>2
<1> QED
  BY <1>1, <1>5, <1>6, <1>7, <1>8, EntriesAreKept DEF WalkInv

\* A call that fails, lost reports, refusals and another walk.
LEMMA FailuresKeepWalk ==
    ASSUME WalkInv, WriteFails \/ AttemptTimesOut \/ LoseReport \/ RefuseReport
    PROVE  WalkInv'
<1>1. WalkTypes /\ WalkShape /\ SlotsAreOfTable /\ FlightIsAwaited
  BY DEF WalkInv
<1>2. CASE WriteFails \/ AttemptTimesOut
  <2>1. /\ walkStage' \in {walkStage, "failed"} /\ asking' = FALSE /\ walkStage \in Calls
        /\ UNCHANGED <<flight, entries, installed>>
        /\ overtaken' \in BOOLEAN /\ (overtaken => overtaken')
        /\ ~overtaken' => flight = << >> /\ ~overtaken
    <3>1. CASE WriteFails
      <4>1. /\ walkStage' \in {walkStage, "failed"} /\ asking' = FALSE /\ walkStage \in Calls
            /\ UNCHANGED <<flight, entries, installed, overtaken>> /\ ~asking
        BY <1>1, <3>1 DEF WriteFails, AskAgain, WalkTypes
      <4> QED
        BY <1>1, <4>1 DEF FlightIsAwaited, WalkTypes
    <3>2. CASE AttemptTimesOut
      <4>1. /\ walkStage' \in {walkStage, "failed"} /\ asking' = FALSE /\ asking
            /\ UNCHANGED <<flight, entries, installed>>
            /\ overtaken' = (overtaken \/ flight # << >>)
        BY <3>2 DEF AttemptTimesOut, AskAgain
      <4>2. walkStage \in Calls
        BY <1>1, <4>1 DEF WalkShape
      <4> QED
        BY <1>1, <4>1, <4>2 DEF WalkTypes
    <3> QED
      BY <1>2, <3>1, <3>2
  <2>2. WalkTypes' /\ WalkShape' /\ SlotsAreOfTable' /\ FlightIsAwaited'
    BY <1>1, <2>1 DEF WalkTypes, WalkShape, SlotsAreOfTable, FlightIsAwaited, Calls
  <2> QED
    BY <2>1, <2>2, EntriesAreKept DEF WalkInv
<1>3. CASE LoseReport \/ RefuseReport
  <2>1. /\ flight # << >> /\ flight' = Tail(flight) /\ UNCHANGED <<entries, installed, overtaken>>
        /\ \/ UNCHANGED <<asking, walkStage>>
           \/ asking' = FALSE /\ walkStage' = "refused"
    BY <1>3 DEF LoseReport, RefuseReport
  <2>2. /\ flight' \in Seq([call : Calls, slot : 0..Len(Table)])
        /\ SlotsAreOfTable' /\ (~overtaken => flight' = << >>)
    BY <2>1, OldestIsTaken
  <2>3. WalkTypes'
    BY <1>1, <2>1, <2>2 DEF WalkTypes
  <2>4. WalkShape'
    BY <1>1, <2>1 DEF WalkShape, Calls
  <2>5. FlightIsAwaited'
    BY <2>1, <2>2 DEF FlightIsAwaited
  <2> QED
    BY <2>1, <2>2, <2>3, <2>4, <2>5, EntriesAreKept DEF WalkInv
<1> QED
  BY <1>2, <1>3

LEMMA AgainKeepsWalk == ASSUME WalkInv, WalkAgain PROVE WalkInv'
<1>1. /\ walkStage \notin Calls /\ walkStage' = "ping" /\ entries' = << >> /\ installed' = << >>
      /\ UNCHANGED <<asking, flight, overtaken>>
  BY DEF WalkAgain
<1>2. WalkTypes /\ WalkShape /\ SlotsAreOfTable /\ FlightIsAwaited
  BY DEF WalkInv
<1>3. WalkTypes'
  <2>1. << >> \in Seq([id : Nat, version : Nat])
    OBVIOUS
  <2> QED
    BY <1>1, <1>2, <2>1 DEF WalkTypes, Calls
<1>4. WalkShape' /\ SlotsAreOfTable' /\ FlightIsAwaited'
  BY <1>1, <1>2 DEF WalkShape, SlotsAreOfTable, FlightIsAwaited, Calls
<1>5. Len(entries') = 0 /\ DOMAIN installed' = {} /\ DOMAIN entries' = {}
  BY <1>1
<1>6. BoundWhereRead' /\ ReadAreBound' /\ EntriesInPlace'
  BY <1>5 DEF BoundWhereRead, ReadAreBound, EntriesInPlace
<1> QED
  BY <1>3, <1>4, <1>6 DEF WalkInv

\* One more entry: what the step takes is put after those read, and a feature
\* with an implementation gets one, but at the feature set's index.
LEMMA EntryKeepsWalk ==
    ASSUME WalkInv, NEW slot \in 1..Len(Table), TakeEntry(slot), walkStage = "entry",
           asking' = FALSE, UNCHANGED overtaken, ~overtaken => slot = NextSlot,
           flight' \in Seq([call : Calls, slot : 0..Len(Table)]), SlotsAreOfTable',
           ~overtaken => flight' = << >>
    PROVE  WalkInv'
<1> DEFINE newest == Table[slot]
           n == Len(entries)
<1>1. /\ entries' = Append(entries, newest)
      /\ IF NextSlot # SetIndex /\ Implemented(newest)
         THEN installed' = [f \in DOMAIN installed \cup {newest.id} |->
                               IF f = newest.id THEN NextSlot ELSE installed[f]]
         ELSE UNCHANGED installed
      /\ walkStage' = IF NextSlot = Len(Table) THEN "done" ELSE "entry"
  BY DEF TakeEntry, Install
<1>2. /\ WalkTypes /\ WalkShape /\ FlightIsAwaited /\ BoundWhereRead /\ ReadAreBound
      /\ EntriesInPlace
  BY DEF WalkInv
<1>3. newest \in [id : Nat, version : Nat] /\ Len(Table) \in Nat
  BY TableHasSet, LenProperties
<1>4. Table[SetIndex].id = FeatureSetId
  BY TableHasSet DEF SetIndex
<1> HIDE DEF newest
<1>5. /\ entries' \in Seq([id : Nat, version : Nat]) /\ n \in Nat
      /\ Len(entries') = n + 1 /\ entries'[n + 1] = newest
      /\ \A i \in 1..n : entries'[i] = entries[i]
      /\ DOMAIN entries' = 1..(n + 1) /\ DOMAIN entries = 1..n
  <2>1. entries \in Seq([id : Nat, version : Nat])
    BY <1>2 DEF WalkTypes
  <2>2. entries' \in Seq([id : Nat, version : Nat])
    BY <1>1, <1>3, <2>1, AppendProperties
  <2> QED
    BY <1>1, <1>3, <2>1, <2>2, AppendProperties, LenProperties
<1>6. NextSlot = n + 1
  BY DEF NextSlot
<1> HIDE DEF n
<1>7. n < Len(Table) /\ FeatureSetId \in DOMAIN installed
  BY <1>2 DEF WalkShape, n
<1>8. WalkTypes'
  <2>1. walkStage' \in {"done", "entry"}
    BY <1>1
  <2> QED
    BY <1>2, <1>5, <2>1 DEF WalkTypes, Calls
<1>9. /\ DOMAIN installed \subseteq DOMAIN installed'
      /\ \A f \in DOMAIN installed' :
            \/ f \in DOMAIN installed /\ installed'[f] = installed[f]
            \/ f = newest.id /\ installed'[f] = n + 1 /\ Implemented(newest)
      /\ n + 1 # SetIndex /\ Implemented(newest) => newest.id \in DOMAIN installed'
  BY <1>1, <1>6
<1>10. WalkShape'
  <2>1. /\ walkStage' \in {"done", "entry"}
        /\ walkStage' = "done" => n + 1 = Len(Table)
        /\ walkStage' = "entry" => n + 1 < Len(Table)
    BY <1>1, <1>3, <1>5, <1>6, <1>7
  <2> QED
    BY <1>5, <1>7, <1>9, <2>1 DEF WalkShape
<1>11. FlightIsAwaited'
  BY DEF FlightIsAwaited
<1>12. BoundWhereRead'
  <2> SUFFICES ASSUME NEW f \in DOMAIN installed' \ {0, FeatureSetId}
               PROVE  /\ installed'[f] \in 1..(n + 1) /\ entries'[installed'[f]].id = f
                      /\ Implemented(entries'[installed'[f]])
    BY <1>5 DEF BoundWhereRead, Implemented
  <2>1. CASE f = newest.id /\ installed'[f] = n + 1 /\ Implemented(newest)
    BY <1>5, <2>1
  <2>2. CASE f \in DOMAIN installed /\ installed'[f] = installed[f]
    <3>1. /\ installed[f] \in 1..n /\ entries[installed[f]].id = f
          /\ Implemented(entries[installed[f]])
      BY <1>2, <2>2 DEF BoundWhereRead, n
    <3>2. entries'[installed[f]] = entries[installed[f]]
      BY <1>5, <3>1
    <3> QED
      BY <1>5, <2>2, <3>1, <3>2
  <2> QED
    BY <1>9, <2>1, <2>2
<1>13. EntriesInPlace'
  <2> SUFFICES ASSUME ~overtaken, NEW i \in 1..(n + 1) PROVE entries'[i] = Table[i]
    BY <1>5 DEF EntriesInPlace
  <2>1. CASE i \in 1..n
    BY <1>2, <1>5, <2>1 DEF EntriesInPlace
  <2>2. CASE i = n + 1
    BY <1>5, <1>6, <2>2 DEF newest
  <2> QED
    BY <1>5, <2>1, <2>2
<1>14. ReadAreBound'
  <2> SUFFICES ASSUME NEW i \in 1..(n + 1), Implemented(entries'[i]), i = SetIndex => ~overtaken
               PROVE  entries'[i].id \in DOMAIN installed'
    BY <1>5 DEF ReadAreBound, Implemented
  <2>1. CASE i \in 1..n
    <3>1. entries[i].id \in DOMAIN installed
      BY <1>2, <1>5, <2>1 DEF ReadAreBound, n
    <3> QED
      BY <1>5, <1>9, <2>1, <3>1
  <2>2. CASE i = n + 1 /\ i # SetIndex
    BY <1>5, <1>9, <2>2
  <2>3. CASE i = n + 1 /\ i = SetIndex
    <3>1. entries'[i].id = FeatureSetId
      BY <1>4, <1>5, <1>6, <2>3 DEF newest
    <3> QED
      BY <1>7, <1>9, <3>1
  <2> QED
    BY <1>5, <2>1, <2>2, <2>3
<1> QED
  BY <1>8, <1>10, <1>11, <1>12, <1>13, <1>14 DEF WalkInv

LEMMA AnswersKeepWalk == ASSUME WalkInv, AnswerReport PROVE WalkInv'
<1> DEFINE request == Head(flight)
<1>1. /\ flight # << >> /\ flight' = Tail(flight) /\ UNCHANGED overtaken
      /\ IF ~Matches(request)
         THEN UNCHANGED <<asking, walkStage, entries, installed>>
         ELSE /\ asking' = FALSE
              /\ \/ walkStage = "ping" /\ TakePong
                 \/ walkStage = "root" /\ TakeSetIndex
                 \/ walkStage = "count" /\ TakeCount
                 \/ walkStage \notin {"ping", "root", "count"} /\ TakeEntry(request.slot)
  BY DEF AnswerReport
<1>2. /\ request.call = "entry" => request.slot \in 1..Len(Table)
      /\ flight' \in Seq([call : Calls, slot : 0..Len(Table)])
      /\ SlotsAreOfTable'
      /\ ~overtaken => flight' = << >> /\ asking /\ request.call = walkStage
                       /\ (walkStage = "entry" => request.slot = NextSlot)
  BY <1>1, OldestIsTaken
<1>3. WalkTypes /\ WalkShape /\ BoundWhereRead /\ ReadAreBound /\ EntriesInPlace
  BY DEF WalkInv
<1> HIDE DEF request
<1>4. CASE ~Matches(request)
  <2>1. WalkTypes' /\ WalkShape' /\ FlightIsAwaited'
    BY <1>1, <1>2, <1>3, <1>4 DEF WalkTypes, WalkShape, FlightIsAwaited
  <2> QED
    BY <1>1, <1>2, <1>4, <2>1, EntriesAreKept DEF WalkInv
<1>5. CASE Matches(request) /\ walkStage \notin {"ping", "root", "count"}
  <2>1. walkStage = "entry" /\ request.call = "entry"
    BY <1>3, <1>5 DEF Matches, WalkShape, Calls
  <2> QED
    BY <1>1, <1>2, <1>5, <2>1, EntryKeepsWalk
<1>6. ASSUME Matches(request), walkStage \in {"ping", "root", "count"},
             walkStage' \in {"root", "count", "entry", "done", "unsupported", "absent", "setless"},
             UNCHANGED entries,
             UNCHANGED installed \/ \E f \in {0, FeatureSetId} : \E i \in Nat : Install(f, i),
             walkStage' \in {"count", "entry", "done"} => FeatureSetId \in DOMAIN installed',
             walkStage' = "entry" => Len(Table) > 0, walkStage' = "done" => Len(Table) = 0
      PROVE  WalkInv'
  <2>1. entries = << >> /\ Len(entries) = 0
    BY <1>3, <1>6 DEF WalkShape
  <2>2. WalkTypes'
    BY <1>1, <1>2, <1>3, <1>6 DEF WalkTypes, Calls
  <2>3. WalkShape'
    BY <1>1, <1>6, <2>1 DEF WalkShape
  <2>4. FlightIsAwaited'
    BY <1>1, <1>2 DEF FlightIsAwaited
  <2>5. BoundWhereRead'
    <3>1. DOMAIN installed \subseteq {0, FeatureSetId}
      BY <1>3, <2>1 DEF BoundWhereRead
    <3>2. DOMAIN installed' \subseteq {0, FeatureSetId}
      BY <1>6, <3>1 DEF Install
    <3> QED
      BY <3>2 DEF BoundWhereRead
  <2>6. ReadAreBound' /\ EntriesInPlace'
    BY <1>1, <1>3, <1>6, <2>1 DEF ReadAreBound, EntriesInPlace
  <2> QED
    BY <1>2, <2>2, <2>3, <2>4, <2>5, <2>6 DEF WalkInv
<1>7. CASE Matches(request) /\ walkStage = "ping"
  <2>1. TakePong
    BY <1>1, <1>7
  <2>2. UNCHANGED entries /\ walkStage' \in {"root", "unsupported", "absent"}
        /\ (UNCHANGED installed \/ Install(0, 0))
    BY <2>1 DEF TakePong
  <2> QED
    BY <1>6, <1>7, <2>2
<1>8. CASE Matches(request) /\ walkStage = "root"
  <2>1. TakeSetIndex
    BY <1>1, <1>8
  <2>2. /\ UNCHANGED entries
        /\ \/ walkStage' = "setless" /\ UNCHANGED installed
           \/ walkStage' = "count" /\ Install(FeatureSetId, SetIndex)
    BY <2>1 DEF TakeSetIndex
  <2>3. SetIndex \in Nat
    <3>1. SetIndex \in 1..Len(Table)
      BY TableHasSet DEF SetIndex
    <3>2. Len(Table) \in Nat
      BY TableHasSet, LenProperties
    <3> QED
      BY <3>1, <3>2
  <2>4. Install(FeatureSetId, SetIndex) => FeatureSetId \in DOMAIN installed'
    BY DEF Install
  <2> QED
    BY <1>6, <1>8, <2>2, <2>3, <2>4
<1>9. CASE Matches(request) /\ walkStage = "count"
  <2>1. TakeCount
    BY <1>1, <1>9
  <2>2. /\ UNCHANGED <<entries, installed>> /\ Len(Table) \in Nat
        /\ walkStage' = IF Len(Table) = 0 THEN "done" ELSE "entry"
    BY <2>1, TableHasSet, LenProperties DEF TakeCount
  <2>3. FeatureSetId \in DOMAIN installed
    BY <1>3, <1>9 DEF WalkShape
  <2> QED
    BY <1>6, <1>9, <2>2, <2>3
<1> QED
  BY <1>4, <1>5, <1>7, <1>8, <1>9

(* The invariant of a feature walk: for any table with a feature set, any   *)
(* number of attempts and of walks.                                         *)
THEOREM WalkInvHolds == WalkSpec => []WalkInv
<1>1. WalkInit => WalkInv
  BY WalkStarts
<1>2. WalkInv /\ [WalkNext]_walkVars => WalkInv'
  <2> SUFFICES ASSUME WalkInv, [WalkNext]_walkVars PROVE WalkInv'
    OBVIOUS
  <2>1. CASE WalkNext
    BY <2>1, AskKeepsWalk, FailuresKeepWalk, AnswersKeepWalk, AgainKeepsWalk DEF WalkNext
  <2>2. CASE UNCHANGED walkVars
    <3>1. UNCHANGED <<walkStage, asking, flight, entries, installed, overtaken>>
      BY <2>2 DEF walkVars
    <3>2. WalkTypes' /\ WalkShape' /\ SlotsAreOfTable' /\ FlightIsAwaited'
      BY <3>1 DEF WalkInv, WalkTypes, WalkShape, SlotsAreOfTable, FlightIsAwaited, NextSlot
    <3> QED
      BY <3>1, <3>2, EntriesAreKept DEF WalkInv
  <2> QED
    BY <2>1, <2>2
<1> QED
  BY <1>1, <1>2, PTL DEF WalkSpec

(* The feature table the program sees is the device's: every entry in its   *)
(* place unless an answer came after its call had given up, every feature   *)
(* with an implementation bound to an index where it was read               *)
(* (Device::enumerate_features, read_feature_entry).                        *)
THEOREM TablesAreTrue == WalkSpec => []TableIsRight
<1>1. WalkInv => TableIsRight
  <2> SUFFICES ASSUME WalkInv, walkStage = "done" PROVE WalkIsWhole
    BY DEF TableIsRight, WalkInv, WalkIsWhole
  <2>1. Len(entries) = Len(Table) /\ BoundWhereRead /\ ReadAreBound /\ DOMAIN entries = 1..Len(entries)
    BY LenProperties DEF WalkInv, WalkTypes, WalkShape
  <2> QED
    BY <2>1 DEF WalkIsWhole, BoundWhereRead, ReadAreBound
<1> QED
  BY <1>1, WalkInvHolds, PTL

(***************************************************************************)
(* A device's names.                                                       *)
(***************************************************************************)
LEMMA Least == ASSUME NEW T \in SUBSET Nat, T # {} PROVE \E m \in T : \A y \in T : m <= y
<1> DEFINE R == {ss \in Nat \X Nat : ss[1] < ss[2]}
<1>1. R = OpToRel(<, Nat)
  BY DEF OpToRel
<1>2. IsWellFoundedOn(R, Nat)
  BY <1>1, NatLessThanWellFounded
<1> HIDE DEF R
<1>3. PICK m \in T : \A y \in T : ~(<<y, m>> \in R)
  BY <1>2, WFMin
<1>4. \A y \in T : y \in Nat /\ m \in Nat /\ (<<y, m>> \in R <=> y < m)
  BY DEF R
<1>5. ASSUME NEW y \in T PROVE m <= y
  <2>1. ~(<<y, m>> \in R)
    BY <1>3
  <2>2. y \in Nat /\ m \in Nat /\ ~(y < m)
    BY <1>4, <2>1
  <2> QED
    BY <2>2
<1> QED
  BY <1>5

LEMMA Greatest ==
    ASSUME NEW n \in Nat, NEW K \in SUBSET (1..n), K # {}
    PROVE  \E m \in K : \A j \in K : j <= m
<1> DEFINE T == {b \in Nat : \A j \in K : j <= b}
<1>1. n \in T
  OBVIOUS
<1>2. PICK b \in T : \A y \in T : b <= y
  <2>1. T \in SUBSET Nat
    OBVIOUS
  <2> QED
    BY <1>1, <2>1, Least
<1>3. b \in K
  <2>1. SUFFICES ASSUME b \notin K PROVE FALSE
    OBVIOUS
  <2>2. PICK k \in K : TRUE
    OBVIOUS
  <2>3. b - 1 \in Nat /\ \A j \in K : j <= b - 1
    BY <2>1, <2>2
  <2>4. b - 1 \in T
    BY <2>3
  <2> QED
    BY <1>2, <2>3, <2>4
<1> QED
  BY <1>3

\* Where a text without what fills it up ends.
LEMMA TextEnds ==
    ASSUME NEW text \in Seq(Letters)
    PROVE  LastOf(KeptBytes(text)) \in 0..Len(text)
<1> DEFINE kept == KeptBytes(text)
<1>1. Len(text) \in Nat /\ kept \in SUBSET (1..Len(text))
  BY LenProperties DEF KeptBytes
<1> HIDE DEF kept
<1>2. CASE kept = {}
  BY <1>1, <1>2 DEF LastOf, kept
<1>3. CASE kept # {}
  <2>1. \E i \in kept : \A j \in kept : j <= i
    BY <1>1, <1>3, Greatest
  <2>2. LastOf(kept) \in kept
    BY <1>3, <2>1 DEF LastOf
  <2> QED
    BY <1>1, <2>2 DEF kept
<1> QED
  BY <1>2, <1>3

LEMMA TrimmedIsText ==
    ASSUME NEW text \in Seq(Letters)
    PROVE  Trimmed(text) \in Seq(Letters)
<1>1. PICK k \in 0..Len(text) : Trimmed(text) = SubSeq(text, 1, k)
  BY TextEnds DEF Trimmed
<1>2. Len(text) \in Nat /\ k \in Int /\ 1 \in Int
  BY LenProperties
<1>3. \A i \in 1..k : text[i] \in Letters
  BY <1>2
<1> QED
  BY <1>1, <1>2, <1>3, SubSeqProperties

\* A text filled up is trimmed as the text is.
LEMMA PaddingIsTrimmed ==
    ASSUME NEW name \in Seq(Letters), NEW text \in Seq(Letters), Len(name) <= Len(text),
           \A i \in 1..Len(text) : text[i] = IF i <= Len(name) THEN name[i] ELSE Pad
    PROVE  Trimmed(text) = Trimmed(name)
<1>1. Len(name) \in Nat /\ Len(text) \in Nat /\ DOMAIN name = 1..Len(name) /\ DOMAIN text = 1..Len(text)
  BY LenProperties
<1>2. KeptBytes(text) = KeptBytes(name)
  BY <1>1 DEF KeptBytes
<1>3. PICK k \in 0..Len(name) : k = LastOf(KeptBytes(name))
  BY TextEnds
<1>4. Trimmed(text) = SubSeq(text, 1, k) /\ Trimmed(name) = SubSeq(name, 1, k)
  BY <1>2, <1>3 DEF Trimmed
<1>5. k \in Int /\ 1 \in Int /\ k <= Len(name)
  BY <1>1
<1>6. \A i \in 1..k : name[i] \in Letters /\ text[i] = name[i]
  BY <1>1, <1>5
<1>7. /\ SubSeq(name, 1, k) \in Seq(Letters) /\ SubSeq(text, 1, k) \in Seq(Letters)
      /\ Len(SubSeq(name, 1, k)) = Len(SubSeq(text, 1, k))
      /\ Len(SubSeq(name, 1, k)) = IF 1 <= k THEN k - 1 + 1 ELSE 0
      /\ \A i \in 1..k - 1 + 1 : SubSeq(name, 1, k)[i] = name[1 + i - 1]
      /\ \A i \in 1..k - 1 + 1 : SubSeq(text, 1, k)[i] = text[1 + i - 1]
  <2>1. \A i \in 1..k : name[i] \in Letters
    BY <1>6
  <2>2. \A i \in 1..k : text[i] \in Letters
    BY <1>6
  <2> QED
    BY <1>5, <2>1, <2>2, SubSeqProperties
<1>8. \A i \in 1..Len(SubSeq(name, 1, k)) : SubSeq(name, 1, k)[i] = SubSeq(text, 1, k)[i]
  BY <1>5, <1>6, <1>7
<1>9. SubSeq(name, 1, k) = SubSeq(text, 1, k)
  BY <1>7, <1>8, SeqEqual
<1> QED
  BY <1>4, <1>9

LEMMA PartsAreText ==
    ASSUME NEW name \in Seq(Letters), NEW index \in Nat, NEW size \in Nat
    PROVE  /\ PartFrom(name, index, size) \in Seq(Letters)
           /\ Len(PartFrom(name, index, size)) = size
           /\ \A i \in 1..size : PartFrom(name, index, size)[i] =
                                    IF index + i <= Len(name) THEN name[index + i] ELSE Pad
<1>1. Len(name) \in Nat /\ \A i \in 1..Len(name) : name[i] \in Letters
  BY LenProperties
<1>2. \A i \in 1..size :
          (IF index + i <= Len(name) THEN name[index + i] ELSE Pad) \in Letters
  BY <1>1 DEF Letters
<1> DEFINE part == PartFrom(name, index, size)
<1>3. part = [i \in 1..size |-> IF index + i <= Len(name) THEN name[index + i] ELSE Pad]
  BY DEF PartFrom
<1> HIDE DEF part
<1>4. part \in [1..size -> Letters]
  BY <1>2, <1>3
<1>5. part \in Seq(Letters)
  BY <1>4, SeqDef
<1>6. Len(part) = size
  BY <1>4, <1>5, LenProperties
<1>7. \A i \in 1..size : part[i] = IF index + i <= Len(name) THEN name[index + i] ELSE Pad
  BY <1>3
<1> QED
  BY <1>5, <1>6, <1>7 DEF part

ReadStates == {"idle", "busy", "whole", "refused", "failed"}
Reads == [of : {"none", "friendly", "market"}, was : Seq(Letters), size : Nat,
          text : Seq(Letters), result : ReadStates]
WriteStates == {"idle", "busy", "written", "failed"}
NameWrites == [at : WriteStates, rest : Seq(Letters), index : Nat, asked : Seq(Letters)]

LEMMA PartsOfName ==
    ASSUME NameInv
    PROVE  /\ friendly \in Seq(Letters) /\ market \in Seq(Letters) /\ disturbed \in BOOLEAN
           /\ reading \in Reads /\ writing \in NameWrites
           /\ ReadSoFar /\ NamesReadWhole
           /\ reading.was \in Seq(Letters) /\ reading.text \in Seq(Letters) /\ reading.size \in Nat
           /\ writing.rest \in Seq(Letters) /\ writing.index \in Nat
           /\ \A kind : NameOf(kind) \in Seq(Letters)
<1>1. /\ friendly \in Seq(Letters) /\ market \in Seq(Letters) /\ disturbed \in BOOLEAN
      /\ reading \in Reads /\ writing \in NameWrites /\ ReadSoFar /\ NamesReadWhole
  BY DEF NameInv, NameTypes, Reads, ReadStates, NameWrites, WriteStates
<1>2. reading.was \in Seq(Letters) /\ reading.text \in Seq(Letters) /\ reading.size \in Nat
  BY <1>1 DEF Reads
<1>3. writing.rest \in Seq(Letters) /\ writing.index \in Nat
  BY <1>1 DEF NameWrites
<1> QED
  BY <1>1, <1>2, <1>3 DEF NameOf

LEMMA NameTypesOf ==
    ASSUME friendly' \in Seq(Letters), market' \in Seq(Letters), disturbed' \in BOOLEAN,
           reading' \in Reads, writing' \in NameWrites
    PROVE  NameTypes'
  BY DEF NameTypes, Reads, ReadStates, NameWrites, WriteStates

LEMMA NothingTrimmed == Trimmed(<< >>) = << >> /\ << >> \in Seq(Letters)
<1>1. KeptBytes(<< >>) = {}
  BY DEF KeptBytes
<1>2. Trimmed(<< >>) = SubSeq(<< >>, 1, 0)
  BY <1>1 DEF Trimmed, LastOf
<1>3. SubSeq(<< >>, 1, 0) = << >>
  BY SubSeqEmpty
<1> QED
  BY <1>2, <1>3

LEMMA StartReadKeeps ==
    ASSUME NameInv, NEW kind \in {"friendly", "market"}, NEW size, StartReading(kind, size)
    PROVE  NameInv'
<1> DEFINE name == NameOf(kind)
           result0 == IF name = << >> THEN "whole" ELSE "busy"
<1>1. /\ reading' = [of |-> kind, was |-> name, size |-> size, text |-> << >>, result |-> result0]
      /\ disturbed' = FALSE /\ UNCHANGED <<friendly, market, writing>>
  BY DEF StartReading
<1>2. size \in Nat
  BY SizesArePositive DEF StartReading
<1>3. name \in Seq(Letters) /\ NameOf(kind)' = name
  BY <1>1, PartsOfName DEF NameOf
<1>4. result0 \in ReadStates /\ (result0 = "busy" <=> name # << >>) /\ (result0 = "whole" <=> name = << >>)
  BY DEF ReadStates
<1> HIDE DEF name, result0
<1>5. /\ reading'.of = kind /\ reading'.was = name /\ reading'.text = << >>
      /\ reading'.result = result0
  BY <1>1
<1>6. reading' \in Reads
  BY <1>1, <1>2, <1>3, <1>4, NothingTrimmed DEF Reads
<1>7. NameTypes'
  BY <1>1, <1>6, PartsOfName, NameTypesOf
<1>8. ReadSoFar'
  <2>1. name # << >> => Len(<< >>) < Len(name)
    BY <1>3, EmptySeq, LenProperties
  <2>2. \A i \in 1..Len(<< >>) : FALSE
    OBVIOUS
  <2> QED
    BY <1>3, <1>4, <1>5, <2>1, <2>2 DEF ReadSoFar
<1>9. NamesReadWhole'
  BY <1>4, <1>5, NothingTrimmed DEF NamesReadWhole
<1> QED
  BY <1>7, <1>8, <1>9 DEF NameInv

LEMMA ReadPartKeeps == ASSUME NameInv, ReadPart PROVE NameInv'
<1> DEFINE index == NextIndex(reading.text)
           part == PartFrom(NameOf(reading.of), index, reading.size)
           text == reading.text \o part
<1>1. /\ reading.result = "busy" /\ UNCHANGED <<friendly, market, writing, disturbed>>
      /\ \/ reading' = [reading EXCEPT !.result = "refused"]
         \/ /\ Len(text) < Len(reading.was)
            /\ reading' = [reading EXCEPT !.text = text]
         \/ /\ ~(Len(text) < Len(reading.was))
            /\ reading' = [reading EXCEPT !.text = Trimmed(text), !.result = "whole"]
  BY DEF ReadPart
<1>2. /\ reading \in Reads /\ reading.was \in Seq(Letters) /\ reading.text \in Seq(Letters)
      /\ reading.size \in Nat /\ NameOf(reading.of) \in Seq(Letters)
      /\ Len(reading.text) < Len(reading.was)
      /\ ~disturbed => /\ reading.was = NameOf(reading.of)
                       /\ \A i \in 1..Len(reading.text) : reading.text[i] = reading.was[i]
  BY <1>1, PartsOfName DEF ReadSoFar
<1>3. index = Len(reading.text) /\ index \in Nat /\ Len(reading.was) \in Nat
  BY <1>2, LenProperties DEF NextIndex
<1>4. /\ part \in Seq(Letters) /\ Len(part) = reading.size
      /\ \A i \in 1..reading.size : part[i] = IF index + i <= Len(NameOf(reading.of))
                                              THEN NameOf(reading.of)[index + i] ELSE Pad
  BY <1>2, <1>3, PartsAreText
<1> HIDE DEF part
<1>5. /\ text \in Seq(Letters) /\ Len(text) = index + reading.size
      /\ \A i \in 1..(index + reading.size) :
            text[i] = IF i <= index THEN reading.text[i] ELSE part[i - index]
  <2>1. /\ text \in Seq(Letters) /\ Len(text) = Len(reading.text) + Len(part)
        /\ \A i \in 1..(Len(reading.text) + Len(part)) :
              text[i] = IF i <= Len(reading.text) THEN reading.text[i]
                        ELSE part[i - Len(reading.text)]
    BY <1>2, <1>4, ConcatProperties
  <2> HIDE DEF text, index
  <2> QED
    BY <1>3, <1>4, <2>1
<1> HIDE DEF text, index
<1>6. ~disturbed => \A i \in 1..Len(text) :
                       text[i] = IF i <= Len(reading.was) THEN reading.was[i] ELSE Pad
  <2> SUFFICES ASSUME ~disturbed, NEW i \in 1..Len(text)
               PROVE  text[i] = IF i <= Len(reading.was) THEN reading.was[i] ELSE Pad
    OBVIOUS
  <2>1. CASE i <= index
    BY <1>2, <1>3, <1>5, <2>1
  <2>2. CASE ~(i <= index)
    <3>1. i - index \in 1..reading.size /\ index + (i - index) = i
      BY <1>2, <1>3, <1>5, <2>2
    <3>2. text[i] = part[i - index]
      BY <1>5, <2>2
    <3> QED
      BY <1>2, <1>4, <3>1, <3>2
  <2> QED
    BY <2>1, <2>2
<1>7. CASE reading' = [reading EXCEPT !.result = "refused"]
  <2>1. reading' \in Reads /\ reading'.result = "refused"
    BY <1>2, <1>7 DEF Reads, ReadStates
  <2>2. NameTypes'
    BY <1>1, <2>1, PartsOfName, NameTypesOf
  <2> QED
    BY <2>1, <2>2 DEF NameInv, ReadSoFar, NamesReadWhole
<1>8. CASE Len(text) < Len(reading.was) /\ reading' = [reading EXCEPT !.text = text]
  <2>1. /\ reading' \in Reads /\ reading'.result = "busy" /\ reading'.text = text
        /\ reading'.was = reading.was /\ reading'.of = reading.of
    BY <1>1, <1>2, <1>5, <1>8 DEF Reads
  <2>2. NameTypes'
    BY <1>1, <2>1, PartsOfName, NameTypesOf
  <2>3. NameOf(reading.of)' = NameOf(reading.of)
    BY <1>1, <2>1 DEF NameOf
  <2>4. ~disturbed => \A i \in 1..Len(text) : text[i] = reading.was[i]
    <3>1. \A i \in 1..Len(text) : i <= Len(reading.was)
      BY <1>2, <1>3, <1>5, <1>8
    <3> QED
      BY <1>6, <3>1
  <2>5. ReadSoFar'
    BY <1>1, <1>2, <1>8, <2>1, <2>3, <2>4 DEF ReadSoFar
  <2> QED
    BY <2>1, <2>2, <2>5 DEF NameInv, NamesReadWhole
<1>9. CASE /\ ~(Len(text) < Len(reading.was))
           /\ reading' = [reading EXCEPT !.text = Trimmed(text), !.result = "whole"]
  <2>1. Trimmed(text) \in Seq(Letters)
    BY <1>5, TrimmedIsText
  <2>2. /\ reading' \in Reads /\ reading'.result = "whole" /\ reading'.text = Trimmed(text)
        /\ reading'.was = reading.was
    BY <1>2, <1>9, <2>1 DEF Reads, ReadStates
  <2>3. NameTypes'
    BY <1>1, <2>2, PartsOfName, NameTypesOf
  <2>4. ~disturbed => Trimmed(text) = Trimmed(reading.was)
    <3>1. Len(reading.was) <= Len(text)
      BY <1>2, <1>3, <1>5, <1>9
    <3> QED
      BY <1>2, <1>5, <1>6, <3>1, PaddingIsTrimmed
  <2>5. NamesReadWhole'
    BY <1>1, <2>2, <2>4 DEF NamesReadWhole
  <2> QED
    BY <2>2, <2>3, <2>5 DEF NameInv, ReadSoFar
<1> QED
  BY <1>1, <1>7, <1>8, <1>9

\* Writing leaves what is read alone, and says that the name moved.
LEMMA WritesKeepReading ==
    ASSUME NameInv, UNCHANGED <<reading, market>>, friendly' \in Seq(Letters),
           writing' \in NameWrites, disturbed' \in BOOLEAN, disturbed => disturbed',
           reading.result = "busy" => disturbed' \/ friendly' = friendly
    PROVE  NameInv'
<1>1. NameTypes'
  BY PartsOfName, NameTypesOf
<1>2. ReadSoFar'
  BY PartsOfName DEF ReadSoFar, NameOf
<1>3. NamesReadWhole'
  BY PartsOfName DEF NamesReadWhole
<1> QED
  BY <1>1, <1>2, <1>3 DEF NameInv

\* The beginning of a text.
LEMMA CutIsText ==
    ASSUME NEW text \in Seq(Letters), NEW m \in Nat \ {0}, NEW n \in Nat, n <= Len(text)
    PROVE  SubSeq(text, m, n) \in Seq(Letters)
<1>1. \A i \in m..n : text[i] \in Letters
  BY LenProperties
<1> QED
  BY <1>1, SubSeqProperties

LEMMA CappedIsText ==
    ASSUME NEW text \in Seq(Letters)
    PROVE  SubSeq(text, 1, IF Len(text) < MaxName THEN Len(text) ELSE MaxName) \in Seq(Letters)
<1> DEFINE n == IF Len(text) < MaxName THEN Len(text) ELSE MaxName
<1>1. n \in Nat /\ n <= Len(text)
  BY SizesArePositive, LenProperties
<1> HIDE DEF n
<1>2. SubSeq(text, 1, n) \in Seq(Letters)
  BY <1>1, CutIsText
<1> QED
  BY <1>2 DEF n

LEMMA StoredIsText ==
    ASSUME friendly \in Seq(Letters), NEW index \in Nat, NEW part \in Seq(Letters)
    PROVE  Stored(index, part) \in Seq(Letters)
<1> DEFINE before == [i \in 1..index |-> IF i <= Len(friendly) THEN friendly[i] ELSE Pad]
           whole == before \o Trimmed(part)
<1>1. before \in Seq(Letters)
  <2>1. Len(friendly) \in Nat /\ \A i \in 1..Len(friendly) : friendly[i] \in Letters
    BY LenProperties
  <2>2. before \in [1..index -> Letters]
    BY <2>1 DEF Letters
  <2> HIDE DEF before
  <2> QED
    BY <2>2, SeqDef
<1>2. whole \in Seq(Letters)
  BY <1>1, TrimmedIsText, ConcatProperties
<1>3. Stored(index, part) = SubSeq(whole, 1, IF Len(whole) < MaxName THEN Len(whole) ELSE MaxName)
  BY DEF Stored
<1> HIDE DEF whole
<1> QED
  BY <1>2, <1>3, CappedIsText

LEMMA WritesKeepName ==
    ASSUME NameInv, WritePart \/ WritingFails \/ \E new \in NewNames : StartWriting(new)
    PROVE  NameInv'
<1>1. ASSUME NEW new \in NewNames, StartWriting(new) PROVE NameInv'
  <2> DEFINE bytes == SubSeq(new, 1, IF Len(new) < MaxName THEN Len(new) ELSE MaxName)
             at0 == IF bytes = << >> THEN "written" ELSE "busy"
  <2>1. /\ writing' = [at |-> at0, rest |-> bytes, index |-> 0, asked |-> bytes]
        /\ UNCHANGED <<friendly, market, reading, disturbed>>
    BY <1>1 DEF StartWriting
  <2>2. bytes \in Seq(Letters) /\ at0 \in WriteStates
    BY NamesAreText, CappedIsText DEF WriteStates
  <2> HIDE DEF bytes, at0
  <2>3. writing' \in NameWrites
    BY <2>1, <2>2 DEF NameWrites
  <2> QED
    BY <2>1, <2>3, PartsOfName, WritesKeepReading
<1>2. CASE WritePart
  <2> DEFINE part == PartFrom(writing.rest, 0, PartSize)
             left == SubSeq(writing.rest, PartSize + 1, Len(writing.rest))
             at0 == IF left = << >> THEN "written" ELSE "busy"
  <2>1. /\ friendly' = Stored(writing.index, part)
        /\ writing' = [writing EXCEPT !.rest = left, !.index = @ + Len(friendly'), !.at = at0]
        /\ disturbed' = (disturbed \/ reading.result = "busy") /\ UNCHANGED <<market, reading>>
    BY <1>2 DEF WritePart
  <2>2. part \in Seq(Letters) /\ left \in Seq(Letters) /\ at0 \in WriteStates
    <3>1. Len(writing.rest) \in Nat /\ PartSize \in Nat
      BY PartsOfName, SizesArePositive, LenProperties
    <3>2. part \in Seq(Letters)
      BY <3>1, PartsOfName, PartsAreText
    <3>3. left \in Seq(Letters)
      BY <3>1, PartsOfName, CutIsText
    <3>4. at0 \in WriteStates
      BY DEF WriteStates
    <3> QED
      BY <3>2, <3>3, <3>4
  <2> HIDE DEF part, left, at0
  <2>3. friendly' \in Seq(Letters) /\ Len(friendly') \in Nat
    BY <2>1, <2>2, PartsOfName, StoredIsText, LenProperties
  <2>4. writing' \in NameWrites
    <3>1. writing \in NameWrites /\ writing.index + Len(friendly') \in Nat
      BY <2>3, PartsOfName
    <3> QED
      BY <2>1, <2>2, <3>1 DEF NameWrites
  <2>5. disturbed' \in BOOLEAN /\ (disturbed => disturbed') /\ (reading.result = "busy" => disturbed')
    BY <2>1, PartsOfName
  <2> QED
    BY <2>1, <2>3, <2>4, <2>5, WritesKeepReading
<1>3. CASE WritingFails
  <2>1. writing' = [writing EXCEPT !.at = "failed"] /\ UNCHANGED <<friendly, market, reading, disturbed>>
    BY <1>3 DEF WritingFails
  <2>2. writing' \in NameWrites
    BY <2>1, PartsOfName DEF NameWrites, WriteStates
  <2> QED
    BY <2>1, <2>2, PartsOfName, WritesKeepReading
<1> QED
  BY <1>1, <1>2, <1>3

LEMMA ReadFailsKeeps == ASSUME NameInv, ReadFails PROVE NameInv'
<1>1. /\ reading' = [reading EXCEPT !.result = "failed"]
      /\ UNCHANGED <<friendly, market, writing, disturbed>>
  BY DEF ReadFails
<1>2. reading' \in Reads /\ reading'.result = "failed"
  BY <1>1, PartsOfName DEF Reads, ReadStates
<1>3. NameTypes'
  BY <1>1, <1>2, PartsOfName, NameTypesOf
<1> QED
  BY <1>2, <1>3 DEF NameInv, ReadSoFar, NamesReadWhole

(* The invariant of a device's names, for parts and names of any size.      *)
THEOREM NameInvHolds == NameSpec => []NameInv
<1>1. NameInit => NameInv
  <2> SUFFICES ASSUME NameInit PROVE NameInv
    OBVIOUS
  <2>1. /\ friendly \in Seq(Letters) /\ market \in Seq(Letters) /\ disturbed = FALSE
        /\ reading = NotReading /\ writing = NotWriting
    BY NamesAreText DEF NameInit
  <2>2. reading \in Reads /\ writing \in NameWrites /\ reading.result = "idle"
    BY <2>1, NothingTrimmed
       DEF NotReading, NotWriting, Reads, ReadStates, NameWrites, WriteStates
  <2>3. NameTypes
    BY <2>1, <2>2 DEF NameTypes, Reads, ReadStates, NameWrites, WriteStates
  <2> QED
    BY <2>2, <2>3 DEF NameInv, ReadSoFar, NamesReadWhole
<1>2. NameInv /\ [NameNext]_nameVars => NameInv'
  <2> SUFFICES ASSUME NameInv, [NameNext]_nameVars PROVE NameInv'
    OBVIOUS
  <2>1. CASE NameNext
    BY <2>1, StartReadKeeps, ReadPartKeeps, ReadFailsKeeps, WritesKeepName DEF NameNext
  <2>2. CASE UNCHANGED nameVars
    BY <2>2, PartsOfName, WritesKeepReading DEF nameVars
  <2> QED
    BY <2>1, <2>2
<1> QED
  BY <1>1, <1>2, PTL DEF NameSpec

(* A name read while nobody wrote it is the device's, whatever the sizes of *)
(* its parts and wherever they begin and end (get_whole_device_name,        *)
(* get_whole_friendly_name, get_whole_default_friendly_name).               *)
THEOREM NamesAreWhole == NameSpec => []NamesReadWhole
<1>1. NameInv => NamesReadWhole
  BY DEF NameInv
<1> QED
  BY <1>1, NameInvHolds, PTL
-----------------------------------------------------------------------------
(***************************************************************************)
(* Tables read in pieces (DeviceTables), for any bytes, pages and tables.  *)
(***************************************************************************)

\* What a list of words reads from a place on, g being what it reads from
\* the places behind it.
ReadAt(g, words, paged, i) ==
    IF i > Len(words) THEN {}
    ELSE IF ~Tagged(words[i]) THEN {words[i]} \cup g[i + 1]
    ELSE IF Broken(words, i, paged) THEN Refusal
    ELSE Stepped(words[i - 1], words[i + 1], Step(words[i])) \cup g[i + 2]
ReadsFrom(g, words, paged, n) ==
    g = [i \in n..(Len(words) + 1) |-> ReadAt(g, words, paged, i)]

LEMMA ReadingIsDefined ==
    ASSUME NEW words, Len(words) \in Nat, NEW paged \in BOOLEAN
    PROVE  \A k \in 0..Len(words) : \E g : ReadsFrom(g, words, paged, Len(words) + 1 - k)
<1> DEFINE len == Len(words)
           Bad == {k \in 0..len : ~\E g : ReadsFrom(g, words, paged, len + 1 - k)}
<1> SUFFICES ASSUME Bad # {} PROVE FALSE
  OBVIOUS
<1>1. PICK m \in Bad : \A y \in Bad : m <= y
  <2>1. Bad \in SUBSET Nat
    OBVIOUS
  <2> HIDE DEF Bad
  <2> QED
    BY <2>1, Least
<1>2. m \in 0..len /\ ~\E g : ReadsFrom(g, words, paged, len + 1 - m)
  OBVIOUS
<1>3. CASE m = 0
  <2> DEFINE g == [i \in (len + 1)..(len + 1) |-> {}]
  <2>1. \A i \in (len + 1)..(len + 1) : g[i] = ReadAt(g, words, paged, i)
    BY DEF ReadAt
  <2>2. g = [i \in (len + 1)..(len + 1) |-> g[i]]
    OBVIOUS
  <2> HIDE DEF g
  <2>3. ReadsFrom(g, words, paged, len + 1)
    BY <2>1, <2>2 DEF ReadsFrom
  <2> QED
    BY <1>2, <1>3, <2>3
<1>4. CASE m # 0
  <2> DEFINE n == len + 1 - m
  <2>1. m - 1 \in 0..len /\ m - 1 \notin Bad
    <3>1. m - 1 \in 0..len /\ ~(m <= m - 1)
      BY <1>2, <1>4
    <3> HIDE DEF Bad
    <3> QED
      BY <1>1, <3>1
  <2>2. PICK h : ReadsFrom(h, words, paged, len + 1 - (m - 1))
    BY <2>1
  <2> HIDE DEF Bad
  <2>3. n \in 1..len /\ len + 1 - (m - 1) = n + 1
    BY <1>2, <1>4
  <2> HIDE DEF n
  <2>4. \A i \in (n + 1)..(len + 1) : h[i] = ReadAt(h, words, paged, i)
    BY <2>2, <2>3 DEF ReadsFrom
  <2> DEFINE g == [i \in n..(len + 1) |-> IF i = n THEN ReadAt(h, words, paged, n) ELSE h[i]]
  <2>5. g[n] = ReadAt(h, words, paged, n)
    BY <2>3
  <2>6. \A i \in (n + 1)..(len + 1) : g[i] = h[i]
    BY <2>3
  <2>7. g = [i \in n..(len + 1) |-> g[i]]
    OBVIOUS
  <2> HIDE DEF g
  <2>8. ASSUME NEW i \in n..len PROVE ReadAt(g, words, paged, i) = ReadAt(h, words, paged, i)
    <3>1. i + 1 \in (n + 1)..(len + 1) /\ (i # len => i + 2 \in (n + 1)..(len + 1))
      BY <2>3
    <3>2. g[i + 1] = h[i + 1] /\ (i # len => g[i + 2] = h[i + 2])
      BY <2>6, <3>1
    <3>3. i = len => Broken(words, i, paged)
      BY DEF Broken
    <3> QED
      BY <3>2, <3>3 DEF ReadAt
  <2>9. \A i \in n..(len + 1) : g[i] = ReadAt(g, words, paged, i)
    <3>1. ASSUME NEW i \in n..(len + 1) PROVE g[i] = ReadAt(g, words, paged, i)
      <4>1. CASE i = n
        BY <2>3, <2>5, <2>8, <4>1
      <4>2. CASE i = len + 1
        <5>1. i \in (n + 1)..(len + 1) /\ i > len
          BY <2>3, <4>2
        <5> QED
          BY <2>4, <2>6, <5>1 DEF ReadAt
      <4>3. CASE i # n /\ i # len + 1
        <5>1. i \in (n + 1)..(len + 1) /\ i \in n..len
          BY <2>3, <4>3
        <5> QED
          BY <2>4, <2>6, <2>8, <5>1
      <4> QED
        BY <4>1, <4>2, <4>3
    <3> QED
      BY <3>1
  <2>10. ReadsFrom(g, words, paged, n)
    BY <2>7, <2>9 DEF ReadsFrom
  <2> QED
    BY <1>2, <2>10 DEF n
<1> QED
  BY <1>3, <1>4

\* The values of a list are what it reads from its first word on.
LEMMA ValuesAreRead ==
    ASSUME NEW words, Len(words) \in Nat, NEW paged \in BOOLEAN
    PROVE  \E g : /\ \A i \in 1..(Len(words) + 1) : g[i] = ReadAt(g, words, paged, i)
                  /\ DpiValues(words, paged) = IF g[1] = {} \/ 0 \in g[1] THEN Refusal ELSE g[1]
<1> DEFINE u == CHOOSE g : g = [i \in 1..(Len(words) + 1) |->
                IF i > Len(words) THEN {}
                ELSE IF ~Tagged(words[i]) THEN {words[i]} \cup g[i + 1]
                ELSE IF Broken(words, i, paged) THEN Refusal
                ELSE Stepped(words[i - 1], words[i + 1], Step(words[i])) \cup g[i + 2]]
<1>1. \E g : ReadsFrom(g, words, paged, 1)
  <2>1. Len(words) \in 0..Len(words) /\ Len(words) + 1 - Len(words) = 1
    OBVIOUS
  <2> QED
    BY <2>1, ReadingIsDefined
<1>2. u = [i \in 1..(Len(words) + 1) |->
                IF i > Len(words) THEN {}
                ELSE IF ~Tagged(words[i]) THEN {words[i]} \cup u[i + 1]
                ELSE IF Broken(words, i, paged) THEN Refusal
                ELSE Stepped(words[i - 1], words[i + 1], Step(words[i])) \cup u[i + 2]]
  BY <1>1, Zenon DEF ReadsFrom, ReadAt
<1>3. DpiValues(words, paged) = IF u[1] = {} \/ 0 \in u[1] THEN Refusal ELSE u[1]
  BY Zenon DEF DpiValues
<1> HIDE DEF u
<1>4. \A i \in 1..(Len(words) + 1) : u[i] = ReadAt(u, words, paged, i)
  BY <1>2 DEF ReadAt
<1> QED
  BY <1>3, <1>4

LEMMA TagIsNatural ==
    /\ HyphenTag \in Nat
    /\ \A w \in Nat : Tagged(w) => Step(w) \in Nat
<1>1. Base * Base \in Nat
  BY SizesAreNatural
<1>2. (Base * Base) \div 8 \in Nat
  BY <1>1
<1>3. HyphenTag \in Nat
  BY <1>2 DEF HyphenTag
<1> QED
  BY <1>3 DEF Tagged, Step

LEMMA Division ==
    ASSUME NEW x \in Nat, NEW s \in Nat \ {0}
    PROVE  /\ x \div s \in Nat /\ x % s \in 0..(s - 1)
           /\ x = s * (x \div s) + (x % s)
OBVIOUS

\* What is a whole number of steps away has no remainder.
LEMMA Remainder ==
    ASSUME NEW x \in Nat, NEW s \in Nat \ {0}
    PROVE  x % s = 0 <=> \E n \in 0..x : x = n * s
<1>1. /\ x \div s \in Nat /\ x % s \in 0..(s - 1)
      /\ x = s * (x \div s) + (x % s)
  BY Division
<1>2. ASSUME x % s = 0 PROVE \E n \in 0..x : x = n * s
  <2> DEFINE n == x \div s
  <2>1. n \in Nat /\ x = n * s
    BY <1>1, <1>2
  <2> HIDE DEF n
  <2>2. n <= n * s
    BY <2>1
  <2> QED
    BY <2>1, <2>2
<1>3. ASSUME NEW n \in 0..x, x = n * s PROVE x % s = 0
  <2> DEFINE q == x \div s
             d == n - q
             r == x % s
  <2>1. q \in Nat /\ d \in Int /\ r \in 0..(s - 1)
    BY <1>1
  <2>2. d * s = r
    BY <1>1, <1>3
  <2> HIDE DEF q, d, r
  <2>3. ~(d >= 1)
    BY <2>1, <2>2
  <2>4. ~(d <= -1)
    BY <2>1, <2>2
  <2>5. d = 0
    BY <2>1, <2>3, <2>4
  <2>6. r = 0
    BY <2>2, <2>5
  <2> QED
    BY <2>6 DEF r
<1> QED
  BY <1>2, <1>3

LEMMA RangeIsStepped ==
    ASSUME NEW from \in Nat, NEW to \in Nat, NEW s \in Nat \ {0}, from <= to
    PROVE  Stepped(from, to, s) =
               {v \in from..to : \E n \in 0..v : v = from + n * s} \cup {to}
<1>1. ASSUME NEW v \in from..to
      PROVE  (v - from) % s = 0 <=> \E n \in 0..v : v = from + n * s
  <2>1. v - from \in Nat /\ v \in Nat
    BY <1>1
  <2>2. (v - from) % s = 0 <=> \E n \in 0..(v - from) : v - from = n * s
    BY <2>1, Remainder
  <2>3. ASSUME NEW n \in 0..(v - from), v - from = n * s
        PROVE  n \in 0..v /\ v = from + n * s
    <3>1. n * s \in Nat
      BY <2>1, <2>3
    <3> QED
      BY <2>1, <2>3, <3>1
  <2>4. ASSUME NEW n \in 0..v, v = from + n * s
        PROVE  n \in 0..(v - from) /\ v - from = n * s
    <3>1. n * s \in Nat /\ n <= n * s
      BY <2>1, <2>4
    <3> QED
      BY <2>1, <2>4, <3>1
  <2> QED
    BY <2>2, <2>3, <2>4
<1> QED
  BY <1>1 DEF Stepped

\* What a list supports from a place on.
ValuesOfStep(list, j) ==
    {v \in list[j - 1]..list[j + 1] : \E n \in 0..v : v = list[j - 1] + n * Step(list[j])}
SupportsFrom(list, i) ==
    {list[j] : j \in {k \in i..Len(list) : ~Tagged(list[k])}}
    \cup UNION {ValuesOfStep(list, j) : j \in {k \in i..Len(list) : Tagged(list[k])}}

LEMMA WellFormedIsRead ==
    ASSUME NEW list \in Seq(Nat \ {0}), WellFormedList(list), NEW paged \in BOOLEAN
    PROVE  DpiValues(list, paged) = Supports(list) /\ Supports(list) # {} /\ 0 \notin Supports(list)
<1>1. /\ Len(list) \in Nat /\ DOMAIN list = 1..Len(list) /\ Len(list) # 0
      /\ \A i \in 1..Len(list) : list[i] \in Nat \ {0}
  BY DEF WellFormedList
<1>2. \A i \in 1..Len(list) : Tagged(list[i]) =>
          /\ i > 1 /\ i < Len(list) /\ Step(list[i]) > 0 /\ Step(list[i]) \in Nat
          /\ ~Tagged(list[i - 1]) /\ ~Tagged(list[i + 1])
          /\ list[i - 1] <= list[i + 1]
  BY <1>1, TagIsNatural DEF WellFormedList
<1> DEFINE len == Len(list)
<1>3. PICK g : /\ \A i \in 1..(len + 1) : g[i] = ReadAt(g, list, paged, i)
               /\ DpiValues(list, paged) = IF g[1] = {} \/ 0 \in g[1] THEN Refusal ELSE g[1]
  BY <1>1, ValuesAreRead
<1>4. \A i \in 1..(len + 1) : g[i] = SupportsFrom(list, i)
  <2> DEFINE Bad == {k \in 0..len : g[len + 1 - k] # SupportsFrom(list, len + 1 - k)}
  <2>1. CASE Bad # {}
    <3>1. PICK m \in Bad : \A y \in Bad : m <= y
      <4>1. Bad \in SUBSET Nat
        OBVIOUS
      <4> HIDE DEF Bad
      <4> QED
        BY <2>1, <4>1, Least
    <3> DEFINE n == len + 1 - m
    <3>2. m \in 0..len /\ n \in 1..(len + 1) /\ g[n] # SupportsFrom(list, n)
      BY <1>1
    <3>3. ASSUME NEW i \in (n + 1)..(len + 1) PROVE g[i] = SupportsFrom(list, i)
      <4>1. len + 1 - i \in 0..len /\ ~(m <= len + 1 - i) /\ len + 1 - (len + 1 - i) = i
        BY <1>1, <3>2
      <4>2. len + 1 - i \notin Bad
        <5> HIDE DEF Bad
        <5> QED
          BY <3>1, <4>1
      <4> QED
        BY <4>1, <4>2
    <3> HIDE DEF Bad, n
    <3>4. g[n] = ReadAt(g, list, paged, n)
      BY <1>3, <3>2
    <3>5. CASE n = len + 1
      <4>1. SupportsFrom(list, n) = {}
        BY <1>1, <3>5 DEF SupportsFrom
      <4>2. g[n] = {}
        BY <1>1, <3>4, <3>5 DEF ReadAt
      <4> QED
        BY <3>2, <4>1, <4>2
    <3>6. CASE n # len + 1 /\ ~Tagged(list[n])
      <4>1. n \in 1..len /\ n + 1 \in (n + 1)..(len + 1)
        BY <1>1, <3>2, <3>6
      <4>2. g[n] = {list[n]} \cup SupportsFrom(list, n + 1)
        BY <1>1, <3>3, <3>4, <3>6, <4>1 DEF ReadAt
      <4>3. \A k \in n..len : k = n \/ k \in (n + 1)..len
        BY <1>1, <4>1
      <4>4. (n + 1)..len \subseteq n..len /\ n \in n..len
        BY <1>1, <4>1
      <4>5. SupportsFrom(list, n) = {list[n]} \cup SupportsFrom(list, n + 1)
        BY <3>6, <4>3, <4>4 DEF SupportsFrom
      <4> QED
        BY <3>2, <4>2, <4>5
    <3>7. CASE n # len + 1 /\ Tagged(list[n])
      <4>1. /\ n \in 1..len /\ n > 1 /\ n < len /\ Step(list[n]) \in Nat \ {0}
            /\ ~Tagged(list[n + 1]) /\ list[n - 1] <= list[n + 1]
        BY <1>1, <1>2, <3>2, <3>7
      <4>2. list[n - 1] \in Nat /\ list[n + 1] \in Nat
        BY <1>1, <4>1
      <4>3. ~Broken(list, n, paged)
        <5>1. Step(list[n]) # 0
          BY <4>1
        <5>3. n # len /\ n # 1
          <6> HIDE DEF len
          <6>1. n \in Nat /\ len \in Nat /\ n > 1 /\ n < len
            BY <1>1, <4>1 DEF len
          <6> QED
            BY ONLY <6>1
        <5>2. ~(list[n + 1] < list[n - 1])
          BY <4>1, <4>2
        <5> QED
          BY <4>1, <5>1, <5>2, <5>3 DEF Broken
      <4>4. n + 2 \in (n + 1)..(len + 1)
        BY <1>1, <4>1
      <4>5. g[n] = Stepped(list[n - 1], list[n + 1], Step(list[n])) \cup SupportsFrom(list, n + 2)
        BY <1>1, <3>3, <3>4, <3>7, <4>1, <4>3, <4>4 DEF ReadAt
      <4>6. Stepped(list[n - 1], list[n + 1], Step(list[n])) = ValuesOfStep(list, n) \cup {list[n + 1]}
        BY ZenonT(60), <4>1, <4>2, RangeIsStepped DEF ValuesOfStep
      <4>7. \A k \in n..len : k = n \/ k = n + 1 \/ k \in (n + 2)..len
        BY <1>1, <4>1
      <4>8. (n + 2)..len \subseteq n..len /\ n \in n..len /\ n + 1 \in n..len
        BY <1>1, <4>1
      <4>9. SupportsFrom(list, n) = ValuesOfStep(list, n) \cup {list[n + 1]} \cup SupportsFrom(list, n + 2)
        BY <3>7, <4>1, <4>7, <4>8 DEF SupportsFrom
      <4> QED
        BY <3>2, <4>5, <4>6, <4>9
    <3> QED
      BY <3>5, <3>6, <3>7
  <2>2. CASE Bad = {}
    <3>1. ASSUME NEW i \in 1..(len + 1) PROVE g[i] = SupportsFrom(list, i)
      <4>1. len + 1 - i \in 0..len /\ len + 1 - (len + 1 - i) = i
        BY <1>1
      <4> QED
        BY <2>2, <4>1
    <3> QED
      BY <3>1
  <2> QED
    BY <2>1, <2>2
<1>5. SupportsFrom(list, 1) = Supports(list)
  BY <1>1 DEF SupportsFrom, Supports, ValuesOfStep
<1>6. g[1] = Supports(list)
  BY <1>1, <1>4, <1>5
<1>7. Supports(list) # {}
  <2>1. 1 \in DOMAIN list /\ ~Tagged(list[1])
    BY <1>1, <1>2
  <2> QED
    BY <2>1 DEF Supports
<1>8. 0 \notin Supports(list)
  <2>1. ASSUME NEW i \in DOMAIN list, Tagged(list[i]), 0 \in list[i - 1]..list[i + 1] PROVE FALSE
    BY <1>1, <1>2, <2>1
  <2>2. ASSUME NEW i \in DOMAIN list, list[i] = 0 PROVE FALSE
    BY <1>1, <2>2
  <2> QED
    BY <2>1, <2>2 DEF Supports
<1> QED
  BY <1>3, <1>6, <1>7, <1>8

\* The pages of a list that is not well-formed are refused.
LEMMA MalformedIsRefused ==
    ASSUME NEW list \in Seq(Nat \ {0}), ~WellFormedList(list)
    PROVE  ExtendedValues(list) = Refusal
<1>1. /\ Len(list) \in Nat /\ DOMAIN list = 1..Len(list)
      /\ \A i \in 1..Len(list) : list[i] \in Nat \ {0}
      /\ Len(list) = 0 <=> list = <<>>
  OBVIOUS
<1> DEFINE len == Len(list)
<1>2. PICK g : /\ \A i \in 1..(len + 1) : g[i] = ReadAt(g, list, TRUE, i)
               /\ DpiValues(list, TRUE) = IF g[1] = {} \/ 0 \in g[1] THEN Refusal ELSE g[1]
  BY <1>1, ValuesAreRead
<1>3. CASE list = <<>>
  <2>1. 1 \in 1..(len + 1) /\ 1 > len
    BY <1>1, <1>3
  <2>2. g[1] = {}
    BY <1>2, <2>1 DEF ReadAt
  <2> QED
    BY <1>2, <2>2 DEF ExtendedValues
<1>4. CASE list # <<>>
  <2> DEFINE Wrong(j) == j \in 1..len /\ Tagged(list[j]) /\ Broken(list, j, TRUE)
  <2>1. \E j \in 1..len : Wrong(j)
    <3>1. PICK i \in 1..len : /\ Tagged(list[i])
                              /\ ~(/\ i > 1 /\ i < len /\ Step(list[i]) > 0
                                   /\ ~Tagged(list[i - 1]) /\ ~Tagged(list[i + 1])
                                   /\ list[i - 1] <= list[i + 1])
      BY <1>1, <1>4 DEF WellFormedList
    <3>2. Step(list[i]) \in Nat
      BY <1>1, <3>1, TagIsNatural
    <3>3. CASE i > 1 /\ Tagged(list[i - 1])
      <4>1. i - 1 \in 1..len /\ (i - 1) + 1 = i
        BY <1>1, <3>3
      <4>2. Broken(list, i - 1, TRUE)
        BY <3>1, <4>1 DEF Broken
      <4> QED
        BY <3>3, <4>1, <4>2
    <3>4. CASE ~(i > 1 /\ Tagged(list[i - 1]))
      <4>1. CASE i = 1 \/ i = len \/ Step(list[i]) = 0 \/ Tagged(list[i + 1])
        <5>1. Broken(list, i, TRUE)
          BY <4>1 DEF Broken
        <5> QED
          BY <3>1, <5>1
      <4>2. CASE ~(i = 1 \/ i = len \/ Step(list[i]) = 0 \/ Tagged(list[i + 1]))
        <5>1. i > 1 /\ i < len /\ Step(list[i]) > 0
          <6>1. i # 1 /\ i # len
            BY <4>2
          <6>3. i \in 1..len /\ len \in Nat
            BY <1>1
          <6> HIDE DEF len
          <6>2. i > 1 /\ i < len
            BY <6>1, <6>3
          <6> QED
            BY <3>2, <4>2, <6>2
        <5>2. list[i - 1] \in Nat /\ list[i + 1] \in Nat
          BY <1>1, <5>1
        <5>3. list[i + 1] < list[i - 1]
          BY <3>1, <3>4, <4>2, <5>1, <5>2
        <5>4. Broken(list, i, TRUE)
          BY <5>3 DEF Broken
        <5> QED
          BY <3>1, <5>4
      <4> QED
        BY <4>1, <4>2
    <3> QED
      BY <3>3, <3>4
  <2>2. PICK w : Wrong(w)
    BY <2>1
  <2> DEFINE Bad == {k \in 0..len : len + 1 - k <= w /\ 0 \notin g[len + 1 - k]}
  <2>3. Bad = {}
    <3> SUFFICES ASSUME Bad # {} PROVE FALSE
      OBVIOUS
    <3>1. PICK m \in Bad : \A y \in Bad : m <= y
      <4>1. Bad \in SUBSET Nat
        OBVIOUS
      <4> HIDE DEF Bad
      <4> QED
        BY <4>1, Least
    <3> DEFINE n == len + 1 - m
    <3>2. m \in 0..len /\ n \in 1..len /\ n <= w /\ w \in 1..len /\ 0 \notin g[n]
      BY <1>1, <2>2
    <3>3. ASSUME NEW i \in (n + 1)..len, i <= w PROVE 0 \in g[i]
      <4>1. len + 1 - i \in 0..len /\ ~(m <= len + 1 - i) /\ len + 1 - (len + 1 - i) = i
        <5>1. len \in Nat /\ m \in 0..len
          BY <1>1, <3>2
        <5> HIDE DEF Bad, len
        <5> QED
          BY <5>1
      <4>2. len + 1 - i \notin Bad
        <5> HIDE DEF Bad
        <5> QED
          BY <3>1, <4>1
      <4> QED
        BY <3>3, <4>1, <4>2
    <3> HIDE DEF Bad, n
    <3>4. g[n] = ReadAt(g, list, TRUE, n)
      <4>1. n \in 1..(len + 1)
        BY <1>1, <3>2
      <4> QED
        BY <1>2, <4>1
    <3>5. CASE ~Tagged(list[n])
      <4>1. n + 1 \in (n + 1)..len /\ n + 1 <= w
        BY <1>1, <2>2, <3>2, <3>5
      <4>2. g[n] = {list[n]} \cup g[n + 1]
        BY <1>1, <3>2, <3>4, <3>5 DEF ReadAt
      <4> QED
        BY <3>2, <3>3, <4>1, <4>2
    <3>6. CASE Tagged(list[n]) /\ Broken(list, n, TRUE)
      <4>1. g[n] = Refusal
        BY <1>1, <3>2, <3>4, <3>6 DEF ReadAt
      <4> QED
        BY <3>2, <4>1 DEF Refusal
    <3>7. CASE Tagged(list[n]) /\ ~Broken(list, n, TRUE)
      <4>1. ~Tagged(list[n + 1]) /\ n # len
        BY <3>7 DEF Broken
      <4>2. n # w /\ n + 1 # w
        BY <2>2, <3>7, <4>1
      <4>3. n + 2 \in (n + 1)..len /\ n + 2 <= w
        BY <1>1, <3>2, <4>2
      <4>4. g[n] = Stepped(list[n - 1], list[n + 1], Step(list[n])) \cup g[n + 2]
        BY <1>1, <3>2, <3>4, <3>7 DEF ReadAt
      <4> QED
        BY <3>2, <3>3, <4>3, <4>4
    <3> QED
      BY <3>5, <3>6, <3>7
  <2>4. 0 \in g[1]
    <3>1. len \in 0..len /\ len + 1 - len = 1 /\ 1 <= w
      BY <1>1, <2>2
    <3> QED
      BY <2>3, <3>1
  <2> QED
    BY <1>2, <2>4 DEF ExtendedValues
<1> QED
  BY <1>3, <1>4

\* Two bytes that follow each other are the word they are of.
LEMMA BytesAreOfWords ==
    ASSUME dpiList \in Seq(1..(Base * Base - 1)), NEW k \in Nat \ {0}
    PROVE  /\ WordAt(k) \in Nat /\ (WordAt(k) = 0 <=> k > Len(dpiList))
           /\ Base * ByteAt(2 * k - 1) + ByteAt(2 * k) = WordAt(k)
<1>1. WordAt(k) \in Nat /\ (WordAt(k) = 0 <=> k > Len(dpiList))
  <2> DEFINE W == 1..(Base * Base - 1)
  <2>1. Len(dpiList) \in Nat /\ \A i \in 1..Len(dpiList) : dpiList[i] \in W
    <3>1. dpiList \in Seq(W)
      OBVIOUS
    <3> HIDE DEF W
    <3> QED
      BY <3>1
  <2>2. Base * Base \in Nat
    BY SizesAreNatural
  <2>3. \A v \in 1..(Base * Base - 1) : v \in Nat /\ v # 0
    BY <2>2
  <2>4. CASE k <= Len(dpiList)
    <3>1. k \in 1..Len(dpiList)
      BY <2>1, <2>4
    <3>2. dpiList[k] \in Nat /\ dpiList[k] # 0
      BY <2>1, <2>3, <3>1
    <3> QED
      BY <2>1, <2>4, <3>2 DEF WordAt
  <2>5. CASE ~(k <= Len(dpiList))
    BY <2>1, <2>5 DEF WordAt
  <2> QED
    BY <2>4, <2>5
<1>2. ByteAt(2 * k - 1) = WordAt(k) \div Base
  <2>1. (2 * k - 1) % 2 = 1 /\ ((2 * k - 1) + 1) \div 2 = k
    OBVIOUS
  <2> QED
    BY <2>1 DEF ByteAt
<1>3. ByteAt(2 * k) = WordAt(k) % Base
  <2>1. (2 * k) % 2 # 1 /\ (2 * k) \div 2 = k
    OBVIOUS
  <2> QED
    BY <2>1 DEF ByteAt
<1>4. WordAt(k) = Base * (WordAt(k) \div Base) + (WordAt(k) % Base)
  BY <1>1, SizesAreNatural, Division
<1> QED
  BY <1>1, <1>2, <1>3, <1>4

\* A page continues the stream.
LEMMA PagesFollow ==
    ASSUME NEW n \in Nat, NEW m \in Nat
    PROVE  BytesFrom(1, n) \o BytesFrom(n + 1, m) = BytesFrom(1, n + m)
<1>1. /\ BytesFrom(1, n) = [i \in 1..n |-> ByteAt(i)]
      /\ BytesFrom(n + 1, m) = [i \in 1..m |-> ByteAt(n + i)]
      /\ BytesFrom(1, n + m) = [i \in 1..(n + m) |-> ByteAt(i)]
  <2>1. \A i \in 1..(n + m) : 1 + i - 1 = i
    OBVIOUS
  <2>2. \A i \in 1..n : 1 + i - 1 = i
    OBVIOUS
  <2>3. \A i \in 1..m : n + 1 + i - 1 = n + i
    OBVIOUS
  <2> QED
    BY <2>1, <2>2, <2>3 DEF BytesFrom
<1> DEFINE B == [i \in 1..n |-> ByteAt(i)]
           C == [i \in 1..m |-> ByteAt(n + i)]
<1>2. Len(B) = n /\ Len(C) = m
  OBVIOUS
<1>3. B \o C = [i \in 1..(n + m) |-> IF i <= n THEN B[i] ELSE C[i - n]]
  BY <1>2
<1>4. \A i \in 1..(n + m) : (IF i <= n THEN B[i] ELSE C[i - n]) = ByteAt(i)
  <2>1. ASSUME NEW i \in 1..(n + m), i <= n PROVE B[i] = ByteAt(i)
    <3>1. i \in 1..n
      BY <2>1
    <3> QED
      BY <3>1
  <2>2. ASSUME NEW i \in 1..(n + m), ~(i <= n) PROVE C[i - n] = ByteAt(i)
    <3>1. i - n \in 1..m /\ n + (i - n) = i
      BY <2>2
    <3> QED
      BY <3>1
  <2> HIDE DEF B, C
  <2> QED
    BY <2>1, <2>2
<1> HIDE DEF B, C
<1>5. B \o C = [i \in 1..(n + m) |-> ByteAt(i)]
  BY <1>3, <1>4
<1> QED
  BY <1>1, <1>5 DEF B, C

\* The words of the first bytes are the words of the list and zeros.
LEMMA WordsAreOfTheList ==
    ASSUME dpiList \in Seq(1..(Base * Base - 1)), NEW n \in Nat
    PROVE  Words(BytesFrom(1, n)) = [k \in 1..(n \div 2) |-> WordAt(k)]
<1> DEFINE bytes == BytesFrom(1, n)
<1>1. Len(bytes) = n /\ \A i \in 1..n : bytes[i] = ByteAt(i)
  <2>1. \A i \in 1..n : 1 + i - 1 = i
    OBVIOUS
  <2> QED
    BY <2>1 DEF BytesFrom
<1>2. n \div 2 \in Nat /\ 2 * (n \div 2) <= n
  OBVIOUS
<1> HIDE DEF bytes
<1>3. ASSUME NEW k \in 1..(n \div 2)
      PROVE  Base * bytes[2 * k - 1] + bytes[2 * k] = WordAt(k)
  <2>1. 2 * k - 1 \in 1..n /\ 2 * k \in 1..n /\ k \in Nat \ {0}
    BY <1>2
  <2> QED
    BY <1>1, <2>1, BytesAreOfWords
<1>4. Words(bytes) = [k \in 1..(n \div 2) |-> Base * bytes[2 * k - 1] + bytes[2 * k]]
  BY <1>1 DEF Words
<1> QED
  BY <1>3, <1>4 DEF bytes

\* A zero is among them when the list has ended, and before it is the list.
LEMMA ListEnds ==
    ASSUME dpiList \in Seq(1..(Base * Base - 1)), NEW n \in Nat
    PROVE  LET words == Words(BytesFrom(1, n))
           IN  /\ Terminators(words) # {} <=> n \div 2 > Len(dpiList)
               /\ n \div 2 >= Len(dpiList) => Until(words) = dpiList
<1> DEFINE words == Words(BytesFrom(1, n))
           k == n \div 2
           len == Len(dpiList)
<1>1. words = [i \in 1..k |-> WordAt(i)]
  BY WordsAreOfTheList
<1>2. k \in Nat /\ len \in Nat /\ dpiList = [i \in 1..len |-> dpiList[i]]
  OBVIOUS
<1>3. \A i \in 1..len : WordAt(i) = dpiList[i]
  BY DEF WordAt
<1>4. \A i \in 1..k : words[i] = WordAt(i) /\ (words[i] = 0 <=> i > len)
  <2>1. \A i \in 1..k : i \in Nat \ {0} /\ words[i] = WordAt(i)
    BY <1>1, <1>2
  <2> HIDE DEF words, k
  <2> QED
    BY <2>1, BytesAreOfWords
<1>5. DOMAIN words = 1..k /\ Len(words) = k
  BY <1>1, <1>2
<1> HIDE DEF words, k, len
<1>6. Terminators(words) = {i \in 1..k : i > len}
  BY <1>4, <1>5 DEF Terminators
<1>7. Terminators(words) # {} <=> k > len
  <2>1. k > len => k \in Terminators(words)
    BY <1>2, <1>6
  <2>2. \A i \in Terminators(words) : k > len
    BY <1>2, <1>6
  <2> QED
    BY <2>1, <2>2
<1>8. ASSUME k >= len PROVE Until(words) = dpiList
  <2>1. CASE k = len
    <3>1. Terminators(words) = {}
      BY <1>2, <1>7, <2>1
    <3>2. words = dpiList
      BY <1>1, <1>2, <1>3, <2>1
    <3> QED
      BY <3>1, <3>2 DEF Until
  <2>2. CASE k > len
    <3>1. len + 1 \in Terminators(words) /\ \A j \in Terminators(words) : len + 1 <= j /\ j \in Nat
      BY <1>2, <1>6, <2>2
    <3> DEFINE e == CHOOSE i \in Terminators(words) : \A j \in Terminators(words) : i <= j
    <3>2. e \in Terminators(words) /\ \A j \in Terminators(words) : e <= j
      BY <3>1, Zenon
    <3> HIDE DEF e
    <3>3. e = len + 1
      BY <1>2, <3>1, <3>2
    <3>4. Until(words) = SubSeq(words, 1, e - 1)
      BY <1>7, <2>2 DEF Until, e
    <3>5. e - 1 = len
      BY <1>2, <3>3
    <3>6. SubSeq(words, 1, len) = [i \in 1..len |-> words[i]]
      <4>1. SubSeq(words, 1, len) = [i \in 1..(len - 1 + 1) |-> words[i + 1 - 1]]
        BY <1>2
      <4>2. len - 1 + 1 = len /\ \A i \in 1..len : i + 1 - 1 = i
        BY <1>2
      <4> QED
        BY <4>1, <4>2
    <3>7. \A i \in 1..len : words[i] = dpiList[i]
      <4>1. \A i \in 1..len : i \in 1..k
        BY <1>2, <2>2
      <4> QED
        BY <1>3, <1>4, <4>1
    <3> QED
      BY <1>2, <3>4, <3>5, <3>6, <3>7
  <2> QED
    BY <1>2, <1>8, <2>1, <2>2
<1> QED
  BY <1>7, <1>8 DEF words, k, len

\* How many divertable gestures there are from a field on, before another.
Divertables(first, end) == {i \in first..(end - 1) : IsDivertable(GestureField(i))}

LEMMA DivertablesAreCounted ==
    ASSUME NEW a \in Nat \ {0}, NEW b \in Nat, a <= b
    PROVE  /\ NumberOf(a) \in Nat /\ NumberOf(a) <= a - 1
           /\ NumberOf(b) = NumberOf(a) + Cardinality(Divertables(a, b))
<1> DEFINE A == Divertables(1, a)
           B == Divertables(a, b)
           C == Divertables(1, b)
<1>1. /\ IsFiniteSet(1..(a - 1)) /\ Cardinality(1..(a - 1)) = a - 1
      /\ IsFiniteSet(a..(b - 1))
  <2>1. a - 1 \in Int /\ b - 1 \in Int /\ 1 \in Int /\ a \in Int
    OBVIOUS
  <2>2. IsFiniteSet(1..(a - 1)) /\ IsFiniteSet(a..(b - 1))
    BY <2>1, FS_Interval
  <2>3. Cardinality(1..(a - 1)) = IF 1 > a - 1 THEN 0 ELSE (a - 1) - 1 + 1
    BY <2>1, FS_Interval
  <2> QED
    BY <2>2, <2>3
<1>2. A \subseteq 1..(a - 1) /\ B \subseteq a..(b - 1)
  BY DEF Divertables
<1>3. C = A \cup B /\ A \cap B = {}
  <2>1. \A i : i \in 1..(b - 1) <=> i \in 1..(a - 1) \/ i \in a..(b - 1)
    OBVIOUS
  <2>2. \A i \in 1..(a - 1) : i \notin a..(b - 1)
    OBVIOUS
  <2> QED
    BY <2>1, <2>2 DEF Divertables
<1>4. NumberOf(a) = Cardinality(A) /\ NumberOf(b) = Cardinality(C)
  BY DEF NumberOf, Divertables
<1> HIDE DEF A, B, C
<1>5. IsFiniteSet(A) /\ Cardinality(A) <= a - 1
  BY <1>1, <1>2, FS_Subset
<1>6. IsFiniteSet(B)
  BY <1>1, <1>2, FS_Subset
<1>7. Cardinality(A) \in Nat /\ Cardinality(B) \in Nat
  BY <1>5, <1>6, FS_CardinalityType
<1>8. Cardinality(C) = Cardinality(A) + Cardinality(B) - Cardinality(A \cap B)
  BY <1>3, <1>5, <1>6, FS_Union
<1>9. Cardinality(A \cap B) = 0
  BY <1>3, FS_EmptySet
<1>10. Cardinality(C) = Cardinality(A) + Cardinality(B)
  BY <1>7, <1>8, <1>9
<1> QED
  BY <1>4, <1>5, <1>7, <1>10 DEF B

\* What the two readers make of the list they were given.
LEMMA ListIsRead ==
    ASSUME TableTypes
    PROVE  /\ WellFormedList(dpiList) => /\ AdjustableValues(dpiList) = Supports(dpiList)
                                         /\ ExtendedValues(dpiList) = Supports(dpiList)
                                         /\ Supports(dpiList) # {}
           /\ ~WellFormedList(dpiList) => ExtendedValues(dpiList) = Refusal
<1>1. dpiList \in Seq(Nat \ {0})
  <2> DEFINE W == 1..(Base * Base - 1)
  <2>1. dpiList \in Seq(W)
    BY DEF TableTypes
  <2>2. W \subseteq Nat \ {0}
    <3>1. Base * Base \in Nat
      BY SizesAreNatural
    <3> QED
      BY <3>1
  <2> HIDE DEF W
  <2>3. /\ Len(dpiList) \in Nat /\ dpiList = [i \in 1..Len(dpiList) |-> dpiList[i]]
        /\ \A i \in 1..Len(dpiList) : dpiList[i] \in Nat \ {0}
    BY <2>1, <2>2
  <2> DEFINE n == Len(dpiList)
             E(i) == dpiList[i]
  <2>4. [i \in 1..n |-> E(i)] \in Seq(Nat \ {0})
    <3>1. n \in Nat /\ \A i \in 1..n : E(i) \in Nat \ {0}
      BY <2>3
    <3> HIDE DEF n, E
    <3> QED
      BY <3>1
  <2> QED
    BY <2>3, <2>4
<1>2. TRUE \in BOOLEAN /\ FALSE \in BOOLEAN
  OBVIOUS
<1> QED
  BY <1>1, <1>2, WellFormedIsRead, MalformedIsRefused DEF AdjustableValues, ExtendedValues

\* The tables of the device are its own: no step changes them.
TablesStay == gestures' = gestures /\ dpiList' = dpiList

LEMMA WhatTablesSayStays ==
    ASSUME TablesStay
    PROVE  /\ Wheels' = Wheels /\ \A w : NumberOf(w)' = NumberOf(w)
           /\ \A n : n = page' => NumberOf(page * FieldsPerPage + 1)' = NumberOf(n * FieldsPerPage + 1)
           /\ \A n : n = page' => BytesFrom(1, page * PageSize)' = BytesFrom(1, n * PageSize)
           /\ WellFormedList(dpiList)' <=> WellFormedList(dpiList)
           /\ Supports(dpiList)' = Supports(dpiList)
           /\ FitsPages' <=> FitsPages
<1>1. Wheels' = Wheels
  BY DEF TablesStay, Wheels
<1>2. \A w : NumberOf(w)' = NumberOf(w)
  BY DEF TablesStay, NumberOf, GestureField, IsDivertable
<1>3. \A n : n = page' => NumberOf(page * FieldsPerPage + 1)' = NumberOf(n * FieldsPerPage + 1)
  BY DEF TablesStay, NumberOf, GestureField, IsDivertable
<1>4. \A n : n = page' => BytesFrom(1, page * PageSize)' = BytesFrom(1, n * PageSize)
  BY DEF TablesStay, BytesFrom, ByteAt, WordAt
<1>5. WellFormedList(dpiList)' <=> WellFormedList(dpiList)
  BY DEF TablesStay, WellFormedList, Tagged, Step
<1>6. Supports(dpiList)' = Supports(dpiList)
  BY DEF TablesStay, Supports, Tagged, Step
<1>7. FitsPages' <=> FitsPages
  BY DEF TablesStay, FitsPages
<1> QED
  BY <1>1, <1>2, <1>3, <1>4, <1>5, <1>6, <1>7

LEMMA TablesStart == TableInit => TableInv
<1> SUFFICES ASSUME TableInit PROVE TableInv
  OBVIOUS
<1>1. Unknown \in Nat
  BY SizesAreNatural DEF Unknown
<1>2. TableTypes
  BY <1>1, TablesAreTables DEF TableInit, TableTypes
<1> QED
  BY <1>1, <1>2, SizesAreNatural DEF TableInit, TableInv, NothingIsRead, DpiTableIsRight

\* One answer: the list is in it, to its end.
LEMMA AdjustableKeepsTables == TableInv /\ ReadAdjustable => TableInv'
<1> SUFFICES ASSUME TableInv, ReadAdjustable PROVE TableInv'
  OBVIOUS
<1>1. TablesStay /\ TableTypes /\ TableTypes'
  BY DEF TablesStay, ReadAdjustable, TableInv, TableTypes
<1>2. page = 0 /\ page' = 0 /\ scanning' = "nothing"
  BY DEF ReadAdjustable, TableInv, NothingIsRead
<1>3. dpiResult' = AdjustableValues(dpiList)
  <2>1. Until(Words(BytesFrom(1, AnswerSize))) = dpiList
    <3>1. AnswerSize \in Nat /\ AnswerSize \div 2 \in Int /\ Len(dpiList) \in Nat
      BY <1>1, SizesAreNatural DEF TableTypes
    <3>2. AnswerSize \div 2 >= Len(dpiList)
      BY <3>1 DEF ReadAdjustable
    <3> QED
      BY <1>1, <3>1, <3>2, ListEnds DEF TableTypes
  <2> QED
    BY <2>1 DEF ReadAdjustable
<1>4. DpiTableIsRight'
  BY <1>1, <1>2, <1>3, ListIsRead, WhatTablesSayStays DEF DpiTableIsRight
<1>5. /\ thumbwheel' = thumbwheel /\ diverted' = diverted
      /\ \A n \in diverted : \E w \in Wheels : n = NumberOf(w)
      /\ thumbwheel < Unknown => \E w \in Wheels : thumbwheel = NumberOf(w)
  BY DEF ReadAdjustable, TableInv
<1>6. /\ (thumbwheel < Unknown => \E w \in Wheels : thumbwheel = NumberOf(w))'
      /\ (\A n \in diverted : \E w \in Wheels : n = NumberOf(w))'
  BY <1>1, <1>5, WhatTablesSayStays DEF Unknown
<1> QED
  BY <1>1, <1>2, <1>4, <1>6 DEF TableInv

LEMMA StartsKeepTables == TableInv /\ (StartRanges \/ StartGestures) => TableInv'
<1> SUFFICES ASSUME TableInv, StartRanges \/ StartGestures PROVE TableInv'
  OBVIOUS
<1>1. /\ TablesStay /\ TableTypes' /\ NothingIsRead /\ page' = 0
      /\ dpiResult' = NoResult /\ thumbwheel' = thumbwheel /\ thumbwheel = Unknown
      /\ diverted' = diverted
  BY DEF TablesStay, StartRanges, StartGestures, TableInv, TableTypes, NothingIsRead
<1>2. DpiTableIsRight'
  BY <1>1 DEF DpiTableIsRight, NoResult
<1>3. /\ 0 * PageSize = 0 /\ 0 * FieldsPerPage = 0 /\ 0 < MaxPages /\ 0 < MaxFields
      /\ Unknown \in Nat
  BY SizesAreNatural DEF Unknown
<1>4. BytesFrom(1, 0) = <<>> /\ NumberOf(1) = 0
  <2>1. BytesFrom(1, 0) = <<>>
    BY DEF BytesFrom
  <2>2. NumberOf(1) = 0
    <3>1. {i \in 1..(1 - 1) : IsDivertable(GestureField(i))} = {}
      OBVIOUS
    <3> QED
      BY <3>1, FS_EmptySet DEF NumberOf
  <2> QED
    BY <2>1, <2>2
<1>5. (scanning = "ranges" => page < MaxPages /\ stream = BytesFrom(1, page * PageSize))'
  <2>1. ASSUME scanning' = "ranges" PROVE stream' = <<>>
    BY <2>1 DEF StartRanges, StartGestures
  <2>2. BytesFrom(1, page * PageSize)' = <<>>
    BY <1>1, <1>3, <1>4, WhatTablesSayStays
  <2> QED
    BY <1>1, <1>3, <2>1, <2>2
<1>6. (scanning = "gestures" => /\ page * FieldsPerPage < MaxFields
                                /\ seenDivertable = NumberOf(page * FieldsPerPage + 1))'
  <2>1. ASSUME scanning' = "gestures" PROVE seenDivertable' = 0
    BY <2>1 DEF StartRanges, StartGestures
  <2>2. NumberOf(page * FieldsPerPage + 1)' = NumberOf(0 * FieldsPerPage + 1)
    BY <1>1, WhatTablesSayStays
  <2>3. 0 * FieldsPerPage + 1 = 1
    BY <1>3
  <2>4. NumberOf(page * FieldsPerPage + 1)' = 0
    BY <1>4, <2>2, <2>3
  <2> QED
    BY <1>1, <1>3, <2>1, <2>4
<1>7. (\A n \in diverted : \E w \in Wheels : n = NumberOf(w))'
  <2>1. \A n \in diverted : \E w \in Wheels : n = NumberOf(w)
    BY DEF TableInv
  <2> QED
    BY <1>1, <2>1, WhatTablesSayStays
<1>8. (NothingIsRead => page = 0)' /\ (scanning # "nothing" => dpiResult = NoResult /\ thumbwheel = Unknown)'
  BY <1>1 DEF NothingIsRead, NoResult, Unknown
<1>9. (thumbwheel < Unknown => \E w \in Wheels : thumbwheel = NumberOf(w))'
  BY <1>1, <1>3 DEF Unknown
<1> QED
  BY <1>1, <1>2, <1>5, <1>6, <1>7, <1>8, <1>9 DEF TableInv

\* A page of ranges: the stream has the list so far, and it ends with a zero.
LEMMA RangesKeepTables == TableInv /\ RangesPage => TableInv'
<1> SUFFICES ASSUME TableInv, RangesPage PROVE TableInv'
  OBVIOUS
<1>1. /\ TablesStay /\ TableTypes /\ TableTypes' /\ scanning = "ranges"
      /\ dpiResult = NoResult /\ thumbwheel = Unknown
      /\ thumbwheel' = thumbwheel /\ diverted' = diverted
  BY DEF TablesStay, RangesPage, TableInv, TableTypes
<1> DEFINE n == (page + 1) * PageSize
<1>2. /\ page \in Nat /\ page < MaxPages /\ page' = page + 1
      /\ PageSize \in Nat /\ MaxPages \in Nat
      /\ page * PageSize \in Nat /\ n \in Nat /\ page * PageSize + PageSize = n
  BY <1>1, SizesAreNatural DEF RangesPage, TableInv, TableTypes
<1> HIDE DEF n
<1>3. NextPage = BytesFrom(1, n)
  <2>1. stream = BytesFrom(1, page * PageSize)
    BY <1>1 DEF TableInv
  <2> QED
    BY <1>2, <2>1, PagesFollow DEF NextPage
<1> DEFINE words == Words(NextPage)
<1>4. /\ Terminators(words) # {} <=> n \div 2 > Len(dpiList)
      /\ n \div 2 >= Len(dpiList) => Until(words) = dpiList
  BY <1>1, <1>2, <1>3, ListEnds DEF TableTypes
<1>5. /\ stream' = NextPage
      /\ IF Terminators(words) # {}
         THEN dpiResult' = ExtendedValues(Until(words)) /\ scanning' = "nothing"
         ELSE IF page + 1 = MaxPages THEN dpiResult' = Refusal /\ scanning' = "nothing"
         ELSE UNCHANGED <<dpiResult, scanning>>
  BY DEF RangesPage
<1> HIDE DEF words
<1>6. n \div 2 \in Nat /\ Len(dpiList) \in Nat /\ n < 2 * (n \div 2) + 2
  <2>1. n \div 2 \in Nat /\ n < 2 * (n \div 2) + 2
    BY <1>2
  <2>2. Len(dpiList) \in Nat
    BY <1>1 DEF TableTypes
  <2> QED
    BY <2>1, <2>2
<1> DEFINE Over == scanning' = "nothing" /\ dpiResult' # NoResult /\ DpiTableIsRight'
           Goes == /\ scanning' = "ranges" /\ dpiResult' = NoResult /\ page' < MaxPages
                   /\ stream' = BytesFrom(1, n)
<1>7. ASSUME Terminators(words) # {} PROVE Over
  <2>1. dpiResult' = ExtendedValues(dpiList) /\ scanning' = "nothing"
    BY <1>4, <1>5, <1>6, <1>7
  <2>2. DpiTableIsRight' /\ dpiResult' # {}
    BY <1>1, <2>1, ListIsRead, WhatTablesSayStays DEF DpiTableIsRight, Refusal
  <2> QED
    BY <2>1, <2>2 DEF NoResult
<1>8. ASSUME Terminators(words) = {}, page + 1 = MaxPages PROVE Over
  <2>1. dpiResult' = Refusal /\ scanning' = "nothing" /\ page' = MaxPages
    BY <1>2, <1>5, <1>8
  <2>2. ~FitsPages
    <3>1. 2 * (Len(dpiList) + 1) > n
      <4>1. ~(n \div 2 > Len(dpiList))
        BY <1>4, <1>8
      <4> DEFINE h == n \div 2
                 len == Len(dpiList)
      <4>2. h \in Nat /\ len \in Nat /\ n \in Nat /\ n < 2 * h + 2 /\ ~(h > len)
        BY <1>2, <1>6, <4>1
      <4> HIDE DEF h, len
      <4>3. 2 * (len + 1) > n
        BY <4>2
      <4> QED
        BY <4>3 DEF len
    <3>2. n = MaxPages * PageSize
      BY <1>8 DEF n
    <3>3. MaxPages * PageSize \in Nat
      BY <1>2, <3>2
    <3> QED
      BY <1>6, <3>1, <3>2, <3>3 DEF FitsPages
  <2> QED
    BY <1>1, <2>1, <2>2, WhatTablesSayStays DEF DpiTableIsRight, NoResult, Refusal
<1>9. ASSUME Terminators(words) = {}, page + 1 # MaxPages PROVE Goes
  <2>1. /\ dpiResult' = NoResult /\ scanning' = "ranges" /\ page' < MaxPages
        /\ stream' = BytesFrom(1, n)
    BY <1>1, <1>2, <1>3, <1>5, <1>9
  <2> QED
    BY <2>1
<1>10. Over \/ Goes
  BY <1>7, <1>8, <1>9
<1> HIDE DEF words
<1>11. (scanning = "ranges" => page < MaxPages /\ stream = BytesFrom(1, page * PageSize))'
  <2>1. BytesFrom(1, page * PageSize)' = BytesFrom(1, n)
    <3>1. BytesFrom(1, page * PageSize)' = BytesFrom(1, (page + 1) * PageSize)
      BY <1>1, <1>2, WhatTablesSayStays
    <3> QED
      BY <3>1 DEF n
  <2> QED
    BY <1>2, <1>10, <2>1
<1>12. DpiTableIsRight'
  BY <1>10 DEF DpiTableIsRight
<1>13. (\A m \in diverted : \E w \in Wheels : m = NumberOf(w))'
  <2>1. \A m \in diverted : \E w \in Wheels : m = NumberOf(w)
    BY DEF TableInv
  <2> QED
    BY <1>1, <2>1, WhatTablesSayStays
<1>14. /\ (NothingIsRead => page = 0)'
       /\ (scanning # "nothing" => dpiResult = NoResult /\ thumbwheel = Unknown)'
       /\ scanning' # "gestures"
  BY <1>1, <1>10 DEF NothingIsRead, NoResult, Unknown
<1>15. (thumbwheel < Unknown => \E w \in Wheels : thumbwheel = NumberOf(w))'
  <2>1. Unknown \in Nat
    BY SizesAreNatural DEF Unknown
  <2> QED
    BY <1>1, <2>1 DEF Unknown
<1> QED
  BY <1>1, <1>11, <1>12, <1>13, <1>14, <1>15 DEF TableInv

LEMMA OtherPageKeepsTables == TableInv /\ OtherPage => TableInv'
<1> SUFFICES ASSUME TableInv, OtherPage PROVE TableInv'
  OBVIOUS
<1>1. /\ TablesStay /\ TableTypes' /\ scanning' = "nothing" /\ dpiResult' = LostPage
      /\ thumbwheel = Unknown /\ thumbwheel' = thumbwheel /\ diverted' = diverted
  BY DEF TablesStay, OtherPage, TableInv, TableTypes
<1>2. DpiTableIsRight' /\ ~NothingIsRead'
  BY <1>1 DEF DpiTableIsRight, NothingIsRead, LostPage, NoResult
<1>3. (\A m \in diverted : \E w \in Wheels : m = NumberOf(w))'
  <2>1. \A m \in diverted : \E w \in Wheels : m = NumberOf(w)
    BY DEF TableInv
  <2> QED
    BY <1>1, <2>1, WhatTablesSayStays
<1>4. (thumbwheel < Unknown => \E w \in Wheels : thumbwheel = NumberOf(w))'
  <2>1. Unknown \in Nat
    BY SizesAreNatural DEF Unknown
  <2> QED
    BY <1>1, <2>1 DEF Unknown
<1> QED
  BY <1>1, <1>2, <1>3, <1>4 DEF TableInv

\* A page of gestures: those that are counted are the divertable ones before
\* the wheel, and it has fewer before it than any mark.
LEMMA GesturesKeepTables == TableInv /\ GesturesPage => TableInv'
<1> SUFFICES ASSUME TableInv, GesturesPage PROVE TableInv'
  OBVIOUS
<1>1. /\ TablesStay /\ TableTypes /\ scanning = "gestures"
      /\ dpiResult = NoResult /\ dpiResult' = NoResult /\ thumbwheel = Unknown
      /\ diverted' = diverted
  BY DEF TablesStay, GesturesPage, TableInv
<1> DEFINE a == page * FieldsPerPage
           b == (page + 1) * FieldsPerPage
           on == (a + 1)..b
           deciding == {i \in on : IsWheel(GestureField(i)) \/ GestureField(i) = "end"}
           first == CHOOSE i \in deciding : \A j \in deciding : i <= j
<1>2. /\ page \in Nat /\ a \in Nat /\ b \in Nat /\ b = a + FieldsPerPage
      /\ FieldsPerPage \in Nat \ {0} /\ MaxFields \in Nat \ {0}
  BY <1>1, SizesAreNatural DEF TableTypes
<1>3. a < MaxFields /\ seenDivertable = NumberOf(a + 1)
  BY <1>1 DEF TableInv
<1>4. IF deciding = {}
      THEN /\ page' = page + 1
           /\ seenDivertable' = CountBefore(b + 1)
           /\ IF b >= MaxFields
              THEN scanning' = "nothing" /\ thumbwheel' = EndlessTable
              ELSE UNCHANGED <<scanning, thumbwheel>>
      ELSE /\ scanning' = "nothing"
           /\ thumbwheel' = CASE GestureField(first) = "end" -> NoWheel
                              [] GestureField(first) = "fixed wheel" -> FixedWheel
                              [] OTHER -> CountBefore(first)
           /\ UNCHANGED <<page, seenDivertable>>
  BY Zenon DEF GesturesPage
<1>5. ASSUME NEW u \in (a + 1)..(b + 1)
      PROVE  CountBefore(u) = NumberOf(u) /\ NumberOf(u) \in Nat /\ NumberOf(u) <= u - 1
  <2>1. CountBefore(u) = seenDivertable + Cardinality(Divertables(a + 1, u))
    BY DEF CountBefore, Divertables
  <2>2. a + 1 \in Nat \ {0} /\ u \in Nat \ {0} /\ a + 1 <= u
    BY <1>2
  <2> HIDE DEF a, b
  <2>3. NumberOf(u) = NumberOf(a + 1) + Cardinality(Divertables(a + 1, u))
    BY <2>2, DivertablesAreCounted
  <2>4. NumberOf(u) \in Nat /\ NumberOf(u) <= u - 1
    <3>1. u <= u
      BY <2>2
    <3> QED
      BY <2>2, <3>1, DivertablesAreCounted
  <2> QED
    BY <1>3, <2>1, <2>3, <2>4
<1> HIDE DEF a, b
<1>6. Unknown \in Nat /\ \A u \in (a + 1)..(b + 1) : u - 1 <= Unknown
  BY <1>2, <1>3 DEF Unknown
<1> DEFINE Counts == /\ scanning' = "gestures" /\ thumbwheel' = Unknown
                     /\ page' = page + 1 /\ b < MaxFields /\ seenDivertable' = NumberOf(b + 1)
           Found == /\ scanning' = "nothing" /\ thumbwheel' \in Nat /\ page' \in Nat
                    /\ thumbwheel' # Unknown
                    /\ thumbwheel' < Unknown => \E w \in Wheels : thumbwheel' = NumberOf(w)
<1>7. ASSUME deciding = {} PROVE Counts \/ Found
  <2>1. seenDivertable' = NumberOf(b + 1) /\ page' = page + 1
    <3>1. b + 1 \in (a + 1)..(b + 1)
      BY <1>2
    <3> QED
      BY <1>4, <1>5, <1>7, <3>1
  <2>2. CASE b >= MaxFields
    <3>1. scanning' = "nothing" /\ thumbwheel' = EndlessTable
      BY <1>4, <1>7, <2>2
    <3> QED
      BY <1>2, <1>6, <2>1, <3>1 DEF EndlessTable
  <2>3. CASE ~(b >= MaxFields)
    <3>2. UNCHANGED <<scanning, thumbwheel>>
      BY <1>4, <1>7, <2>3
    <3>1. scanning' = "gestures" /\ thumbwheel' = Unknown /\ b < MaxFields
      <4> HIDE DEF deciding, first
      <4> QED
        BY <1>1, <1>2, <2>3, <3>2
    <3> QED
      BY <2>1, <3>1
  <2> QED
    BY <2>2, <2>3
<1>8. ASSUME deciding # {} PROVE Found
  <2>1. first \in deciding
    <3>1. deciding \in SUBSET Nat
      BY <1>2
    <3>2. \E i \in deciding : \A j \in deciding : i <= j
      BY <1>8, <3>1, Least
    <3> QED
      BY <3>2
  <2>2. /\ scanning' = "nothing" /\ page' = page
        /\ thumbwheel' = CASE GestureField(first) = "end" -> NoWheel
                           [] GestureField(first) = "fixed wheel" -> FixedWheel
                           [] OTHER -> CountBefore(first)
    BY <1>4, <1>8
  <2>3. /\ first \in (a + 1)..b
        /\ IsWheel(GestureField(first)) \/ GestureField(first) = "end"
    BY <2>1
  <2> HIDE DEF first, deciding
  <2>4. CASE GestureField(first) = "end"
    <3>1. thumbwheel' = NoWheel
      BY <2>2, <2>4
    <3>2. NoWheel \in Nat /\ NoWheel # Unknown /\ ~(NoWheel < Unknown)
      <4>1. Unknown \in Nat
        BY <1>6
      <4> QED
        BY <4>1 DEF NoWheel
    <3> QED
      BY <1>2, <2>2, <3>1, <3>2
  <2>5. CASE GestureField(first) = "fixed wheel"
    <3>1. thumbwheel' = FixedWheel
      BY <2>2, <2>5
    <3>2. FixedWheel \in Nat /\ FixedWheel # Unknown /\ ~(FixedWheel < Unknown)
      <4>1. Unknown \in Nat
        BY <1>6
      <4> QED
        BY <4>1 DEF FixedWheel
    <3> QED
      BY <1>2, <2>2, <3>1, <3>2
  <2>6. CASE GestureField(first) # "end" /\ GestureField(first) # "fixed wheel"
    <3>1. thumbwheel' = CountBefore(first)
      BY <2>2, <2>6
    <3>2. first \in (a + 1)..(b + 1) /\ first \in Nat \ {0} /\ first - 1 < Unknown
      BY <1>2, <1>3, <2>3 DEF Unknown
    <3>3. thumbwheel' = NumberOf(first) /\ thumbwheel' \in Nat /\ thumbwheel' < Unknown
      BY <1>5, <1>6, <3>1, <3>2
    <3>4. first \in Wheels
      <4>1. DOMAIN gestures = 1..Len(gestures) /\ Len(gestures) \in Nat
        BY <1>1 DEF TableTypes
      <4>2. first <= Len(gestures)
        BY <2>6 DEF GestureField
      <4> QED
        <5>1. first \in DOMAIN gestures
          BY <3>2, <4>1, <4>2
        <5>2. IsWheel(gestures[first])
          BY <2>3, <2>6, <4>2 DEF GestureField
        <5> QED
          BY <5>1, <5>2 DEF Wheels
    <3>5. thumbwheel' # Unknown
      BY <1>6, <3>3
    <3> QED
      BY <1>2, <2>2, <3>3, <3>4, <3>5
  <2> QED
    BY <2>4, <2>5, <2>6
<1> HIDE DEF deciding, first
<1>9. Counts \/ Found
  BY <1>7, <1>8
<1>10. TableTypes'
  BY <1>1, <1>2, <1>6, <1>9 DEF TableTypes, TablesStay
<1>11. DpiTableIsRight'
  BY <1>1 DEF DpiTableIsRight
<1>12. (\A m \in diverted : \E w \in Wheels : m = NumberOf(w))'
  <2>1. \A m \in diverted : \E w \in Wheels : m = NumberOf(w)
    BY DEF TableInv
  <2> QED
    BY <1>1, <2>1, WhatTablesSayStays
<1>13. (thumbwheel < Unknown => \E w \in Wheels : thumbwheel = NumberOf(w))'
  BY <1>1, <1>6, <1>9, WhatTablesSayStays DEF Unknown
<1>14. (scanning = "gestures" => /\ page * FieldsPerPage < MaxFields
                                 /\ seenDivertable = NumberOf(page * FieldsPerPage + 1))'
  <2>1. ASSUME Counts
        PROVE  /\ page' * FieldsPerPage < MaxFields
               /\ seenDivertable' = NumberOf(page * FieldsPerPage + 1)'
    <3>1. NumberOf(page * FieldsPerPage + 1)' = NumberOf((page + 1) * FieldsPerPage + 1)
      BY <1>1, <2>1, WhatTablesSayStays
    <3> QED
      BY <2>1, <3>1 DEF b
  <2> QED
    BY <1>9, <2>1
<1>15. /\ (NothingIsRead => page = 0)' /\ scanning' # "ranges"
       /\ (scanning # "nothing" => dpiResult = NoResult /\ thumbwheel = Unknown)'
  BY <1>1, <1>9 DEF NothingIsRead, Unknown, NoResult
<1> QED
  BY <1>10, <1>11, <1>12, <1>13, <1>14, <1>15 DEF TableInv

\* The byte and the bit that are written are the wheel's.
LEMMA DivertKeepsTables == TableInv /\ DivertWheel => TableInv'
<1> SUFFICES ASSUME TableInv, DivertWheel PROVE TableInv'
  OBVIOUS
<1>1. /\ TablesStay /\ TableTypes /\ TableTypes' /\ thumbwheel < Unknown
      /\ UNCHANGED <<scanning, page, stream, seenDivertable, dpiResult, thumbwheel>>
  BY DEF TablesStay, DivertWheel, TableInv, TableTypes
<1>2. (thumbwheel \div FieldsPerPage) * FieldsPerPage + (thumbwheel % FieldsPerPage) = thumbwheel
  <2>1. thumbwheel \in Nat /\ FieldsPerPage \in Nat \ {0}
    BY <1>1, SizesAreNatural DEF TableTypes
  <2>2. thumbwheel = FieldsPerPage * (thumbwheel \div FieldsPerPage) + (thumbwheel % FieldsPerPage)
    BY <2>1, Division
  <2> QED
    BY <2>1, <2>2
<1>3. \A n \in diverted' : n \in diverted \/ n = thumbwheel
  BY <1>2 DEF DivertWheel
<1>4. /\ \A n \in diverted : \E w \in Wheels : n = NumberOf(w)
      /\ \E w \in Wheels : thumbwheel = NumberOf(w)
  BY <1>1 DEF TableInv
<1>5. (\A n \in diverted : \E w \in Wheels : n = NumberOf(w))'
  BY <1>1, <1>3, <1>4, WhatTablesSayStays
<1>6. (thumbwheel < Unknown => \E w \in Wheels : thumbwheel = NumberOf(w))'
  BY <1>1, <1>4, WhatTablesSayStays
<1>7. (scanning = "gestures" => /\ page * FieldsPerPage < MaxFields
                                /\ seenDivertable = NumberOf(page * FieldsPerPage + 1))'
  BY <1>1, WhatTablesSayStays DEF TableInv
<1>8. (scanning = "ranges" => page < MaxPages /\ stream = BytesFrom(1, page * PageSize))'
  BY <1>1, WhatTablesSayStays DEF TableInv
<1>9. DpiTableIsRight'
  BY <1>1, WhatTablesSayStays DEF TableInv, DpiTableIsRight, NoResult, LostPage, Refusal
<1>10. /\ (NothingIsRead => page = 0)'
       /\ (scanning # "nothing" => dpiResult = NoResult /\ thumbwheel = Unknown)'
  BY <1>1 DEF TableInv, NothingIsRead, NoResult, Unknown
<1> QED
  BY <1>1, <1>5, <1>6, <1>7, <1>8, <1>9, <1>10 DEF TableInv

\* The inductive invariant of the tables holds always.
THEOREM TableInvHolds == TableSpec => []TableInv
<1>1. TableInv /\ UNCHANGED tableVars => TableInv'
  <2> SUFFICES ASSUME TableInv, UNCHANGED tableVars PROVE TableInv'
    OBVIOUS
  <2>1. /\ TablesStay
        /\ UNCHANGED <<diverted, scanning, page, stream, seenDivertable, dpiResult, thumbwheel>>
    BY DEF TablesStay, tableVars
  <2> QED
    BY <2>1, WhatTablesSayStays
       DEF TableInv, TableTypes, TablesStay, NothingIsRead, DpiTableIsRight, NoResult, LostPage,
           Refusal, Unknown
<1>2. TableInv /\ [TableNext]_tableVars => TableInv'
  BY <1>1, AdjustableKeepsTables, StartsKeepTables, RangesKeepTables,
     OtherPageKeepsTables, GesturesKeepTables, DivertKeepsTables DEF TableNext
<1> QED
  BY <1>2, TablesStart, PTL DEF TableSpec

\* Both readers of a sensor's list come to the values the sensor supports, and
\* what is diverted is the wheel, however the tables fall on pages.
THEOREM TablesAreReadRight == TableSpec => []TablesAreRight
<1>1. TableInv => TablesAreRight
  <2> SUFFICES ASSUME TableInv PROVE TablesAreRight
    OBVIOUS
  <2>1. \A w \in Wheels : NumberOf(w) = Cardinality({i \in 1..(w - 1) : IsDivertable(gestures[i])})
    <3>1. DOMAIN gestures = 1..Len(gestures) /\ Len(gestures) \in Nat
      BY DEF TableInv, TableTypes
    <3>2. ASSUME NEW w \in Wheels
          PROVE  {i \in 1..(w - 1) : IsDivertable(GestureField(i))}
                     = {i \in 1..(w - 1) : IsDivertable(gestures[i])}
      <4>1. w \in Nat /\ w <= Len(gestures)
        BY <3>1 DEF Wheels
      <4>2. \A i \in 1..(w - 1) : GestureField(i) = gestures[i]
        BY <3>1, <4>1 DEF GestureField
      <4> QED
        BY <4>2
    <3> QED
      BY <3>2 DEF NumberOf
  <2>2. \A n \in diverted : \E w \in Wheels : n = NumberOf(w)
    BY DEF TableInv
  <2>3. OnlyTheWheelIsDiverted
    BY <2>1, <2>2 DEF OnlyTheWheelIsDiverted
  <2> QED
    BY <2>3 DEF TableInv, TablesAreRight
<1> QED
  BY <1>1, TableInvHolds, PTL
=============================================================================
