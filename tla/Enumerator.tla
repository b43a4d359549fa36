----------------------------- MODULE Enumerator -----------------------------
(***************************************************************************)
(* The persistent inventory enumerator (crates/openlogi-device/src/        *)
(* inventory.rs) with the node ledger and the channel registry it feeds:   *)
(* one pass lists the HID nodes, opens or reuses one channel per node,     *)
(* probes them concurrently and settles what each node is reported to      *)
(* have, replaying the last good inventory over failed probes and          *)
(* replacing channels that stay dead.                                      *)
(*                                                                         *)
(* Passes never overlap (enumerate takes &mut self); what runs beside a    *)
(* pass is the users that take channels from the registry and hold them,   *)
(* and the OS and the devices: nodes come and go from the listing, a link  *)
(* dies with or without the transport noticing, probes fail.  A channel is *)
(* open as long as anybody refers to it (Arc<HidppChannel>).               *)
(***************************************************************************)
EXTENDS Naturals

CONSTANTS Nodes,
          Channels,     \* names for the channels open at one time
          Slots,        \* devices a node can have
          ReplayGrace,  \* NODE_MISS_GRACE
          EvictAfter,   \* CHANNEL_EVICT_AFTER
          MaxFailures,  \* where the failure counter saturates, 255 in the code
          None

ASSUME EnumeratorAssumption ==
    /\ ReplayGrace \in Nat /\ EvictAfter \in Nat \ {0}
    /\ MaxFailures \in Nat
    /\ EvictAfter <= MaxFailures /\ ReplayGrace < MaxFailures
    /\ None \notin Channels \cup Nodes
    /\ \A inv \in SUBSET Slots : inv # None

VARIABLES
    listed,     \* nodes the OS lists
    attached,   \* devices each node really has
    home,       \* node each open channel was opened on, None if not open
    dead,       \* channels that deliver no reports any more
    cut,        \* those of them the transport knows to be disconnected
    pinned,     \* channels held by users outside the enumerator
    cache,      \* ChannelCache: state and channel of each node
    published,  \* ChannelRegistry: the channel published for each node
    lastGood, failures,     \* NodeLedger
    phase,      \* what the current pass is doing
    todo,       \* nodes that this phase has still to deal with
    seen,       \* nodes listed to this pass, and those it retains
    retiring, unopened,     \* nodes this pass could not probe
    result,     \* finished probes of this pass
    reported,   \* inventory reported for each node, by the last pass for it
    retryNeeded,
    truth,      \* ghost: what each node's last healthy probe found
    hurt        \* ghost: nodes with any trouble but one dead channel since

osVars == <<listed, attached, dead, cut>>
chanVars == <<home, pinned, cache, published>>
ledgerVars == <<lastGood, failures>>
passVars == <<phase, todo, seen, retiring, unopened, result>>
outVars == <<reported, retryNeeded>>
ghostVars == <<truth, hurt>>
vars == <<osVars, chanVars, ledgerVars, passVars, outVars, ghostVars>>

Inventories == {None} \cup SUBSET Slots
Vacant == [st |-> "none", ch |-> None]
Active(c) == [st |-> "active", ch |-> c]
Retiring(c) == [st |-> "retiring", ch |-> c]
Unprobed == [healthy |-> FALSE, live |-> None]

OsTypes ==
    /\ listed \subseteq Nodes
    /\ attached \in [Nodes -> SUBSET Slots]
    /\ dead \subseteq Channels /\ cut \subseteq dead

ChannelTypes ==
    /\ home \in [Channels -> Nodes \cup {None}]
    /\ pinned \subseteq Channels
    /\ cache \in [Nodes -> {Vacant} \cup {Active(c) : c \in Channels}
                                    \cup {Retiring(c) : c \in Channels}]
    /\ published \in [Nodes -> Channels \cup {None}]

PassTypes ==
    /\ phase \in {"idle", "preparing", "probing", "settling"}
    /\ todo \subseteq Nodes /\ seen \subseteq Nodes
    /\ retiring \subseteq Nodes /\ unopened \subseteq Nodes
    /\ result \in [Nodes -> [healthy : BOOLEAN, live : Inventories]]

LedgerTypes ==
    /\ lastGood \in [Nodes -> Inventories]
    /\ failures \in [Nodes -> 0..MaxFailures]
    /\ reported \in [Nodes -> Inventories]
    /\ retryNeeded \in BOOLEAN
    /\ truth \in [Nodes -> Inventories]
    /\ hurt \subseteq Nodes

TypeOK == OsTypes /\ ChannelTypes /\ PassTypes /\ LedgerTypes

Init ==
    /\ listed = {} /\ attached = [n \in Nodes |-> {}]
    /\ home = [c \in Channels |-> None]
    /\ dead = {} /\ cut = {} /\ pinned = {}
    /\ cache = [n \in Nodes |-> Vacant]
    /\ published = [n \in Nodes |-> None]
    /\ lastGood = [n \in Nodes |-> None] /\ failures = [n \in Nodes |-> 0]
    /\ phase = "idle" /\ todo = {} /\ seen = {}
    /\ retiring = {} /\ unopened = {}
    /\ result = [n \in Nodes |-> Unprobed]
    /\ reported = [n \in Nodes |-> None] /\ retryNeeded = FALSE
    /\ truth = [n \in Nodes |-> None] /\ hurt = {}
-----------------------------------------------------------------------------
(***************************************************************************)
(* Channels.                                                               *)
(***************************************************************************)
\* Arc::strong_count = 1 for a cached channel: the cache's is the only
\* reference.
Quiescent(c) == c \notin pinned /\ \A n \in Nodes : published[n] # c

\* After a step, a channel nobody refers to any more has been dropped, which
\* closes it.
CloseUnused ==
    home' = [c \in Channels |->
                IF \/ c \in pinned'
                   \/ \E n \in Nodes : cache'[n].ch = c \/ published'[n] = c
                THEN home[c] ELSE None]

\* Mutant: a node whose channel retires is opened again at once.
ReopensAtOnce(n) == FALSE

\* ChannelCache::prepare_open for a node whose old channel still retires.
StillRetiring(n) == cache[n].st = "retiring"

Open(n) ==
    \E c \in Channels :
        /\ home[c] = None /\ c \notin dead
        /\ home' = [home EXCEPT ![c] = n]
        /\ cache' = [cache EXCEPT ![n] = Active(c)]
-----------------------------------------------------------------------------
(***************************************************************************)
(* One pass.                                                               *)
(***************************************************************************)
\* enumerate_hidpp; when the listing itself fails the pass ends with
\* everything as it was.
StartPass ==
    /\ phase = "idle"
    /\ phase' = "preparing"
    /\ todo' = listed /\ seen' = listed
    /\ retiring' = {} /\ unopened' = {}
    /\ result' = [n \in Nodes |-> Unprobed]
    /\ UNCHANGED <<osVars, chanVars, ledgerVars, outVars, ghostVars>>

\* A retiring channel nobody uses is dropped, but its node is not reopened
\* in the same pass.
PrepareRetiring(n) ==
    /\ phase = "preparing" /\ n \in todo
    /\ StillRetiring(n)
    /\ todo' = todo \ {n}
    /\ retiring' = retiring \cup {n}
    /\ cache' = IF Quiescent(cache[n].ch)
                THEN [cache EXCEPT ![n] = Vacant] ELSE cache
    /\ UNCHANGED <<pinned, published>> /\ CloseUnused
    /\ hurt' = IF Quiescent(cache[n].ch) THEN hurt ELSE hurt \cup {n}
    /\ UNCHANGED <<phase, seen, unopened, result, truth,
                   osVars, ledgerVars, outVars>>

\* The open succeeds or fails.  (A node that turns out not to speak HID++ is
\* skipped by the code; the transports announce long reports on every node
\* they list, so it does not happen.)
PrepareOpen(n) ==
    /\ phase = "preparing" /\ n \in todo
    /\ cache[n].st # "active" /\ ~StillRetiring(n)
    /\ todo' = todo \ {n}
    /\ \/ /\ Open(n)
          /\ UNCHANGED <<unopened, hurt>>
       \/ /\ unopened' = unopened \cup {n}
          /\ hurt' = hurt \cup {n}
          /\ UNCHANGED <<home, cache>>
    /\ UNCHANGED <<phase, seen, retiring, result, pinned, published, truth,
                   osVars, ledgerVars, outVars>>

PrepareReuse(n) ==
    /\ phase = "preparing" /\ n \in todo
    /\ cache[n].st = "active"
    /\ todo' = todo \ {n}
    /\ UNCHANGED <<phase, seen, retiring, unopened, result, osVars, chanVars,
                   ledgerVars, outVars, ghostVars>>

\* An active channel whose transport is still connected stays, and is probed,
\* when the OS omits its node.
Retained ==
    seen \cup {n \in Nodes : cache[n].st = "active" /\ cache[n].ch \notin cut}

\* The rest of prepare_nodes: nodes not retained are unpublished, their
\* channels retire and close unless somebody still uses them, the ledger
\* forgets them; the pass reports nothing for them.
FinishPreparing ==
    /\ phase = "preparing" /\ todo = {}
    /\ phase' = "probing"
    /\ seen' = Retained
    /\ published' = [n \in Nodes |->
                        IF n \in Retained THEN published[n] ELSE None]
    /\ cache' = [n \in Nodes |->
                    IF n \in Retained \/ cache[n] = Vacant THEN cache[n]
                    ELSE IF cache[n].ch \in pinned THEN Retiring(cache[n].ch)
                    ELSE Vacant]
    /\ lastGood' = [n \in Nodes |->
                       IF n \in Retained THEN lastGood[n] ELSE None]
    /\ failures' = [n \in Nodes |->
                       IF n \in Retained THEN failures[n] ELSE 0]
    /\ reported' = [n \in Nodes |->
                       IF n \in Retained THEN reported[n] ELSE None]
    /\ todo' = Retained \ (retiring \cup unopened)
    /\ UNCHANGED pinned /\ CloseUnused
    /\ hurt' = hurt \cup (Nodes \ Retained)
    /\ UNCHANGED <<osVars, retiring, unopened, result, retryNeeded, truth>>

Finish(n, healthy, live) ==
    /\ result' = [result EXCEPT ![n] = [healthy |-> healthy, live |-> live]]
    /\ todo' = todo \ {n}
    /\ UNCHANGED <<phase, seen, retiring, unopened, osVars, chanVars,
                   ledgerVars, outVars, truth>>

\* A probe that finds the node answering reports what is attached; a direct
\* node that is no peripheral reports nothing at all.
ProbeAnswers(n) ==
    /\ phase = "probing" /\ n \in todo
    /\ cache[n].ch \notin dead
    /\ \E live \in {attached[n]} \cup (IF attached[n] = {} THEN {None} ELSE {}) :
          Finish(n, TRUE, live)
    /\ UNCHANGED hurt

\* The budget runs out, or registers go unanswered; a receiver may still have
\* found some of its devices.  A dead channel can only fail.
ProbeFails(n) ==
    /\ phase = "probing" /\ n \in todo
    /\ \E live \in {None} \cup SUBSET attached[n] : Finish(n, FALSE, live)
    /\ hurt' = IF cache[n].ch \in dead THEN hurt ELSE hurt \cup {n}

\* The probes are joined: none is settled before all have finished.
FinishProbing ==
    /\ phase = "probing" /\ todo = {}
    /\ phase' = "settling"
    /\ todo' = seen
    /\ UNCHANGED <<osVars, chanVars, ledgerVars, seen, retiring, unopened,
                   result, outVars, ghostVars>>

Count(n) == IF failures[n] < MaxFailures THEN failures[n] + 1 ELSE failures[n]

\* Mutant: the channel is evicted once, when the count reaches the limit.
EvictOnce(n) == ~result[n].healthy /\ Count(n) = EvictAfter

\* SettledNode::evict_channel
Evicts(n) == ~result[n].healthy /\ Count(n) >= EvictAfter

\* Mutant: a failed probe's live result is reported at once.
SettleWithLive(n) ==
    /\ failures' = [failures EXCEPT ![n] = IF result[n].healthy THEN 0
                                           ELSE Count(n)]
    /\ lastGood' = [lastGood EXCEPT ![n] = result[n].live]
    /\ reported' = [reported EXCEPT ![n] = result[n].live]

\* NodeLedger::settle: a healthy result is the new truth; over a failed one
\* the last good inventory is replayed for a while, then the live result is.
SettleLedger(n) ==
    IF result[n].healthy
    THEN /\ failures' = [failures EXCEPT ![n] = 0]
         /\ lastGood' = [lastGood EXCEPT ![n] = result[n].live]
         /\ reported' = [reported EXCEPT ![n] = result[n].live]
    ELSE /\ failures' = [failures EXCEPT ![n] = Count(n)]
         /\ IF lastGood[n] # None /\ Count(n) <= ReplayGrace
            THEN /\ reported' = [reported EXCEPT ![n] = lastGood[n]]
                 /\ UNCHANGED lastGood
            ELSE /\ reported' = [reported EXCEPT ![n] = result[n].live]
                 /\ lastGood' = [lastGood EXCEPT ![n] = None]

\* Mutant: an evicted channel stays published until the next pass.
RetireKeepingPublication(n) ==
    /\ cache' = [cache EXCEPT ![n] = Retiring(cache[n].ch)]
    /\ UNCHANGED published

\* ChannelRegistry::remove_node, then ChannelCache::retire_node.
Retire(n) ==
    /\ published' = [published EXCEPT ![n] = None]
    /\ cache' = [cache EXCEPT ![n] = Retiring(cache[n].ch)]

\* The channel is published for the devices reported, replayed ones too, and
\* for nothing when there are none.
Publish(n) ==
    /\ published' = [published EXCEPT
                        ![n] = IF reported'[n] \in {None, {}} THEN None
                               ELSE cache[n].ch]
    /\ UNCHANGED cache

\* A probed node is settled, and then its channel evicted or published.
SettleProbed(n) ==
    /\ phase = "settling" /\ n \in todo \ (retiring \cup unopened)
    /\ todo' = todo \ {n}
    /\ SettleLedger(n)
    /\ IF Evicts(n) THEN Retire(n) ELSE Publish(n)
    /\ UNCHANGED pinned /\ CloseUnused
    /\ IF result[n].healthy
       THEN truth' = [truth EXCEPT ![n] = result[n].live] /\ hurt' = hurt \ {n}
       ELSE UNCHANGED ghostVars
    /\ UNCHANGED <<osVars, phase, seen, retiring, unopened, result,
                   retryNeeded>>

\* A node that retires or would not open is settled as a failed probe.
SettleUnprobed(n) ==
    /\ phase = "settling" /\ n \in todo \cap (retiring \cup unopened)
    /\ todo' = todo \ {n}
    /\ SettleLedger(n)
    /\ UNCHANGED <<osVars, chanVars, phase, seen, retiring, unopened, result,
                   retryNeeded, ghostVars>>

\* Mutant: only failed probes ask for a retry, not nodes left unprobed.
FinishPassProbedOnly ==
    /\ phase = "settling" /\ todo = {}
    /\ phase' = "idle"
    /\ retryNeeded' = (\E n \in seen \ (retiring \cup unopened) :
                           ~result[n].healthy)
    /\ UNCHANGED <<osVars, chanVars, ledgerVars, todo, seen, retiring,
                   unopened, result, reported, ghostVars>>

FinishPass ==
    /\ phase = "settling" /\ todo = {}
    /\ phase' = "idle"
    /\ retryNeeded' = (\E n \in seen : ~result[n].healthy)
    /\ UNCHANGED <<osVars, chanVars, ledgerVars, todo, seen, retiring,
                   unopened, result, reported, ghostVars>>
-----------------------------------------------------------------------------
(***************************************************************************)
(* Beside the pass.                                                        *)
(***************************************************************************)
\* ChannelRegistry::lookup hands out a reference.
Pin(c) ==
    /\ \E n \in Nodes : published[n] = c
    /\ c \notin pinned
    /\ pinned' = pinned \cup {c}
    /\ UNCHANGED <<osVars, home, cache, published, ledgerVars, passVars,
                   outVars, ghostVars>>

Unpin(c) ==
    /\ c \in pinned
    /\ pinned' = pinned \ {c}
    /\ UNCHANGED <<cache, published>> /\ CloseUnused
    /\ UNCHANGED <<osVars, ledgerVars, passVars, outVars, ghostVars>>

\* The OS lists a node, or omits it.
Relist(n) ==
    /\ listed' = IF n \in listed THEN listed \ {n} ELSE listed \cup {n}
    /\ UNCHANGED <<attached, dead, cut, chanVars, ledgerVars, passVars,
                   outVars, ghostVars>>

Attach(n) ==
    /\ \E s \in Slots :
          attached' = [attached EXCEPT ![n] = IF s \in @ THEN @ \ {s}
                                              ELSE @ \cup {s}]
    /\ UNCHANGED <<listed, dead, cut, chanVars, ledgerVars, passVars, outVars,
                   ghostVars>>

\* A channel stops delivering, with or without the transport noticing.  One
\* that does so while its node is failing is more than one dead channel.
Die(c) ==
    /\ home[c] # None /\ c \notin cut
    /\ \/ c \notin dead /\ UNCHANGED cut
       \/ cut' = cut \cup {c}
    /\ dead' = dead \cup {c}
    /\ hurt' = IF failures[home[c]] > 0 THEN hurt \cup {home[c]} ELSE hurt
    /\ UNCHANGED <<listed, attached, chanVars, ledgerVars, passVars, outVars,
                   truth>>

\* The name of a closed channel can be used again.
Forget(c) ==
    /\ home[c] = None /\ c \in dead
    /\ dead' = dead \ {c} /\ cut' = cut \ {c}
    /\ UNCHANGED <<listed, attached, chanVars, ledgerVars, passVars, outVars,
                   ghostVars>>
-----------------------------------------------------------------------------
Pass ==
    \/ StartPass \/ FinishPreparing \/ FinishProbing \/ FinishPass
    \/ \E n \in Nodes :
          \/ PrepareRetiring(n) \/ PrepareOpen(n) \/ PrepareReuse(n)
          \/ ProbeAnswers(n) \/ ProbeFails(n)
          \/ SettleProbed(n) \/ SettleUnprobed(n)

Next ==
    \/ Pass
    \/ \E c \in Channels : Pin(c) \/ Unpin(c) \/ Die(c) \/ Forget(c)
    \/ \E n \in Nodes : Relist(n) \/ Attach(n)

Spec == Init /\ [][Next]_vars

(***************************************************************************)
(* Passes follow one another; every probe ends, by its budget if not       *)
(* before; a user lets go of a channel that is not published any more.     *)
(***************************************************************************)
Stale(c) == \A n \in Nodes : published[n] # c

Fairness ==
    /\ WF_vars(Pass)
    /\ \A c \in Channels : WF_vars(Stale(c) /\ Unpin(c))

FairSpec == Spec /\ Fairness
-----------------------------------------------------------------------------
(***************************************************************************)
(* Properties.                                                             *)
(***************************************************************************)
\* "A node holding an active and a retiring channel - two live opens of one
\* OS node, the state the macOS dead-delivery hazard rides on": it cannot
\* exist, whatever the users still hold when a channel is replaced.
OneOpenPerNode ==
    \A b, c \in Channels : home[b] = home[c] /\ home[b] # None => b = c

\* What users can look up is the channel the enumerator serves the node with,
\* never one it has given up: nobody new gets hold of a retiring channel, so
\* it does drain.
PublishedIsActive ==
    \A n \in Nodes : published[n] # None => cache[n] = Active(published[n])

\* Replacing a dead channel fits into the replay grace: while all that is
\* wrong with a listed node is one dead channel, which its users let go of in
\* time, the reported devices never flap.
ReplacementUnnoticed ==
    phase = "idle" =>
        \A n \in Nodes \ hurt : truth[n] # None => reported[n] = truth[n]

\* A node that is failing keeps the watcher's fast repair going: no failing
\* node waits for the slow recovery scan.
FailuresAskForRetry ==
    phase = "idle" => ((\E n \in Nodes : failures[n] > 0) => retryNeeded)

\* A channel that is dead or retiring does not stay in the cache: the node
\* gets to be opened afresh.
Stuck(n) ==
    \/ cache[n].st = "retiring"
    \/ cache[n].st = "active" /\ cache[n].ch \in dead

NodesRecover == \A n \in Nodes : Stuck(n) ~> ~Stuck(n)
-----------------------------------------------------------------------------
(***************************************************************************)
(* The inductive invariant.                                                *)
(***************************************************************************)
\* Every open channel, pinned ones included, is the one the cache has for
\* its node, and a cached channel is open.
OpenIsCached ==
    /\ \A c \in Channels : home[c] # None => cache[home[c]].ch = c
    /\ \A n \in Nodes : cache[n] # Vacant => home[cache[n].ch] = n

\* A pinned channel is open.
PinnedIsOpen == \A c \in pinned : home[c] # None

\* The nodes a pass probes have an active channel until they are settled.
ProbedIsActive ==
    \A n \in seen \ (retiring \cup unopened) :
        \/ phase = "idle"
        \/ phase = "preparing" /\ n \in todo
        \/ phase = "settling" /\ n \notin todo
        \/ cache[n].st = "active"

ToSettle == phase \in {"probing", "settling"} => todo \subseteq seen

IInv ==
    /\ TypeOK /\ OpenIsCached /\ PinnedIsOpen /\ PublishedIsActive
    /\ ProbedIsActive /\ ToSettle

\* What a failing node is owed: the ledger forgets nodes a pass does not
\* retain, and counts a failure only for a result that is not healthy.
FailuresAreSeen ==
    /\ phase \in {"probing", "settling"} => \A n \in Nodes \ seen : failures[n] = 0
    /\ phase = "settling" =>
           \A n \in seen \ todo : failures[n] > 0 => ~result[n].healthy
    /\ FailuresAskForRetry

\* A node with no trouble but one dead channel is probed or awaits its
\* channel's retirement in every pass.
UnhurtIsServed(n) ==
    /\ phase \in {"probing", "settling"} => n \in seen
    /\ phase \in {"preparing", "probing"} /\ n \in todo => n \in seen \ retiring
    /\ phase = "preparing" => ~result[n].healthy
    /\ phase # "idle" => n \notin unopened
    /\ phase # "idle" /\ n \in retiring => cache[n] = Vacant /\ ~result[n].healthy

\* A channel opened in place of a dead one, by this pass: its probe has only
\* to come, or has succeeded.
FreshlyOpened(n) ==
    /\ phase # "idle" /\ n \in seen \ retiring /\ cache[n].ch \notin dead
    /\ phase = "preparing" => n \notin todo
    /\ phase = "probing" => n \in todo \/ result[n].healthy
    /\ phase = "settling" => n \in todo /\ result[n].healthy

\* How often such a node can have failed, by the state of its channel: up to
\* the eviction, once more in the pass that finds the channel retiring, and
\* then not until the fresh channel has been probed.
FailuresBound(n) ==
    /\ cache[n].st = "active" => failures[n] < EvictAfter \/ FreshlyOpened(n)
    /\ cache[n].st = "retiring" => failures[n] <= EvictAfter
    /\ cache[n].st = "none" => failures[n] <= EvictAfter + 1
    /\ phase # "idle" /\ n \in retiring /\ (phase = "settling" => n \in todo) =>
           failures[n] <= EvictAfter

TruthIsKept(n) ==
    truth[n] # None => lastGood[n] = truth[n] /\ reported[n] = truth[n]

UnhurtInv(n) == UnhurtIsServed(n) /\ FailuresBound(n) /\ TruthIsKept(n)

ReplacementInv == \A n \in Nodes \ hurt : UnhurtInv(n)
=============================================================================
