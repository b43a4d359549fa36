-------------------------- MODULE EnumeratorProofs --------------------------
(***************************************************************************)
(* Proofs about Enumerator, for any nodes, channels and thresholds: one    *)
(* open channel per node, only active channels are published, failing      *)
(* nodes ask for a retry, and the replacement of a dead channel fits into  *)
(* the replay grace.                                                       *)
(***************************************************************************)
EXTENDS Enumerator, TLAPS

\* What the cache can hold, seen from its fields.
LEMMA CacheFacts ==
    ASSUME ChannelTypes
    PROVE  /\ \A n \in Nodes :
                 /\ cache[n] = Vacant <=> cache[n].st = "none"
                 /\ cache[n].st \in {"none", "active", "retiring"}
                 /\ cache[n] # Vacant =>
                       /\ cache[n].ch \in Channels
                       /\ \/ cache[n] = Active(cache[n].ch)
                          \/ cache[n] = Retiring(cache[n].ch)
                 /\ cache[n].st = "active" => cache[n] = Active(cache[n].ch)
                 /\ cache[n].ch \in Channels \cup {None}
                 /\ cache[n] = Vacant <=> cache[n].ch = None
           /\ \A c \in Channels : /\ Active(c).ch = c /\ Active(c) # Vacant
                                  /\ Active(c).st = "active"
                                  /\ Retiring(c).ch = c /\ Retiring(c) # Vacant
                                  /\ Retiring(c).st = "retiring"
           /\ Vacant.ch = None
<1>1. /\ \A c \in Channels : /\ Active(c).ch = c /\ Active(c).st = "active"
                             /\ Retiring(c).ch = c
                             /\ Retiring(c).st = "retiring"
      /\ Vacant.ch = None /\ Vacant.st = "none"
    BY DEF Active, Retiring, Vacant
<1>2. \A n \in Nodes :
          \/ cache[n] = Vacant
          \/ \E c \in Channels : cache[n] = Active(c) \/ cache[n] = Retiring(c)
    BY DEF ChannelTypes
<1> QED
    BY <1>1, <1>2, EnumeratorAssumption

\* A probe that has not finished counts as failed, with nothing found.
LEMMA UnprobedType == Unprobed \in [healthy : BOOLEAN, live : Inventories]
BY DEF Unprobed, Inventories

\* The inductive invariant holds initially.
LEMMA InitIInv == Init => IInv
<1> SUFFICES ASSUME Init PROVE IInv
    OBVIOUS
<1>1. TypeOK
    <2>1. OsTypes /\ ChannelTypes
        BY DEF Init, OsTypes, ChannelTypes
    <2>2. PassTypes
        BY UnprobedType DEF Init, PassTypes
    <2>3. LedgerTypes
        <3>1. None \in Inventories /\ 0 \in 0..MaxFailures
            BY EnumeratorAssumption DEF Inventories
        <3> QED
            BY <3>1 DEF Init, LedgerTypes
    <2> QED
        BY <2>1, <2>2, <2>3 DEF TypeOK
<1>2. OpenIsCached /\ PinnedIsOpen
    BY DEF Init, OpenIsCached, PinnedIsOpen
<1>3. PublishedIsActive
    BY DEF Init, PublishedIsActive
<1>4. ProbedIsActive /\ ToSettle
    BY DEF Init, ProbedIsActive, ToSettle
<1> QED
    BY <1>1, <1>2, <1>3, <1>4 DEF IInv
-----------------------------------------------------------------------------
\* A step that changes nothing about the channels.
LEMMA ChannelFrame ==
    ASSUME IInv, UNCHANGED chanVars
    PROVE  ChannelTypes' /\ OpenIsCached' /\ PinnedIsOpen' /\ PublishedIsActive'
BY DEF IInv, chanVars, TypeOK, ChannelTypes, OpenIsCached, PinnedIsOpen,
       PublishedIsActive

\* Letting go: a node's cache entry is given up only with its publication
\* and when nobody holds the channel, which is then closed; otherwise the
\* entry keeps its channel.
LEMMA LettingGo ==
    ASSUME IInv, ChannelTypes', CloseUnused, pinned' \subseteq pinned,
           PublishedIsActive',
           \A n \in Nodes :
              \/ cache'[n].ch = cache[n].ch
              \/ cache'[n] = Vacant /\ cache[n].ch \notin pinned'
    PROVE  OpenIsCached' /\ PinnedIsOpen'
<1> USE DEF IInv, TypeOK
<1>1. \A n \in Nodes : cache'[n] # Vacant => cache'[n].ch = cache[n].ch
                                             /\ cache[n] # Vacant
    BY CacheFacts, EnumeratorAssumption DEF Vacant, ChannelTypes
<1>2. ASSUME NEW c \in Channels, home'[c] # None
      PROVE  cache'[home'[c]].ch = c
    <2>1. home'[c] = home[c] /\ home[c] \in Nodes
        BY <1>2 DEF CloseUnused, ChannelTypes
    <2>2. cache[home[c]].ch = c
        BY <1>2, <2>1 DEF OpenIsCached
    <2>3. c \in pinned' \/ \E n \in Nodes : cache'[n].ch = c
                                            \/ published'[n] = c
        BY <1>2 DEF CloseUnused
    <2>4. CASE c \in pinned'
        BY <2>1, <2>2, <2>4
    <2>5. ASSUME NEW n \in Nodes, cache'[n].ch = c \/ published'[n] = c
          PROVE  cache'[home'[c]].ch = c
        <3>1. cache'[n].ch = c
            <4>1. CASE published'[n] = c
                <5>1. cache'[n] = Active(c)
                    BY <4>1, EnumeratorAssumption DEF PublishedIsActive
                <5> QED
                    BY <5>1 DEF Active
            <4> QED
                BY <2>5, <4>1
        <3>2. cache'[n] # Vacant
            BY <3>1, EnumeratorAssumption DEF Vacant
        <3>3. cache[n].ch = c /\ cache[n] # Vacant
            BY <1>1, <3>1, <3>2
        <3>4. home[c] = n
            BY <3>3 DEF OpenIsCached
        <3> QED
            BY <2>1, <3>1, <3>4
    <2> QED
        BY <2>3, <2>4, <2>5
<1>3. ASSUME NEW n \in Nodes, cache'[n] # Vacant
      PROVE  home'[cache'[n].ch] = n
    <2>1. cache'[n].ch = cache[n].ch /\ cache[n] # Vacant
          /\ cache[n].ch \in Channels
        BY <1>1, <1>3, CacheFacts
    <2>2. home[cache[n].ch] = n
        BY <2>1 DEF OpenIsCached
    <2> QED
        BY <2>1, <2>2 DEF CloseUnused
<1>4. PinnedIsOpen'
    BY DEF PinnedIsOpen, CloseUnused, ChannelTypes
<1> QED
    BY <1>2, <1>3, <1>4 DEF OpenIsCached
-----------------------------------------------------------------------------
\* What settling a node writes is of the right kind.
LEMMA SettleTypes ==
    ASSUME IInv, NEW n \in Nodes, SettleLedger(n)
    PROVE  /\ lastGood' \in [Nodes -> Inventories]
           /\ failures' \in [Nodes -> 0..MaxFailures]
           /\ reported' \in [Nodes -> Inventories]
<1> USE DEF IInv, TypeOK, LedgerTypes
<1>1. result[n].live \in Inventories /\ None \in Inventories
    BY DEF PassTypes, Inventories
<1>2. failures[n] \in 0..MaxFailures /\ 0 \in 0..MaxFailures
    BY EnumeratorAssumption
<1>3. Count(n) \in 0..MaxFailures
    BY <1>2, EnumeratorAssumption DEF Count
<1>4. CASE result[n].healthy
    BY <1>1, <1>2, <1>4 DEF SettleLedger
<1>5. CASE ~result[n].healthy
    BY <1>1, <1>3, <1>5 DEF SettleLedger
<1> QED
    BY <1>4, <1>5

\* The steps that leave the channels alone.
LEMMA QuietStep ==
    ASSUME IInv,
           \/ StartPass \/ FinishProbing \/ FinishPass
           \/ \E n \in Nodes : \/ PrepareReuse(n) \/ ProbeAnswers(n)
                               \/ ProbeFails(n) \/ SettleUnprobed(n)
                               \/ Relist(n) \/ Attach(n)
           \/ \E c \in Channels : Die(c) \/ Forget(c)
    PROVE  IInv'
<1> USE DEF IInv, TypeOK
<1>1. UNCHANGED chanVars
    BY DEF StartPass, FinishProbing, FinishPass, PrepareReuse, ProbeAnswers,
           ProbeFails, Finish, SettleUnprobed, Relist, Attach, Die, Forget
<1>2. ChannelTypes' /\ OpenIsCached' /\ PinnedIsOpen' /\ PublishedIsActive'
    BY <1>1, ChannelFrame
<1>3. CASE StartPass \/ FinishProbing \/ FinishPass
    <2>1. UNCHANGED <<osVars, lastGood, failures, reported, truth, hurt, cache>>
          /\ retryNeeded' \in BOOLEAN
        BY <1>3 DEF StartPass, FinishProbing, FinishPass, chanVars, ledgerVars,
                    outVars, ghostVars, LedgerTypes
    <2>2. OsTypes' /\ LedgerTypes'
        BY <2>1 DEF OsTypes, LedgerTypes, osVars
    <2>3. PassTypes'
        BY <1>3, UnprobedType DEF StartPass, FinishProbing, FinishPass,
               PassTypes, OsTypes, osVars, chanVars
    <2>4. ProbedIsActive' /\ ToSettle'
        BY <1>3, <2>1 DEF StartPass, FinishProbing, FinishPass, ProbedIsActive,
               ToSettle, PassTypes
    <2> QED
        BY <1>2, <2>2, <2>3, <2>4
<1>4. ASSUME NEW n \in Nodes, PrepareReuse(n)
      PROVE  IInv'
    <2>1. OsTypes' /\ LedgerTypes' /\ PassTypes'
        BY <1>4 DEF PrepareReuse, OsTypes, LedgerTypes, PassTypes, osVars,
               ledgerVars, outVars, ghostVars
    <2>2. ProbedIsActive' /\ ToSettle'
        BY <1>4 DEF PrepareReuse, ProbedIsActive, ToSettle, chanVars
    <2> QED
        BY <1>2, <2>1, <2>2
<1>5. ASSUME NEW n \in Nodes, ProbeAnswers(n) \/ ProbeFails(n)
      PROVE  IInv'
    <2>1. PICK healthy \in BOOLEAN, live \in Inventories :
              Finish(n, healthy, live)
        BY <1>5 DEF ProbeAnswers, ProbeFails, Inventories, OsTypes
    <2>2. hurt' \subseteq Nodes
        BY <1>5 DEF ProbeAnswers, ProbeFails, LedgerTypes
    <2>3. OsTypes' /\ LedgerTypes'
        BY <2>1, <2>2 DEF Finish, OsTypes, LedgerTypes, osVars, ledgerVars,
               outVars
    <2>4. PassTypes'
        <3>1. [healthy |-> healthy, live |-> live]
                  \in [healthy : BOOLEAN, live : Inventories]
            OBVIOUS
        <3> QED
            BY <2>1, <3>1 DEF Finish, PassTypes
    <2>5. ProbedIsActive' /\ ToSettle'
        BY <1>5, <2>1 DEF Finish, ProbeAnswers, ProbeFails, ProbedIsActive,
               ToSettle, chanVars
    <2> QED
        BY <1>2, <2>3, <2>4, <2>5
<1>6. ASSUME NEW n \in Nodes, SettleUnprobed(n)
      PROVE  IInv'
    <2>1. OsTypes' /\ PassTypes'
        BY <1>6 DEF SettleUnprobed, OsTypes, PassTypes, osVars
    <2>2. LedgerTypes'
        BY <1>6, SettleTypes DEF SettleUnprobed, LedgerTypes, ghostVars
    <2>3. ProbedIsActive' /\ ToSettle'
        BY <1>6 DEF SettleUnprobed, ProbedIsActive, ToSettle, chanVars
    <2> QED
        BY <1>2, <2>1, <2>2, <2>3
<1>7. CASE (\E n \in Nodes : Relist(n) \/ Attach(n))
           \/ \E c \in Channels : Die(c) \/ Forget(c)
    <2>1. UNCHANGED <<phase, todo, seen, retiring, unopened, result, lastGood,
                      failures, reported, retryNeeded, truth, cache>>
        BY <1>7 DEF Relist, Attach, Die, Forget, passVars, ledgerVars, outVars,
               ghostVars, chanVars
    <2>2. OsTypes'
        BY <1>7 DEF Relist, Attach, Die, Forget, OsTypes
    <2>3. hurt' \subseteq Nodes
        BY <1>7 DEF Relist, Attach, Die, Forget, ghostVars, LedgerTypes,
               ChannelTypes
    <2>4. LedgerTypes' /\ PassTypes'
        BY <2>1, <2>3 DEF LedgerTypes, PassTypes
    <2>5. ProbedIsActive' /\ ToSettle'
        BY <2>1 DEF ProbedIsActive, ToSettle
    <2> QED
        BY <1>2, <2>2, <2>4, <2>5
<1> QED
    BY <1>3, <1>4, <1>5, <1>6, <1>7
-----------------------------------------------------------------------------
\* A retiring channel is dropped when nobody uses it.
LEMMA RetiringStep ==
    ASSUME IInv, NEW n \in Nodes, PrepareRetiring(n)
    PROVE  IInv'
<1> USE DEF IInv, TypeOK
<1>1. OsTypes' /\ PassTypes' /\ LedgerTypes'
    BY DEF PrepareRetiring, OsTypes, PassTypes, LedgerTypes, osVars,
           ledgerVars, outVars
<1>2. ChannelTypes'
    BY DEF PrepareRetiring, ChannelTypes, CloseUnused
<1>3. \A m \in Nodes :
          \/ cache'[m] = cache[m]
          \/ m = n /\ cache'[m] = Vacant /\ Quiescent(cache[m].ch)
    BY DEF PrepareRetiring, ChannelTypes
<1>4. PublishedIsActive'
    <2>1. cache[n].st = "retiring" /\ published' = published
        BY DEF PrepareRetiring, StillRetiring
    <2>2. published[n] = None
        <3>1. ASSUME published[n] # None PROVE cache[n].st = "active"
            BY <3>1, CacheFacts DEF PublishedIsActive, ChannelTypes
        <3> QED
            BY <2>1, <3>1
    <2> QED
        BY <1>3, <2>1, <2>2 DEF PublishedIsActive
<1>5. OpenIsCached' /\ PinnedIsOpen'
    <2>1. CloseUnused /\ pinned' = pinned
        BY DEF PrepareRetiring
    <2> QED
        BY <1>2, <1>3, <1>4, <2>1, LettingGo DEF Quiescent
<1>6. ProbedIsActive' /\ ToSettle'
    BY <1>3 DEF PrepareRetiring, ProbedIsActive, ToSettle
<1> QED
    BY <1>1, <1>2, <1>4, <1>5, <1>6

\* A node is opened on a channel that was not open, and only when the cache
\* has none for it.
LEMMA OpenStep ==
    ASSUME IInv, NEW n \in Nodes, PrepareOpen(n)
    PROVE  IInv'
<1> USE DEF IInv, TypeOK
<1>1. OsTypes' /\ PassTypes' /\ LedgerTypes'
    BY DEF PrepareOpen, OsTypes, PassTypes, LedgerTypes, osVars, ledgerVars,
           outVars
<1>2. cache[n] = Vacant /\ cache[n].ch = None
    BY CacheFacts DEF PrepareOpen, StillRetiring
<1>3. UNCHANGED <<pinned, published>>
    BY DEF PrepareOpen
<1>4. CASE UNCHANGED <<home, cache>> /\ unopened' = unopened \cup {n}
    <2>1. ChannelTypes' /\ OpenIsCached' /\ PinnedIsOpen' /\ PublishedIsActive'
        BY <1>3, <1>4, ChannelFrame DEF chanVars
    <2>2. ProbedIsActive' /\ ToSettle'
        BY <1>4 DEF PrepareOpen, ProbedIsActive, ToSettle
    <2> QED
        BY <1>1, <2>1, <2>2
<1>5. CASE Open(n) /\ UNCHANGED unopened
    <2>1. PICK c \in Channels : /\ home[c] = None
                                /\ home' = [home EXCEPT ![c] = n]
                                /\ cache' = [cache EXCEPT ![n] = Active(c)]
        BY <1>5 DEF Open
    <2>2. Active(c).ch = c /\ Active(c).st = "active" /\ Active(c) # Vacant
          /\ n # None
        BY CacheFacts, EnumeratorAssumption
    <2>3. ChannelTypes'
        BY <1>3, <2>1 DEF ChannelTypes
    <2>4. OpenIsCached'
        <3>1. \A b \in Channels : home[b] # n
            BY <1>2, EnumeratorAssumption DEF OpenIsCached
        <3>2. \A m \in Nodes : cache[m] # Vacant => cache[m].ch # c
            BY <2>1, EnumeratorAssumption DEF OpenIsCached
        <3>3. \A b \in Channels : home'[b] # None => cache'[home'[b]].ch = b
            BY <2>1, <2>2, <3>1 DEF OpenIsCached, ChannelTypes
        <3>4. \A m \in Nodes : cache'[m] # Vacant => home'[cache'[m].ch] = m
            <4>1. ASSUME NEW m \in Nodes, cache'[m] # Vacant, m # n
                  PROVE  home'[cache'[m].ch] = m
                <5>1. cache'[m] = cache[m] /\ cache[m].ch \in Channels
                    BY <2>1, <4>1, CacheFacts DEF ChannelTypes
                <5> QED
                    BY <2>1, <3>2, <4>1, <5>1 DEF OpenIsCached, ChannelTypes
            <4>2. home'[cache'[n].ch] = n
                BY <2>1, <2>2 DEF ChannelTypes
            <4> QED
                BY <4>1, <4>2
        <3> QED
            BY <3>3, <3>4 DEF OpenIsCached
    <2>5. PinnedIsOpen' /\ PublishedIsActive'
        <3>1. PinnedIsOpen'
            BY <1>3, <2>1, <2>2 DEF PinnedIsOpen, ChannelTypes
        <3>2. published[n] = None
            BY <1>2, EnumeratorAssumption DEF PublishedIsActive, Active,
                   ChannelTypes
        <3>3. PublishedIsActive'
            BY <1>3, <2>1, <3>2 DEF PublishedIsActive, ChannelTypes
        <3> QED
            BY <3>1, <3>3
    <2>6. ProbedIsActive' /\ ToSettle'
        BY <1>5, <2>1, <2>2 DEF PrepareOpen, ProbedIsActive, ToSettle,
               ChannelTypes
    <2> QED
        BY <1>1, <2>3, <2>4, <2>5, <2>6
<1> QED
    BY <1>4, <1>5 DEF PrepareOpen

\* Nodes that are not retained lose their publication, and their channel
\* when nobody else holds it.
LEMMA PreparedStep ==
    ASSUME IInv, FinishPreparing
    PROVE  IInv'
<1> USE DEF IInv, TypeOK
<1>1. OsTypes' /\ PassTypes'
    BY DEF FinishPreparing, OsTypes, PassTypes, osVars, Retained
<1>2. LedgerTypes'
    <2>1. 0 \in 0..MaxFailures /\ None \in Inventories
        BY EnumeratorAssumption DEF Inventories
    <2> QED
        BY <2>1 DEF FinishPreparing, LedgerTypes, Retained
<1>3. \A m \in Nodes :
          \/ cache'[m] = cache[m] /\ published'[m] = published[m]
                                  /\ m \in Retained
          \/ cache'[m] = Vacant /\ cache[m] = Vacant /\ published'[m] = None
          \/ /\ cache[m].ch \in Channels /\ published'[m] = None
             /\ \/ cache'[m] = Retiring(cache[m].ch)
                \/ cache'[m] = Vacant /\ cache[m].ch \notin pinned'
    BY CacheFacts DEF FinishPreparing
<1>4. ChannelTypes'
    <2>1. cache' \in [Nodes -> {Vacant} \cup {Active(c) : c \in Channels}
                                   \cup {Retiring(c) : c \in Channels}]
        <3>1. cache' = [m \in Nodes |-> cache'[m]]
            BY DEF FinishPreparing
        <3>2. \A m \in Nodes :
                  cache'[m] \in {Vacant} \cup {Active(c) : c \in Channels}
                                   \cup {Retiring(c) : c \in Channels}
            BY <1>3 DEF ChannelTypes
        <3> QED
            BY <3>1, <3>2
    <2>2. home' \in [Channels -> Nodes \cup {None}] /\ pinned' \subseteq Channels
          /\ published' \in [Nodes -> Channels \cup {None}]
        BY DEF FinishPreparing, CloseUnused, ChannelTypes
    <2> QED
        BY <2>1, <2>2 DEF ChannelTypes
<1>5. PublishedIsActive'
    BY <1>3 DEF PublishedIsActive
<1>6. OpenIsCached' /\ PinnedIsOpen'
    <2>1. CloseUnused /\ pinned' = pinned
        BY DEF FinishPreparing
    <2>2. \A m \in Nodes : \/ cache'[m].ch = cache[m].ch
                           \/ cache'[m] = Vacant /\ cache[m].ch \notin pinned'
        BY <1>3, CacheFacts
    <2> QED
        BY <1>4, <1>5, <2>1, <2>2, LettingGo
<1>7. ProbedIsActive' /\ ToSettle'
    <2>1. ASSUME NEW m \in Retained \ (retiring \cup unopened)
          PROVE  cache'[m].st = "active"
        <3>1. m \in Nodes /\ cache'[m] = cache[m]
            BY DEF FinishPreparing, Retained, PassTypes
        <3>2. cache[m].st = "active"
            BY DEF FinishPreparing, Retained, ProbedIsActive
        <3> QED
            BY <3>1, <3>2
    <2> QED
        BY <2>1 DEF FinishPreparing, ProbedIsActive, ToSettle
<1> QED
    BY <1>1, <1>2, <1>4, <1>5, <1>6, <1>7

\* A settled node keeps its channel, which its publication names or nothing;
\* when the channel is evicted it is unpublished and retires.
LEMMA SettleStep ==
    ASSUME IInv, NEW n \in Nodes, SettleProbed(n)
    PROVE  IInv'
<1> USE DEF IInv, TypeOK
<1>1. OsTypes' /\ PassTypes'
    BY DEF SettleProbed, OsTypes, PassTypes, osVars
<1>2. LedgerTypes'
    <2>1. truth' \in [Nodes -> Inventories] /\ hurt' \subseteq Nodes
        BY DEF SettleProbed, PassTypes, LedgerTypes, ghostVars
    <2> QED
        BY <2>1, SettleTypes DEF SettleProbed, LedgerTypes
<1>3. cache[n].st = "active"
    BY DEF SettleProbed, ToSettle, ProbedIsActive
<1>4. cache[n] = Active(cache[n].ch) /\ cache[n].ch \in Channels
    BY <1>3, CacheFacts
<1>5. CASE Retire(n)
    <2>1. /\ cache' = [cache EXCEPT ![n] = Retiring(cache[n].ch)]
          /\ published' = [published EXCEPT ![n] = None]
        BY <1>5 DEF Retire
    <2>2. ChannelTypes'
        BY <1>4, <2>1 DEF SettleProbed, ChannelTypes, CloseUnused
    <2>3. PublishedIsActive'
        BY <2>1 DEF PublishedIsActive, ChannelTypes
    <2>4. \A m \in Nodes : cache'[m].ch = cache[m].ch
        BY <1>4, <2>1, CacheFacts DEF ChannelTypes
    <2>5. OpenIsCached' /\ PinnedIsOpen'
        BY <2>2, <2>3, <2>4, LettingGo DEF SettleProbed
    <2>6. ProbedIsActive' /\ ToSettle'
        BY <2>1 DEF SettleProbed, ProbedIsActive, ToSettle, ChannelTypes
    <2> QED
        BY <1>1, <1>2, <2>2, <2>3, <2>5, <2>6
<1>6. CASE Publish(n)
    <2>1. /\ cache' = cache
          /\ \/ published' = [published EXCEPT ![n] = None]
             \/ published' = [published EXCEPT ![n] = cache[n].ch]
        BY <1>6 DEF Publish
    <2>2. ChannelTypes'
        BY <1>4, <2>1 DEF SettleProbed, ChannelTypes, CloseUnused
    <2>3. PublishedIsActive'
        BY <1>4, <2>1 DEF PublishedIsActive, ChannelTypes
    <2>4. OpenIsCached' /\ PinnedIsOpen'
        BY <2>1, <2>2, <2>3, LettingGo DEF SettleProbed
    <2>5. ProbedIsActive' /\ ToSettle'
        BY <2>1 DEF SettleProbed, ProbedIsActive, ToSettle
    <2> QED
        BY <1>1, <1>2, <2>2, <2>3, <2>4, <2>5
<1> QED
    BY <1>5, <1>6 DEF SettleProbed

\* Users take published channels, which are open, and let go of them.
LEMMA UserStep ==
    ASSUME IInv, NEW c \in Channels, Pin(c) \/ Unpin(c)
    PROVE  IInv'
<1> USE DEF IInv, TypeOK
<1>1. OsTypes' /\ PassTypes' /\ LedgerTypes'
    BY DEF Pin, Unpin, OsTypes, PassTypes, LedgerTypes, osVars, ledgerVars,
           passVars, outVars, ghostVars
<1>2. UNCHANGED <<cache, published, phase, todo, seen, retiring, unopened>>
    BY DEF Pin, Unpin, passVars
<1>3. PublishedIsActive' /\ ProbedIsActive' /\ ToSettle'
    BY <1>2 DEF PublishedIsActive, ProbedIsActive, ToSettle
<1>4. CASE Pin(c)
    <2>1. PICK n \in Nodes : published[n] = c
        BY <1>4 DEF Pin
    <2>2. cache[n] = Active(c)
        BY <2>1, EnumeratorAssumption DEF PublishedIsActive
    <2>3. home[c] # None
        BY <2>2, CacheFacts, EnumeratorAssumption DEF OpenIsCached
    <2>4. ChannelTypes' /\ OpenIsCached' /\ PinnedIsOpen'
        BY <1>4, <2>3 DEF Pin, ChannelTypes, OpenIsCached, PinnedIsOpen
    <2> QED
        BY <1>1, <1>3, <2>4
<1>5. CASE Unpin(c)
    <2>1. CloseUnused /\ pinned' \subseteq pinned
        BY <1>5 DEF Unpin
    <2>2. ChannelTypes'
        BY <1>2, <1>5 DEF Unpin, CloseUnused, ChannelTypes
    <2>3. OpenIsCached' /\ PinnedIsOpen'
        BY <1>2, <1>3, <2>1, <2>2, LettingGo
    <2> QED
        BY <1>1, <1>3, <2>2, <2>3
<1> QED
    BY <1>4, <1>5

\* Every step keeps the inductive invariant.
LEMMA NextIInv == IInv /\ [Next]_vars => IInv'
<1> SUFFICES ASSUME IInv, [Next]_vars PROVE IInv'
    OBVIOUS
<1>1. CASE Pass
    BY <1>1, QuietStep, RetiringStep, OpenStep, PreparedStep, SettleStep
       DEF Pass
<1>2. CASE \E c \in Channels : Pin(c) \/ Unpin(c) \/ Die(c) \/ Forget(c)
    BY <1>2, UserStep, QuietStep
<1>3. CASE \E n \in Nodes : Relist(n) \/ Attach(n)
    BY <1>3, QuietStep
<1>4. CASE UNCHANGED vars
    BY <1>4 DEF vars, osVars, chanVars, ledgerVars, passVars, outVars,
           ghostVars, IInv, TypeOK, OsTypes, ChannelTypes, PassTypes,
           LedgerTypes, OpenIsCached, PinnedIsOpen, PublishedIsActive,
           ProbedIsActive, ToSettle
<1> QED
    BY <1>1, <1>2, <1>3, <1>4 DEF Next
-----------------------------------------------------------------------------
\* The inductive invariant holds in every reachable state, whatever the
\* nodes, the channels' users and the OS do.
THEOREM EnumeratorInvariant == Spec => []IInv
BY InitIInv, NextIInv, PTL DEF Spec

\* Two channels open on one node cannot exist: each would be the one the
\* cache holds for the node.
THEOREM NeverTwoOpens == Spec => []OneOpenPerNode
<1>1. IInv => OneOpenPerNode
    BY DEF IInv, OpenIsCached, OneOpenPerNode
<1> QED
    BY <1>1, EnumeratorInvariant, PTL

\* A channel the enumerator has given up is not handed to new users.
THEOREM OnlyActivePublished == Spec => []PublishedIsActive
<1>1. IInv => PublishedIsActive
    BY DEF IInv
<1> QED
    BY <1>1, EnumeratorInvariant, PTL
-----------------------------------------------------------------------------
(***************************************************************************)
(* Failing nodes and replacements.                                         *)
(***************************************************************************)
\* Settling counts a failure exactly for a result that is not healthy, and
\* only for the node that is settled.
LEMMA SettleCounts ==
    ASSUME IInv, NEW n \in Nodes, SettleLedger(n)
    PROVE  /\ failures[n] \in Nat /\ Count(n) \in Nat
           /\ Count(n) <= failures[n] + 1
           /\ result[n].healthy => failures'[n] = 0
           /\ ~result[n].healthy => failures'[n] = Count(n)
           /\ \A m \in Nodes \ {n} :
                 /\ failures'[m] = failures[m]
                 /\ lastGood'[m] = lastGood[m] /\ reported'[m] = reported[m]
<1>1. /\ failures \in [Nodes -> 0..MaxFailures] /\ MaxFailures \in Nat
      /\ lastGood \in [Nodes -> Inventories] /\ reported \in [Nodes -> Inventories]
    BY EnumeratorAssumption DEF IInv, TypeOK, LedgerTypes
<1>2. failures[n] \in Nat /\ Count(n) \in Nat /\ Count(n) <= failures[n] + 1
    BY <1>1 DEF Count
<1>3. CASE result[n].healthy
    BY <1>1, <1>2, <1>3 DEF SettleLedger
<1>4. CASE ~result[n].healthy
    <2>1. failures' = [failures EXCEPT ![n] = Count(n)]
        BY <1>4 DEF SettleLedger
    <2>2. /\ \A m \in Nodes \ {n} : lastGood'[m] = lastGood[m]
          /\ \A m \in Nodes \ {n} : reported'[m] = reported[m]
        BY <1>1, <1>4 DEF SettleLedger
    <2> QED
        BY <1>1, <1>2, <1>4, <2>1, <2>2
<1> QED
    BY <1>3, <1>4
-----------------------------------------------------------------------------
\* Initially no node has failed.
LEMMA InitFailures == Init => FailuresAreSeen
BY DEF Init, FailuresAreSeen, FailuresAskForRetry

\* A settled node's failures are those of its result.
LEMMA FailuresSettled ==
    ASSUME IInv, FailuresAreSeen,
           NEW n \in Nodes, SettleProbed(n) \/ SettleUnprobed(n)
    PROVE  FailuresAreSeen'
<1>1. /\ phase = "settling" /\ phase' = "settling" /\ n \in todo
      /\ todo' = todo \ {n} /\ seen' = seen /\ result' = result
      /\ SettleLedger(n)
    BY DEF SettleProbed, SettleUnprobed
<1>2. n \in seen /\ seen \subseteq Nodes
    BY <1>1 DEF IInv, TypeOK, PassTypes, ToSettle
<1>3. \A m \in Nodes \ {n} : failures'[m] = failures[m]
    BY <1>1, SettleCounts
<1>4. \A m \in Nodes \ seen' : failures'[m] = 0
    BY <1>1, <1>2, <1>3 DEF FailuresAreSeen
<1>5. \A m \in seen' \ todo' : failures'[m] > 0 => ~result'[m].healthy
    <2>1. failures'[n] > 0 => ~result'[n].healthy
        BY <1>1, SettleCounts
    <2> QED
        BY <1>1, <1>2, <1>3, <2>1 DEF FailuresAreSeen
<1> QED
    BY <1>1, <1>4, <1>5 DEF FailuresAreSeen, FailuresAskForRetry

\* Every step keeps it: the ledger is written by the end of the preparing
\* phase and by settling alone.
LEMMA NextFailures ==
    ASSUME IInv, FailuresAreSeen, [Next]_vars
    PROVE  FailuresAreSeen'
<1> USE DEF FailuresAreSeen, FailuresAskForRetry
<1>1. CASE StartPass
    BY <1>1 DEF StartPass
<1>2. CASE FinishPreparing
    BY <1>2 DEF FinishPreparing
<1>3. CASE FinishProbing
    BY <1>3 DEF FinishProbing, ledgerVars
<1>4. CASE FinishPass
    <2>1. /\ phase = "settling" /\ todo = {} /\ phase' = "idle"
          /\ retryNeeded' = (\E n \in seen : ~result[n].healthy)
          /\ failures' = failures
        BY <1>4 DEF FinishPass, ledgerVars
    <2>2. \A n \in Nodes : failures[n] > 0 => n \in seen /\ ~result[n].healthy
        BY <2>1
    <2> QED
        BY <2>1, <2>2
<1>5. ASSUME NEW n \in Nodes, PrepareRetiring(n) \/ PrepareOpen(n) \/ PrepareReuse(n)
      PROVE  FailuresAreSeen'
    <2>1. phase' = "preparing"
        BY <1>5 DEF PrepareRetiring, PrepareOpen, PrepareReuse
    <2> QED
        BY <2>1
<1>6. ASSUME NEW n \in Nodes, ProbeAnswers(n) \/ ProbeFails(n)
      PROVE  FailuresAreSeen'
    <2>1. phase' = "probing" /\ seen' = seen /\ failures' = failures /\ phase = "probing"
        BY <1>6 DEF ProbeAnswers, ProbeFails, Finish, ledgerVars
    <2> QED
        BY <2>1
<1>7. ASSUME NEW n \in Nodes, SettleProbed(n) \/ SettleUnprobed(n)
      PROVE  FailuresAreSeen'
    BY <1>7, FailuresSettled
<1>8. ASSUME UNCHANGED <<phase, todo, seen, result, failures, retryNeeded>>
      PROVE  FailuresAreSeen'
    BY <1>8
<1>9. CASE \E c \in Channels : Pin(c) \/ Unpin(c) \/ Die(c) \/ Forget(c)
    BY <1>8, <1>9 DEF Pin, Unpin, Die, Forget, ledgerVars, passVars, outVars
<1>10. CASE \E n \in Nodes : Relist(n) \/ Attach(n)
    BY <1>8, <1>10 DEF Relist, Attach, ledgerVars, passVars, outVars
<1>11. CASE UNCHANGED vars
    BY <1>8, <1>11 DEF vars, ledgerVars, passVars, outVars
<1> QED
    BY <1>1, <1>2, <1>3, <1>4, <1>5, <1>6, <1>7, <1>9, <1>10, <1>11
       DEF Next, Pass

\* Between passes, a node whose failures are counted makes the watcher look
\* again soon (retry_needed), also when its channel only retires or would not
\* open.
THEOREM FailingNodesAskForRetry == Spec => []FailuresAskForRetry
<1>1. Init => IInv /\ FailuresAreSeen
    BY InitIInv, InitFailures
<1>2. IInv /\ FailuresAreSeen /\ [Next]_vars => (IInv /\ FailuresAreSeen)'
    BY NextIInv, NextFailures
<1>3. FailuresAreSeen => FailuresAskForRetry
    BY DEF FailuresAreSeen
<1> QED
    BY <1>1, <1>2, <1>3, PTL DEF Spec
-----------------------------------------------------------------------------
\* Initially nothing is known of any node.
LEMMA InitReplacement == Init => ReplacementInv
<1> SUFFICES ASSUME Init, NEW n \in Nodes PROVE UnhurtInv(n)
    BY DEF ReplacementInv
<1>1. phase = "idle" /\ truth[n] = None /\ failures[n] = 0
    BY DEF Init
<1>2. cache[n].st = "none"
    BY DEF Init, Vacant
<1>3. UnhurtIsServed(n) /\ TruthIsKept(n)
    BY <1>1 DEF UnhurtIsServed, TruthIsKept
<1>4. FailuresBound(n)
    BY <1>1, <1>2, EnumeratorAssumption DEF FailuresBound
<1> QED
    BY <1>3, <1>4 DEF UnhurtInv

\* A node of which a step touches nothing but the liveness of other channels.
LEMMA NodeFrame ==
    ASSUME NEW m \in Nodes, UnhurtInv(m),
           phase' = phase, m \in todo' <=> m \in todo, m \in seen' <=> m \in seen,
           m \in retiring' <=> m \in retiring, m \in unopened' <=> m \in unopened,
           result'[m] = result[m], cache'[m] = cache[m], failures'[m] = failures[m],
           truth'[m] = truth[m], lastGood'[m] = lastGood[m], reported'[m] = reported[m],
           cache[m].ch \in dead' => cache[m].ch \in dead \/ failures[m] < EvictAfter
    PROVE  UnhurtInv(m)'
<1>1. UnhurtIsServed(m)' /\ TruthIsKept(m)'
    BY DEF UnhurtInv, UnhurtIsServed, TruthIsKept, Vacant
<1>2. FailuresBound(m)'
    BY DEF UnhurtInv, FailuresBound, FreshlyOpened
<1> QED
    BY <1>1, <1>2 DEF UnhurtInv

\* The preparing phase: a retiring channel that is not held any more is
\* dropped, a missing one opened.
LEMMA PrepareKeeps ==
    ASSUME IInv, ReplacementInv, NEW n \in Nodes, NEW m \in Nodes \ hurt',
           PrepareRetiring(n) \/ PrepareOpen(n) \/ PrepareReuse(n)
    PROVE  UnhurtInv(m)'
<1>1. m \notin hurt /\ UnhurtInv(m)
    BY DEF PrepareRetiring, PrepareOpen, PrepareReuse, ReplacementInv, ghostVars
<1>2. /\ UNCHANGED <<phase, seen, result, failures, truth, lastGood, reported, dead>>
      /\ phase = "preparing" /\ n \in todo /\ todo' = todo \ {n}
    BY DEF PrepareRetiring, PrepareOpen, PrepareReuse, ghostVars, osVars, ledgerVars, outVars
<1>3. cache \in [Nodes -> {Vacant} \cup {Active(c) : c \in Channels}
                                   \cup {Retiring(c) : c \in Channels}]
    BY DEF IInv, TypeOK, ChannelTypes
<1>4. CASE m # n
    <2>1. cache'[m] = cache[m]
        BY <1>3, <1>4 DEF PrepareRetiring, PrepareOpen, PrepareReuse, Open, chanVars
    <2>2. (m \in retiring' <=> m \in retiring) /\ (m \in unopened' <=> m \in unopened)
        BY <1>4 DEF PrepareRetiring, PrepareOpen, PrepareReuse
    <2> QED
        BY <1>1, <1>2, <1>4, <2>1, <2>2, NodeFrame
<1>5. CASE m = n /\ PrepareRetiring(n)
    <2>1. /\ cache[m].st = "retiring" /\ retiring' = retiring \cup {m}
          /\ cache' = [cache EXCEPT ![m] = Vacant] /\ unopened' = unopened
        BY <1>5 DEF PrepareRetiring, StillRetiring
    <2>2. cache'[m] = Vacant
        BY <1>3, <2>1
    <2>3. failures[m] <= EvictAfter /\ failures[m] <= EvictAfter + 1
        BY <1>1, <2>1, EnumeratorAssumption
           DEF UnhurtInv, FailuresBound, IInv, TypeOK, LedgerTypes
    <2>4. UnhurtIsServed(m)' /\ TruthIsKept(m)'
        BY <1>1, <1>2, <1>5, <2>1, <2>2 DEF UnhurtInv, UnhurtIsServed, TruthIsKept, Vacant
    <2>5. FailuresBound(m)'
        BY <1>2, <2>2, <2>3 DEF FailuresBound, Vacant
    <2> QED
        BY <2>4, <2>5 DEF UnhurtInv
<1>6. CASE m = n /\ PrepareOpen(n)
    <2>1. unopened' = unopened /\ retiring' = retiring /\ Open(m)
        BY <1>6 DEF PrepareOpen
    <2>2. PICK c \in Channels : c \notin dead /\ cache' = [cache EXCEPT ![m] = Active(c)]
        BY <2>1 DEF Open
    <2>3. cache'[m].st = "active" /\ cache'[m].ch = c
        BY <1>3, <2>2 DEF Active
    <2>4. m \in seen \ retiring /\ m \notin unopened
        BY <1>1, <1>2, <1>6 DEF UnhurtInv, UnhurtIsServed
    <2>5. FreshlyOpened(m)'
        BY <1>2, <1>6, <2>1, <2>2, <2>3, <2>4 DEF FreshlyOpened
    <2>6. UnhurtIsServed(m)' /\ TruthIsKept(m)'
        BY <1>1, <1>2, <1>6, <2>1, <2>4 DEF UnhurtInv, UnhurtIsServed, TruthIsKept
    <2>7. FailuresBound(m)'
        BY <2>1, <2>3, <2>4, <2>5 DEF FailuresBound
    <2> QED
        BY <2>6, <2>7 DEF UnhurtInv
<1>7. CASE m = n /\ PrepareReuse(n)
    <2>1. UNCHANGED <<cache, retiring, unopened>>
        BY <1>7 DEF PrepareReuse, chanVars
    <2>2. UnhurtIsServed(m)' /\ TruthIsKept(m)'
        BY <1>1, <1>2, <2>1 DEF UnhurtInv, UnhurtIsServed, TruthIsKept, Vacant
    <2>3. FailuresBound(m)'
        BY <1>1, <1>2, <2>1 DEF UnhurtInv, FailuresBound, FreshlyOpened
    <2> QED
        BY <2>2, <2>3 DEF UnhurtInv
<1> QED
    BY <1>4, <1>5, <1>6, <1>7

\* The steps from one phase to the next.  A node that a pass does not retain
\* is hurt.
LEMMA PhaseKeeps ==
    ASSUME IInv, ReplacementInv, NEW m \in Nodes \ hurt',
           StartPass \/ FinishPreparing \/ FinishProbing \/ FinishPass
    PROVE  UnhurtInv(m)'
<1>1. m \notin hurt /\ UnhurtInv(m)
    BY DEF StartPass, FinishPreparing, FinishProbing, FinishPass, ReplacementInv, ghostVars
<1> USE DEF UnhurtInv
<1>2. CASE StartPass
    <2>1. /\ UNCHANGED <<cache, failures, truth, lastGood, reported>>
          /\ phase = "idle" /\ phase' = "preparing" /\ todo' = seen'
          /\ retiring' = {} /\ unopened' = {} /\ ~result'[m].healthy
        BY <1>2 DEF StartPass, chanVars, ledgerVars, outVars, ghostVars, Unprobed
    <2>2. UnhurtIsServed(m)' /\ TruthIsKept(m)'
        BY <1>1, <2>1 DEF UnhurtIsServed, TruthIsKept
    <2>3. FailuresBound(m)'
        BY <1>1, <2>1 DEF FailuresBound, FreshlyOpened
    <2> QED
        BY <2>2, <2>3
<1>3. CASE FinishPreparing
    <2>1. /\ m \in Retained /\ seen' = Retained /\ todo' = Retained \ (retiring \cup unopened)
          /\ phase = "preparing" /\ phase' = "probing"
          /\ UNCHANGED <<retiring, unopened, result, truth, dead>>
        BY <1>3 DEF FinishPreparing, osVars
    <2>2. /\ cache'[m] = cache[m] /\ lastGood'[m] = lastGood[m]
          /\ failures'[m] = failures[m] /\ reported'[m] = reported[m]
        BY <1>3, <2>1 DEF FinishPreparing
    <2>3. UnhurtIsServed(m)' /\ TruthIsKept(m)'
        BY <1>1, <2>1, <2>2 DEF UnhurtIsServed, TruthIsKept, Vacant
    <2>4. FreshlyOpened(m) => FreshlyOpened(m)'
        BY <1>1, <2>1, <2>2 DEF FreshlyOpened, UnhurtIsServed
    <2>5. FailuresBound(m)'
        BY <1>1, <2>1, <2>2, <2>4 DEF FailuresBound
    <2> QED
        BY <2>3, <2>5
<1>4. CASE FinishProbing
    <2>1. /\ phase = "probing" /\ phase' = "settling" /\ todo = {} /\ todo' = seen
          /\ UNCHANGED <<cache, failures, truth, lastGood, reported, seen, retiring,
                         unopened, result, dead>>
        BY <1>4 DEF FinishProbing, chanVars, ledgerVars, outVars, ghostVars, osVars
    <2>2. UnhurtIsServed(m)' /\ TruthIsKept(m)'
        BY <1>1, <2>1 DEF UnhurtIsServed, TruthIsKept, Vacant
    <2>3. FreshlyOpened(m) => FreshlyOpened(m)'
        BY <2>1 DEF FreshlyOpened
    <2>4. FailuresBound(m)'
        BY <1>1, <2>1, <2>3 DEF FailuresBound
    <2> QED
        BY <2>2, <2>4
<1>5. CASE FinishPass
    <2>1. /\ phase = "settling" /\ phase' = "idle" /\ todo = {}
          /\ UNCHANGED <<cache, failures, truth, lastGood, reported>>
        BY <1>5 DEF FinishPass, chanVars, ledgerVars, ghostVars
    <2>2. UnhurtIsServed(m)' /\ TruthIsKept(m)'
        BY <1>1, <2>1 DEF UnhurtIsServed, TruthIsKept
    <2>3. FailuresBound(m)'
        BY <1>1, <2>1 DEF FailuresBound, FreshlyOpened
    <2> QED
        BY <2>2, <2>3
<1> QED
    BY <1>2, <1>3, <1>4, <1>5

\* A probe that fails on a channel that is not dead hurts its node; one that
\* succeeds keeps what is known of a fresh channel.
LEMMA ProbeKeeps ==
    ASSUME IInv, ReplacementInv, NEW n \in Nodes, NEW m \in Nodes \ hurt',
           ProbeAnswers(n) \/ ProbeFails(n)
    PROVE  UnhurtInv(m)'
<1>1. m \notin hurt /\ UnhurtInv(m)
    BY DEF ProbeAnswers, ProbeFails, ReplacementInv
<1>2. /\ phase = "probing" /\ phase' = "probing" /\ n \in todo /\ todo' = todo \ {n}
      /\ UNCHANGED <<seen, retiring, unopened, dead, cache, failures, truth, lastGood,
                     reported>>
    BY DEF ProbeAnswers, ProbeFails, Finish, osVars, chanVars, ledgerVars, outVars
<1>3. PICK healthy \in BOOLEAN, live \in Inventories :
          /\ result' = [result EXCEPT ![n] = [healthy |-> healthy, live |-> live]]
          /\ ~healthy /\ m = n => cache[m].ch \in dead
    <2>1. CASE ProbeAnswers(n)
        <3>1. attached[n] \in Inventories /\ None \in Inventories
            BY DEF IInv, TypeOK, OsTypes, Inventories
        <3> QED
            BY <2>1, <3>1 DEF ProbeAnswers, Finish
    <2>2. CASE ProbeFails(n)
        <3>1. {None} \cup SUBSET attached[n] \subseteq Inventories
            BY DEF IInv, TypeOK, OsTypes, Inventories
        <3> QED
            BY <2>2, <3>1 DEF ProbeFails, Finish
    <2> QED
        BY <2>1, <2>2
<1>4. result \in [Nodes -> [healthy : BOOLEAN, live : Inventories]]
    BY DEF IInv, TypeOK, PassTypes
<1>5. CASE m # n
    <2>1. result'[m] = result[m]
        BY <1>3, <1>4, <1>5
    <2> QED
        BY <1>1, <1>2, <1>5, <2>1, NodeFrame
<1>6. CASE m = n
    <2>1. result'[m].healthy = healthy
        BY <1>3, <1>4, <1>6
    <2>2. m \notin retiring
        BY <1>1, <1>2, <1>6 DEF UnhurtInv, UnhurtIsServed
    <2>3. UnhurtIsServed(m)' /\ TruthIsKept(m)'
        BY <1>1, <1>2, <1>6, <2>2 DEF UnhurtInv, UnhurtIsServed, TruthIsKept
    <2>4. FreshlyOpened(m) => FreshlyOpened(m)'
        BY <1>2, <1>3, <1>6, <2>1 DEF FreshlyOpened
    <2>5. FailuresBound(m)'
        BY <1>1, <1>2, <1>6, <2>2, <2>4 DEF UnhurtInv, FailuresBound
    <2> QED
        BY <2>3, <2>5 DEF UnhurtInv
<1> QED
    BY <1>5, <1>6

\* Settling.  A failed result of an unhurt node is one of the failures that
\* its channel's state allows, so that the last good inventory is replayed.
LEMMA SettleKeeps ==
    ASSUME EvictAfter < ReplayGrace, IInv, ReplacementInv,
           NEW n \in Nodes, NEW m \in Nodes \ hurt',
           SettleProbed(n) \/ SettleUnprobed(n)
    PROVE  UnhurtInv(m)'
<1>1. /\ phase = "settling" /\ phase' = "settling" /\ n \in todo /\ n \in seen
      /\ todo' = todo \ {n} /\ SettleLedger(n)
      /\ UNCHANGED <<seen, retiring, unopened, result, dead>>
    BY DEF SettleProbed, SettleUnprobed, osVars, IInv, ToSettle
<1>2. cache \in [Nodes -> {Vacant} \cup {Active(c) : c \in Channels}
                                   \cup {Retiring(c) : c \in Channels}]
    BY DEF IInv, TypeOK, ChannelTypes
<1>3. /\ truth \in [Nodes -> Inventories] /\ lastGood \in [Nodes -> Inventories]
      /\ reported \in [Nodes -> Inventories] /\ failures \in [Nodes -> 0..MaxFailures]
      /\ MaxFailures \in Nat /\ EvictAfter \in Nat \ {0} /\ ReplayGrace \in Nat
    BY EnumeratorAssumption DEF IInv, TypeOK, LedgerTypes
<1>4. CASE m # n
    <2>1. m \notin hurt /\ UnhurtInv(m)
        BY <1>4 DEF SettleProbed, SettleUnprobed, ReplacementInv, ghostVars
    <2>2. failures'[m] = failures[m] /\ lastGood'[m] = lastGood[m] /\ reported'[m] = reported[m]
        BY <1>1, <1>4, SettleCounts
    <2>3. cache'[m] = cache[m]
        BY <1>2, <1>4 DEF SettleProbed, SettleUnprobed, Retire, Publish, chanVars
    <2>4. truth'[m] = truth[m]
        BY <1>3, <1>4 DEF SettleProbed, SettleUnprobed, ghostVars
    <2> QED
        BY <1>1, <1>4, <2>1, <2>2, <2>3, <2>4, NodeFrame
<1>5. CASE m = n /\ SettleProbed(n) /\ result[n].healthy
    <2>1. m \notin retiring /\ m \notin unopened /\ cache[m].st = "active"
        BY <1>5, <1>1 DEF SettleProbed, IInv, ProbedIsActive
    <2>2. cache' = cache
        BY <1>5 DEF SettleProbed, Evicts, Publish
    <2>3. failures'[m] = 0
        BY <1>1, <1>5, SettleCounts
    <2>4. lastGood'[m] = result[m].live /\ reported'[m] = result[m].live
          /\ truth'[m] = result[m].live
        BY <1>1, <1>3, <1>5 DEF SettleProbed, SettleLedger
    <2>5. UnhurtIsServed(m)' /\ TruthIsKept(m)'
        BY <1>1, <1>5, <2>1, <2>4 DEF UnhurtIsServed, TruthIsKept
    <2>6. FailuresBound(m)'
        BY <1>1, <1>3, <2>1, <2>2, <2>3 DEF FailuresBound
    <2> QED
        BY <2>5, <2>6 DEF UnhurtInv
<1>6. ASSUME m = n, ~result[n].healthy, m \notin hurt, Count(n) <= EvictAfter + 1,
             truth' = truth
      PROVE  TruthIsKept(m)'
    <2>1. SUFFICES ASSUME truth[m] # None
                   PROVE  lastGood'[m] = truth[m] /\ reported'[m] = truth[m]
        BY <1>6 DEF TruthIsKept
    <2>2. lastGood[n] = truth[m]
        BY <1>6, <2>1 DEF ReplacementInv, UnhurtInv, TruthIsKept
    <2>3. Count(n) <= ReplayGrace
        BY <1>1, <1>3, <1>6, SettleCounts
    <2>4. reported' = [reported EXCEPT ![n] = lastGood[n]] /\ lastGood' = lastGood
        BY <1>1, <1>6, <2>1, <2>2, <2>3 DEF SettleLedger
    <2> QED
        BY <1>3, <1>6, <2>2, <2>4
<1>7. CASE m = n /\ SettleProbed(n) /\ ~result[n].healthy
    <2>1. /\ m \notin hurt /\ UnhurtInv(m) /\ truth' = truth
        BY <1>7 DEF SettleProbed, ReplacementInv, ghostVars
    <2>2. m \notin retiring /\ m \notin unopened /\ cache[m].st = "active"
        BY <1>7, <1>1 DEF SettleProbed, IInv, ProbedIsActive
    <2>3. failures[m] < EvictAfter
        BY <1>1, <1>7, <2>1, <2>2 DEF UnhurtInv, FailuresBound, FreshlyOpened
    <2>4. Count(n) \in Nat /\ Count(n) <= EvictAfter /\ failures'[m] = Count(n)
        BY <1>1, <1>3, <1>7, <2>3, SettleCounts
    <2>5. TruthIsKept(m)'
        BY <1>3, <1>6, <1>7, <2>1, <2>4
    <2>6. UnhurtIsServed(m)'
        BY <1>1, <1>7, <2>2 DEF UnhurtIsServed
    <2>7. CASE Evicts(n)
        <3>1. cache'[m].st = "retiring"
            BY <1>2, <1>7, <2>7 DEF SettleProbed, Retire, Retiring
        <3> QED
            BY <1>1, <2>2, <2>4, <2>5, <2>6, <3>1 DEF UnhurtInv, FailuresBound
    <2>8. CASE ~Evicts(n)
        <3>1. cache' = cache /\ Count(n) < EvictAfter
            BY <1>3, <1>7, <2>4, <2>8 DEF SettleProbed, Publish, Evicts
        <3> QED
            BY <1>1, <2>2, <2>4, <2>5, <2>6, <3>1 DEF UnhurtInv, FailuresBound
    <2> QED
        BY <2>7, <2>8
<1>8. CASE m = n /\ SettleUnprobed(n)
    <2>1. m \notin hurt /\ UnhurtInv(m) /\ truth' = truth /\ cache' = cache
        BY <1>8 DEF SettleUnprobed, ReplacementInv, ghostVars, chanVars
    <2>2. m \in retiring /\ m \notin unopened /\ cache[m] = Vacant /\ ~result[m].healthy
        BY <1>1, <1>8, <2>1 DEF SettleUnprobed, UnhurtInv, UnhurtIsServed
    <2>3. failures[m] <= EvictAfter
        BY <1>1, <1>8, <2>1, <2>2 DEF UnhurtInv, FailuresBound
    <2>4. Count(n) \in Nat /\ Count(n) <= EvictAfter + 1 /\ failures'[m] = Count(n)
        BY <1>1, <1>3, <1>8, <2>2, <2>3, SettleCounts
    <2>5. TruthIsKept(m)'
        BY <1>6, <1>8, <2>1, <2>2, <2>4
    <2>6. UnhurtIsServed(m)'
        BY <1>1, <1>8, <2>1, <2>2 DEF UnhurtIsServed, Vacant
    <2>7. FailuresBound(m)'
        BY <1>1, <1>8, <2>1, <2>2, <2>4 DEF FailuresBound, Vacant
    <2> QED
        BY <2>5, <2>6, <2>7 DEF UnhurtInv
<1> QED
    BY <1>4, <1>5, <1>7, <1>8

\* Beside the pass: only the death of a channel can matter to a node, and one
\* that hits a node that has failed before hurts it.
LEMMA BesideKeeps ==
    ASSUME IInv, ReplacementInv, NEW m \in Nodes \ hurt',
           \/ \E c \in Channels : Pin(c) \/ Unpin(c) \/ Die(c) \/ Forget(c)
           \/ \E n \in Nodes : Relist(n) \/ Attach(n)
           \/ UNCHANGED vars
    PROVE  UnhurtInv(m)'
<1>1. UNCHANGED <<passVars, cache, ledgerVars, reported, truth>>
    BY DEF Pin, Unpin, Die, Forget, Relist, Attach, vars, chanVars, outVars, ghostVars
<1>2. m \notin hurt /\ UnhurtInv(m)
    BY DEF Pin, Unpin, Die, Forget, Relist, Attach, vars, ghostVars, ReplacementInv
<1>3. cache[m].ch \in dead' => cache[m].ch \in dead \/ failures[m] < EvictAfter
    <2>1. CASE \E c \in Channels : Die(c)
        <3>1. PICK c \in Channels : Die(c)
            BY <2>1
        <3>2. CASE cache[m].ch = c
            <4>1. home[c] = m
                BY <3>2, EnumeratorAssumption DEF IInv, OpenIsCached, Vacant
            <4>2. ~(failures[m] > 0)
                BY <3>1, <4>1 DEF Die
            <4>3. failures[m] \in Nat
                BY EnumeratorAssumption DEF IInv, TypeOK, LedgerTypes
            <4> QED
                BY <4>2, <4>3, EnumeratorAssumption
        <3>3. CASE cache[m].ch # c
            BY <3>1, <3>3 DEF Die
        <3> QED
            BY <3>2, <3>3
    <2>2. CASE dead' \subseteq dead
        BY <2>2
    <2> QED
        BY <2>1, <2>2 DEF Pin, Unpin, Forget, Relist, Attach, vars, osVars
<1> QED
    BY <1>1, <1>2, <1>3, NodeFrame DEF passVars, ledgerVars

\* Every step keeps it.
LEMMA NextReplacement ==
    ASSUME EvictAfter < ReplayGrace, IInv, ReplacementInv, [Next]_vars
    PROVE  ReplacementInv'
<1> SUFFICES ASSUME NEW m \in Nodes \ hurt' PROVE UnhurtInv(m)'
    BY DEF ReplacementInv
<1>1. CASE Pass
    <2>1. CASE StartPass \/ FinishPreparing \/ FinishProbing \/ FinishPass
        BY <2>1, PhaseKeeps
    <2>2. ASSUME NEW n \in Nodes,
                 PrepareRetiring(n) \/ PrepareOpen(n) \/ PrepareReuse(n)
          PROVE  UnhurtInv(m)'
        BY <2>2, PrepareKeeps
    <2>3. ASSUME NEW n \in Nodes, ProbeAnswers(n) \/ ProbeFails(n)
          PROVE  UnhurtInv(m)'
        BY <2>3, ProbeKeeps
    <2>4. ASSUME NEW n \in Nodes, SettleProbed(n) \/ SettleUnprobed(n)
          PROVE  UnhurtInv(m)'
        BY <2>4, SettleKeeps
    <2> QED
        BY <1>1, <2>1, <2>2, <2>3, <2>4 DEF Pass
<1>2. CASE ~Pass
    BY <1>2, BesideKeeps DEF Next
<1> QED
    BY <1>1, <1>2

\* While all that is wrong with a node is one dead channel whose users let go
\* of it in time, what is reported of it is what its last healthy probe
\* found: eviction, retirement and reopening together fit into the replay
\* grace, provided that the grace outlasts the failures before eviction.
THEOREM ReplacementsAreUnnoticed ==
    ASSUME EvictAfter < ReplayGrace
    PROVE  Spec => []ReplacementUnnoticed
<1>1. Init => IInv /\ ReplacementInv
    BY InitIInv, InitReplacement
<1>2. IInv /\ ReplacementInv /\ [Next]_vars => (IInv /\ ReplacementInv)'
    BY NextIInv, NextReplacement
<1>3. ReplacementInv => ReplacementUnnoticed
    BY DEF ReplacementInv, UnhurtInv, TruthIsKept, ReplacementUnnoticed
<1> QED
    BY <1>1, <1>2, <1>3, PTL DEF Spec
=============================================================================
