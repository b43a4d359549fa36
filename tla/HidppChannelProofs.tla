------------------------- MODULE HidppChannelProofs -------------------------
(***************************************************************************)
(* Proofs about HidppChannel, for every set of calls, headers, widths and  *)
(* listeners: the inductive invariant, the properties it implies, and the  *)
(* implementation of RequestReply.                                         *)
(***************************************************************************)
EXTENDS HidppChannel, TLAPS

\* Answers and events are told apart from each other and from None.
LEMMA ReportFacts ==
    /\ None \notin Requests
    /\ \A q \in Requests : Answer(q) \in Reports /\ Answer(q) # None
    /\ \A n \in 1..MaxEvents : Event(n) \in Reports /\ Event(n) # None
    /\ \A q, r \in Requests : Answer(q) = Answer(r) => q = r
    /\ \A q \in Requests, n \in 1..MaxEvents : Answer(q) # Event(n)
<1>1. \A q \in Requests : Answer(q) \in Reports
    BY DEF Reports
<1>2. \A n \in 1..MaxEvents : Event(n) \in Reports
    BY DEF Reports
<1>3. \A q, r \in Requests : Answer(q) = Answer(r) => q = r
    BY DEF Answer
<1>4. \A q \in Requests, n \in 1..MaxEvents : Answer(q) # Event(n)
    BY DEF Answer, Event
<1> QED
    BY <1>1, <1>2, <1>3, <1>4, NoneAssumption

\* The queue without one of its members: what dropping a PendingRequest
\* leaves (TakeOff), of the right type and with nobody before itself.
LEMMA TakeOffKeepsQueue ==
    ASSUME TypeOK, QueueOrder, NEW r \in Requests, TakeOff(r)
    PROVE  /\ pending' \subseteq Requests
           /\ ahead' \in [Requests -> SUBSET Requests]
           /\ QueueOrder'
BY DEF TypeOK, CallTypes, QueueOrder, TakeOff

LEMMA InitIInv == Init => IInv
<1> SUFFICES ASSUME Init PROVE IInv
    OBVIOUS
<1> USE ConstantsAssumption DEF Init
<1>1. TypeOK
    <2>1. CallTypes
        BY DEF CallTypes
    <2>2. WireTypes
        BY DEF WireTypes
    <2>3. ReadTypes
        BY DEF ReadTypes
    <2> QED
        BY <2>1, <2>2, <2>3 DEF TypeOK
<1>2. PendingExact
    BY DEF PendingExact, InFlight
<1>3. HeaderExclusive /\ QueueOrder
    BY DEF HeaderExclusive, QueueOrder
<1>4. AnswersFresh /\ OwnAnswerOnly
    BY ReportFacts DEF AnswersFresh, OwnAnswerOnly
<1>5. ReportHeld /\ MatchedMeansTaken /\ OwedToCome
    BY ReportFacts DEF ReportHeld, MatchedMeansTaken, OwedToCome
<1> QED
    BY <1>1, <1>2, <1>3, <1>4, <1>5 DEF IInv
-----------------------------------------------------------------------------
\* What the callers and the wire hold is undisturbed by a step that touches
\* neither.
LEMMA CallsFrame ==
    ASSUME IInv, UNCHANGED <<callVars, writing, device>>
    PROVE  /\ CallTypes' /\ PendingExact' /\ HeaderExclusive'
           /\ QueueOrder' /\ AnswersFresh' /\ OwnAnswerOnly'
<1> USE DEF IInv, callVars
<1>1. CallTypes'
    BY DEF TypeOK, CallTypes
<1>2. PendingExact'
    BY DEF PendingExact
<1>3. HeaderExclusive'
    BY DEF HeaderExclusive, Rivals
<1>4. QueueOrder' /\ OwnAnswerOnly'
    BY DEF QueueOrder, OwnAnswerOnly
<1>5. AnswersFresh'
    BY DEF AnswersFresh
<1> QED
    BY <1>1, <1>2, <1>3, <1>4, <1>5

\* What the read thread owes is undisturbed by a step of a caller.
LEMMA ReaderFrame ==
    ASSUME IInv, UNCHANGED <<readVars, listeners>>
    PROVE  ReadTypes' /\ OwedToCome'
BY DEF IInv, TypeOK, ReadTypes, OwedToCome, readVars

\* What a report in hand says is undisturbed by a step that leaves the
\* reader and the answers alone, puts nothing read back on the wire and
\* un-asks nothing.
LEMMA ReportFrame ==
    ASSUME IInv, UNCHANGED <<readVars, slot>>,
           \A q \in Requests :
              /\ pc[q] \notin {"idle", "refused"}
              /\ q \notin writing \cup device
              => /\ pc'[q] \notin {"idle", "refused"}
                 /\ q \notin writing' \cup device'
    PROVE  ReportHeld' /\ MatchedMeansTaken'
BY DEF IInv, ReportHeld, MatchedMeansTaken, readVars

LEMMA RefuseStep ==
    ASSUME IInv, NEW r \in Requests, Refuse(r)
    PROVE  IInv'
<1> USE DEF Refuse, IInv
<1>1. CallTypes' /\ WireTypes'
    BY DEF TypeOK, CallTypes, WireTypes, Ended, wireVars
<1>2. PendingExact'
    BY DEF PendingExact, TypeOK, CallTypes, InFlight
<1>3. HeaderExclusive' /\ QueueOrder' /\ OwnAnswerOnly'
    BY DEF HeaderExclusive, Rivals, QueueOrder, OwnAnswerOnly, wireVars
<1>4. AnswersFresh'
    BY DEF AnswersFresh, TypeOK, CallTypes, wireVars
<1>5. ReportHeld' /\ MatchedMeansTaken'
    BY ReportFrame DEF TypeOK, CallTypes, wireVars
<1>6. ReadTypes' /\ OwedToCome'
    BY ReaderFrame
<1> QED
    BY <1>1, <1>2, <1>3, <1>4, <1>5, <1>6 DEF TypeOK

LEMMA RegisterStep ==
    ASSUME IInv, NEW r \in Requests, Register(r)
    PROVE  IInv'
<1> USE DEF Register, IInv
<1>1. CallTypes' /\ WireTypes'
    BY DEF TypeOK, CallTypes, WireTypes, InFlight, Rivals, SameHeader
<1>2. PendingExact'
    BY ReportFacts
       DEF PendingExact, AnswersFresh, TypeOK, CallTypes, InFlight
<1>3. r \notin pending
    BY DEF PendingExact, InFlight
<1>4. HeaderExclusive'
    <2> SUFFICES ASSUME NEW q \in pending' \ exposed', NEW p \in Rivals(q)'
                 PROVE  FALSE
        BY DEF HeaderExclusive
    <2>1. CASE q = r
        <3>1. Rivals(r) = {}
            BY <2>1
        <3>2. p \in Rivals(r)
            BY <2>1, <1>3 DEF Rivals, SameHeader
        <3> QED
            BY <3>1, <3>2
    <2>2. CASE q # r
        <3>1. q \in pending /\ q \notin exposed
            BY <2>2
        <3>2. CASE p = r
            <4>1. q \in Rivals(r)
                BY <3>1, <3>2, <2>2
                   DEF Rivals, SameHeader, TypeOK, CallTypes
            <4> QED
                BY <4>1
        <3>3. CASE p # r
            <4>1. p \in Rivals(q)
                BY <3>3 DEF Rivals, SameHeader
            <4> QED
                BY <4>1, <3>1 DEF HeaderExclusive
        <3> QED
            BY <3>2, <3>3
    <2> QED
        BY <2>1, <2>2
<1>5. QueueOrder'
    BY <1>3 DEF QueueOrder, TypeOK, CallTypes
<1>6. OwnAnswerOnly'
    BY DEF OwnAnswerOnly
<1>7. AnswersFresh'
    BY ReportFacts DEF AnswersFresh, TypeOK, CallTypes
<1>8. ReportHeld' /\ MatchedMeansTaken'
    BY ReportFrame DEF TypeOK, CallTypes
<1>9. ReadTypes' /\ OwedToCome'
    BY ReaderFrame
<1> QED
    BY <1>1, <1>2, <1>4, <1>5, <1>6, <1>7, <1>8, <1>9 DEF TypeOK

LEMMA WriteReturnsStep ==
    ASSUME IInv, NEW r \in Requests, WriteReturns(r)
    PROVE  IInv'
<1> USE DEF WriteReturns, IInv
<1>1. CallTypes' /\ WireTypes'
    BY DEF TypeOK, CallTypes, WireTypes, InFlight, Ended, wireVars
<1>2. PendingExact'
    BY DEF PendingExact, TypeOK, CallTypes, InFlight
<1>3. HeaderExclusive' /\ QueueOrder' /\ OwnAnswerOnly'
    BY DEF HeaderExclusive, Rivals, QueueOrder, OwnAnswerOnly, wireVars
<1>4. AnswersFresh'
    BY DEF AnswersFresh, TypeOK, CallTypes, wireVars
<1>5. ReportHeld' /\ MatchedMeansTaken'
    BY ReportFrame DEF TypeOK, CallTypes, wireVars
<1>6. ReadTypes' /\ OwedToCome'
    BY ReaderFrame
<1> QED
    BY <1>1, <1>2, <1>3, <1>4, <1>5, <1>6 DEF TypeOK

\* The four ways a call in flight ends without being refused or sent.
LEMMA LeaveStep ==
    ASSUME IInv, NEW r \in Requests, pc[r] \in InFlight,
           NEW outcome \in {"answered", "timedOut", "abandoned"},
           Leave(r, outcome)
    PROVE  IInv'
<1> USE DEF Leave, IInv
<1>1. pending' \subseteq pending
    BY DEF TakeOff
<1>2. CallTypes' /\ WireTypes' /\ QueueOrder'
    BY TakeOffKeepsQueue
       DEF TypeOK, CallTypes, WireTypes, Ended, wireVars
<1>3. PendingExact'
    BY DEF PendingExact, TypeOK, CallTypes, InFlight, TakeOff
<1>4. HeaderExclusive' /\ OwnAnswerOnly'
    BY <1>1 DEF HeaderExclusive, Rivals, OwnAnswerOnly, wireVars
<1>5. AnswersFresh'
    BY DEF AnswersFresh, TypeOK, CallTypes, wireVars, InFlight
<1>6. ReportHeld' /\ MatchedMeansTaken'
    BY ReportFrame DEF TypeOK, CallTypes, wireVars
<1>7. ReadTypes' /\ OwedToCome'
    BY ReaderFrame
<1> QED
    BY <1>2, <1>3, <1>4, <1>5, <1>6, <1>7 DEF TypeOK

LEMMA DeliverStep ==
    ASSUME IInv, NEW r \in Requests, Deliver(r)
    PROVE  IInv'
<1> USE DEF Deliver, IInv, callVars
<1>1. CallTypes' /\ WireTypes'
    BY DEF TypeOK, CallTypes, WireTypes
<1>2. PendingExact' /\ QueueOrder' /\ OwnAnswerOnly'
    BY DEF PendingExact, QueueOrder, OwnAnswerOnly
<1>3. writing' \cup device' = writing \cup device
    OBVIOUS
<1>4. HeaderExclusive'
    BY <1>3 DEF HeaderExclusive, Rivals
<1>5. AnswersFresh'
    BY <1>3 DEF AnswersFresh
<1>6. ReportHeld' /\ MatchedMeansTaken'
    BY <1>3, ReportFrame
<1>7. ReadTypes' /\ OwedToCome'
    BY ReaderFrame
<1> QED
    BY <1>1, <1>2, <1>4, <1>5, <1>6, <1>7 DEF TypeOK
-----------------------------------------------------------------------------
\* An answer nobody can still take, or one that goes to a call that waits.
LEMMA FirstMatchingFacts ==
    ASSUME NEW h, NEW r \in FirstMatching(h)
    PROVE  r \in pending /\ HeaderOf[r] = h
BY DEF FirstMatching, Matching

LEMMA ReadAnswerStep ==
    ASSUME IInv, NEW q \in Requests, ReadAnswer(q)
    PROVE  IInv'
<1> USE DEF IInv
<1>1. /\ reader = "reading" /\ q \in device
      /\ device' = device \ {q} /\ writing' = writing
      /\ report' = Answer(q) /\ reader' = "matched"
      /\ owed' = listeners /\ listeners' = listeners
      /\ pc' = pc /\ exposed' = exposed /\ toCall' = toCall
      /\ events' = events /\ chan' = chan
    BY DEF ReadAnswer
<1>2. /\ pc[q] \notin {"idle", "refused"}
      /\ q \notin writing' \cup device'
      /\ \A s \in Requests : slot[s] # q
    BY <1>1 DEF AnswersFresh
<1>3. WireTypes' /\ ReadTypes'
    <2>1. WireTypes'
        BY <1>1 DEF TypeOK, WireTypes
    <2>2. matched' \in BOOLEAN
        BY DEF ReadAnswer
    <2> QED
        BY <2>1, <2>2, <1>1, ReportFacts DEF TypeOK, ReadTypes
<1>4. OwedToCome'
    BY <1>1 DEF OwedToCome
<1>5. CASE FirstMatching(HeaderOf[q]) = {} /\ ~matched'
           /\ UNCHANGED <<pending, ahead, slot>>
    <2>1. CallTypes' /\ PendingExact' /\ QueueOrder' /\ OwnAnswerOnly'
        BY <1>1, <1>5
           DEF TypeOK, CallTypes, PendingExact, QueueOrder, OwnAnswerOnly
    <2>2. HeaderExclusive'
        BY <1>1, <1>5 DEF HeaderExclusive, Rivals
    <2>3. AnswersFresh'
        BY <1>1, <1>5 DEF AnswersFresh
    <2>4. ReportHeld'
        BY <1>1, <1>2, <1>5, ReportFacts DEF ReportHeld
    <2>5. MatchedMeansTaken'
        <3> SUFFICES ASSUME NEW p \in Requests, report' = Answer(p)
                     PROVE  /\ ~matched'
                            /\ \A s \in Requests : slot'[s] # p
            BY DEF MatchedMeansTaken
        <3>1. p = q
            BY <1>1, ReportFacts
        <3> QED
            BY <1>2, <1>5, <3>1
    <2> QED
        BY <1>3, <1>4, <2>1, <2>2, <2>3, <2>4, <2>5 DEF TypeOK
<1>6. ASSUME NEW r \in FirstMatching(HeaderOf[q]),
             matched' = TRUE, TakeOff(r), slot' = [slot EXCEPT ![r] = q]
      PROVE  IInv'
    <2>1. r \in pending /\ r \in Requests /\ HeaderOf[r] = HeaderOf[q]
        BY FirstMatchingFacts DEF TypeOK, CallTypes
    <2>2. pending' = pending \ {r}
        BY <1>6 DEF TakeOff
    <2>3. CallTypes' /\ QueueOrder'
        BY <1>1, <1>6, <2>1, TakeOffKeepsQueue DEF TypeOK, CallTypes
    <2>4. PendingExact'
        BY <1>1, <1>6, <2>1, <2>2, ReportFacts
           DEF PendingExact, TypeOK, CallTypes
    <2>5. HeaderExclusive'
        BY <1>1, <2>2 DEF HeaderExclusive, Rivals
    <2>6. OwnAnswerOnly'
        <3>1. r \notin exposed => r = q
            <4> SUFFICES ASSUME r \notin exposed, r # q
                         PROVE  FALSE
                OBVIOUS
            <4>1. q \in Rivals(r)
                BY <1>1, <2>1 DEF Rivals, SameHeader
            <4> QED
                BY <2>1, <4>1 DEF HeaderExclusive
        <3>2. slot'[r] = q /\ \A s \in Requests \ {r} : slot'[s] = slot[s]
            BY <1>6, <2>1 DEF TypeOK, CallTypes
        <3> QED
            BY <1>1, <3>1, <3>2 DEF OwnAnswerOnly
    <2>7. AnswersFresh'
        <3>1. slot[r] = None
            BY <2>1 DEF PendingExact
        <3>2. slot'[r] = q /\ \A s \in Requests \ {r} : slot'[s] = slot[s]
            BY <1>6, <2>1 DEF TypeOK, CallTypes
        <3>3. pc[r] \notin {"idle", "refused"} /\ r \notin Silent
            BY <2>1 DEF PendingExact, InFlight
        <3>4. writing' \cap device' = {}
            BY <1>1 DEF AnswersFresh
        <3>5. \A s \in Requests :
                 pc'[s] \in {"idle", "refused"} =>
                     s \notin writing' \cup device' /\ slot'[s] = None
            BY <1>1, <3>2, <3>3 DEF AnswersFresh
        <3>6. ASSUME NEW s \in Requests, NEW p \in Requests, slot'[s] = p
              PROVE  /\ p \notin writing' \cup device'
                     /\ pc'[p] \notin {"idle", "refused"}
                     /\ s \notin Silent
            <4>1. CASE s = r
                BY <1>1, <1>2, <3>2, <3>3, <3>6, <4>1
            <4>2. CASE s # r
                BY <1>1, <3>2, <3>6, <4>2 DEF AnswersFresh
            <4> QED
                BY <4>1, <4>2
        <3>7. ASSUME NEW s \in Requests, NEW p \in Requests,
                     slot'[s] = slot'[p], slot'[s] # None
              PROVE  s = p
            <4>1. CASE s = r \/ p = r
                BY <1>2, <3>2, <3>7, <4>1
            <4>2. CASE s # r /\ p # r
                BY <3>2, <3>7, <4>2 DEF AnswersFresh
            <4> QED
                BY <4>1, <4>2
        <3> QED
            BY <3>4, <3>5, <3>6, <3>7 DEF AnswersFresh
    <2>8. ReportHeld'
        BY <1>1, <1>2, ReportFacts DEF ReportHeld
    <2>9. MatchedMeansTaken'
        <3> SUFFICES ASSUME NEW p \in Requests, report' = Answer(p)
                     PROVE  /\ slot'[r] = p
                            /\ \A s \in Requests : slot'[s] = p => s = r
            BY <1>6, <2>1 DEF MatchedMeansTaken
        <3>1. p = q
            BY <1>1, ReportFacts
        <3>2. slot'[r] = q /\ \A s \in Requests \ {r} : slot'[s] = slot[s]
            BY <1>6, <2>1 DEF TypeOK, CallTypes
        <3> QED
            BY <1>2, <3>1, <3>2
    <2> QED
        BY <1>3, <1>4, <2>3, <2>4, <2>5, <2>6, <2>7, <2>8, <2>9 DEF TypeOK
<1> QED
    BY <1>5, <1>6 DEF ReadAnswer

\* The steps of the read thread and of the listeners that touch no call.
LEMMA ReadingStep ==
    ASSUME IInv,
           \/ ReadEvent \/ Snapshot \/ NextReport \/ SeeClose
           \/ \E l \in Listeners :
                 Call(l) \/ AddListener(l) \/ RemoveListener(l)
    PROVE  IInv'
<1> USE DEF IInv
<1>1. UNCHANGED <<callVars, writing, device>>
    BY DEF ReadEvent, Snapshot, NextReport, SeeClose, Call, AddListener,
           RemoveListener, wireVars
<1>2. /\ CallTypes' /\ PendingExact' /\ HeaderExclusive' /\ QueueOrder'
      /\ AnswersFresh' /\ OwnAnswerOnly'
    BY <1>1, CallsFrame
<1>3. WireTypes' /\ ReadTypes' /\ ReportHeld' /\ MatchedMeansTaken'
      /\ OwedToCome'
    <2> USE <1>1 DEF callVars
    <2>1. CASE ReadEvent
        <3>1. events + 1 \in 1..MaxEvents
            BY <2>1, ConstantsAssumption DEF ReadEvent, TypeOK, WireTypes
        <3>2. WireTypes'
            BY <2>1, <3>1, ConstantsAssumption
               DEF ReadEvent, TypeOK, WireTypes
        <3>3. ReadTypes'
            BY <2>1, <3>1, ReportFacts DEF ReadEvent, TypeOK, ReadTypes
        <3>4. ReportHeld' /\ MatchedMeansTaken' /\ OwedToCome'
            BY <2>1, <3>1, ReportFacts
               DEF ReadEvent, ReportHeld, MatchedMeansTaken, OwedToCome
        <3> QED
            BY <3>2, <3>3, <3>4
    <2>2. CASE Snapshot
        BY <2>2 DEF Snapshot, TypeOK, WireTypes, ReadTypes, ReportHeld,
                    MatchedMeansTaken, OwedToCome, wireVars
    <2>3. CASE NextReport
        BY <2>3, ReportFacts
           DEF NextReport, TypeOK, WireTypes, ReadTypes, ReportHeld,
               MatchedMeansTaken, OwedToCome, wireVars
    <2>4. CASE SeeClose
        BY <2>4 DEF SeeClose, TypeOK, WireTypes, ReadTypes, ReportHeld,
                    MatchedMeansTaken, OwedToCome, wireVars
    <2>5. ASSUME NEW l \in Listeners, Call(l)
          PROVE  WireTypes' /\ ReadTypes' /\ ReportHeld'
                 /\ MatchedMeansTaken' /\ OwedToCome'
        BY <2>5 DEF Call, TypeOK, WireTypes, ReadTypes, ReportHeld,
                    MatchedMeansTaken, OwedToCome, wireVars
    <2>6. ASSUME NEW l \in Listeners, AddListener(l) \/ RemoveListener(l)
          PROVE  WireTypes' /\ ReadTypes' /\ ReportHeld'
                 /\ MatchedMeansTaken' /\ OwedToCome'
        BY <2>6 DEF AddListener, RemoveListener, TypeOK, WireTypes,
                    ReadTypes, ReportHeld, MatchedMeansTaken, OwedToCome,
                    wireVars, readVars
    <2> QED
        BY <2>1, <2>2, <2>3, <2>4, <2>5, <2>6
<1> QED
    BY <1>2, <1>3 DEF TypeOK

\* Drop's steps, and a stuttering one.
LEMMA ShutdownStep ==
    ASSUME IInv,
           \/ DropChannel \/ Dropping
           \/ UNCHANGED vars
    PROVE  IInv'
<1> USE DEF IInv
<1>1. /\ UNCHANGED <<callVars, wireVars, readVars, listeners>>
      /\ chan' \in {chan, "closing", "joined", "rawClosed", "freed"}
    BY DEF DropChannel, Dropping, JoinReader, CloseRaw, FreeLease, vars
<1>2. /\ CallTypes' /\ PendingExact' /\ HeaderExclusive' /\ QueueOrder'
      /\ AnswersFresh' /\ OwnAnswerOnly'
    BY <1>1, CallsFrame DEF wireVars
<1>3. ReadTypes' /\ OwedToCome'
    BY <1>1, ReaderFrame
<1>4. WireTypes'
    BY <1>1 DEF TypeOK, WireTypes, wireVars
<1>5. ReportHeld' /\ MatchedMeansTaken'
    BY <1>1, ReportFrame DEF wireVars, callVars
<1> QED
    BY <1>2, <1>3, <1>4, <1>5 DEF TypeOK

\* Every step preserves the inductive invariant.
LEMMA NextIInv == ASSUME IInv, [Next]_vars PROVE IInv'
<1>1. ASSUME NEW r \in Requests, Refuse(r) PROVE IInv'
    BY <1>1, RefuseStep
<1>2. ASSUME NEW r \in Requests, Register(r) PROVE IInv'
    BY <1>2, RegisterStep
<1>3. ASSUME NEW r \in Requests, WriteReturns(r) PROVE IInv'
    BY <1>3, WriteReturnsStep
<1>4. ASSUME NEW r \in Requests,
             WriteFails(r) \/ Receive(r) \/ TimeOut(r) \/ Cancel(r)
      PROVE IInv'
    <2>1. pc[r] \in InFlight
        BY <1>4 DEF WriteFails, Receive, TimeOut, Cancel, InFlight
    <2>2. PICK outcome \in {"answered", "timedOut", "abandoned"} :
              Leave(r, outcome)
        BY <1>4 DEF WriteFails, Receive, TimeOut, Cancel
    <2> QED
        BY <2>1, <2>2, LeaveStep
<1>5. ASSUME NEW r \in Requests, Deliver(r) PROVE IInv'
    BY <1>5, DeliverStep
<1>6. ASSUME NEW r \in Requests, ReadAnswer(r) PROVE IInv'
    BY <1>6, ReadAnswerStep
<1>7. CASE \/ ReadEvent \/ Snapshot \/ NextReport \/ SeeClose
           \/ \E l \in Listeners :
                 Call(l) \/ AddListener(l) \/ RemoveListener(l)
    BY <1>7, ReadingStep
<1>8. CASE DropChannel \/ Dropping \/ UNCHANGED vars
    BY <1>8, ShutdownStep
<1> QED
    BY <1>1, <1>2, <1>3, <1>4, <1>5, <1>6, <1>7, <1>8 DEF Next, Reading

\* The inductive invariant holds throughout.
THEOREM ChannelInvariant == Spec => []IInv
<1>1. Init => IInv
    BY InitIInv
<1>2. IInv /\ [Next]_vars => IInv'
    BY NextIInv
<1> QED
    BY <1>1, <1>2, PTL DEF Spec

\* Type correctness of the channel.
THEOREM ChannelTypes == Spec => []TypeOK
BY ChannelInvariant, PTL DEF IInv

\* However a call ends, its queue entry is gone, and a call that still waits
\* is queued.
THEOREM QueueHoldsTheWaiting == Spec => []PendingExact
BY ChannelInvariant, PTL DEF IInv

\* A call that has its header to itself gets its own answer or none.
THEOREM CorrelationSound == Spec => []OwnAnswerOnly
BY ChannelInvariant, PTL DEF IInv

\* The matched flag listeners see is true to what the callers got.
THEOREM MatchedFlagTrue == Spec => []MatchedMeansTaken
BY ChannelInvariant, PTL DEF IInv

\* No registered listener misses a report.
THEOREM ListenersHearAll == Spec => []NoListenerSkipped
<1>1. IInv => NoListenerSkipped
    BY DEF IInv, OwedToCome, NoListenerSkipped
<1> QED
    BY <1>1, ChannelInvariant, PTL
-----------------------------------------------------------------------------
\* A request leaves the wire only by being answered.
LEMMA OnlyAnswersLeave ==
    ASSUME [Next]_vars, NEW q \in Requests, q \in device \ device'
    PROVE  ReadAnswer(q)
<1>1. ASSUME NEW r \in Requests, ReadAnswer(r) PROVE ReadAnswer(q)
    <2>1. device' = device \ {r}
        BY <1>1 DEF ReadAnswer
    <2> QED
        BY <1>1, <2>1
<1>2. ASSUME NEW r \in Requests,
             \/ Refuse(r) \/ Register(r) \/ WriteReturns(r) \/ WriteFails(r)
             \/ Receive(r) \/ TimeOut(r) \/ Cancel(r) \/ Deliver(r)
      PROVE  FALSE
    BY <1>2 DEF Refuse, Register, WriteReturns, WriteFails, Receive, TimeOut,
                Cancel, Deliver, Leave, wireVars
<1>3. CASE \/ ReadEvent \/ Snapshot \/ NextReport \/ SeeClose
           \/ \E l \in Listeners :
                 Call(l) \/ AddListener(l) \/ RemoveListener(l)
    BY <1>3 DEF ReadEvent, Snapshot, NextReport, SeeClose, Call, AddListener,
                RemoveListener, wireVars
<1>4. CASE DropChannel \/ Dropping \/ UNCHANGED vars
    BY <1>4 DEF DropChannel, Dropping, JoinReader, CloseRaw, FreeLease, vars,
                wireVars
<1> QED
    BY <1>1, <1>2, <1>3, <1>4 DEF Next, Reading

\* The answer to an unexposed waiting call is taken by that call.
LEMMA UnexposedTakesItsAnswer ==
    ASSUME IInv, [Next]_vars, NEW q \in pending \ exposed,
           q \in device \ device'
    PROVE  slot'[q] = q
<1>1. q \in Requests /\ slot \in [Requests -> Requests \cup {None}]
    BY DEF IInv, TypeOK, CallTypes
<1>2. ReadAnswer(q)
    BY <1>1, OnlyAnswersLeave
<1>3. Matching(HeaderOf[q]) = {q}
    <2>1. ASSUME NEW r \in pending, HeaderOf[r] = HeaderOf[q], r # q
          PROVE  FALSE
        <3>1. r \in Rivals(q)
            BY <2>1 DEF Rivals, SameHeader, IInv, TypeOK, CallTypes
        <3> QED
            BY <3>1 DEF IInv, HeaderExclusive
    <2> QED
        BY <2>1 DEF Matching
<1>4. FirstMatching(HeaderOf[q]) = {q}
    BY <1>1, <1>3 DEF FirstMatching, IInv, QueueOrder
<1>5. slot' = [slot EXCEPT ![q] = q]
    BY <1>2, <1>4 DEF ReadAnswer
<1> QED
    BY <1>1, <1>5

\* Correlation by header is complete as well as sound for a call that has
\* its header to itself.
THEOREM CorrelationComplete == Spec => AnswerReachesItsCall
<1>1. IInv /\ [Next]_vars
      => [\A q \in pending \ exposed :
             q \in device \ device' => slot'[q] = q]_vars
    BY UnexposedTakesItsAnswer
<1> QED
    BY <1>1, ChannelInvariant, PTL DEF Spec, AnswerReachesItsCall
-----------------------------------------------------------------------------
(***************************************************************************)
(* The channel implements RequestReply: initial states map to initial      *)
(* states, and every step maps to a step or a stutter.                     *)
(***************************************************************************)
LEMMA InitRefines == Init => Promise!Init
BY DEF Init, Promise!Init, StatusOf, Replied, InFlight

\* The mapped status of each kind of state.
LEMMA StatusFacts ==
    ASSUME TypeOK, NEW r \in Requests
    PROVE  /\ pc[r] = "idle" => StatusOf[r] = "new"
           /\ pc[r] \in InFlight => StatusOf[r] = "open"
           /\ pc[r] \in {"answered", "sent", "refused"} => StatusOf[r] = pc[r]
           /\ pc[r] \in {"timedOut", "abandoned"} => StatusOf[r] = "unanswered"
BY DEF StatusOf, TypeOK, CallTypes, InFlight, Ended

\* A step that changes no call's place maps to the same status.
LEMMA StatusFrame == ASSUME pc' = pc PROVE StatusOf' = StatusOf
BY DEF StatusOf

\* A step that moves one call changes that call's status alone.
LEMMA StatusMove ==
    ASSUME TypeOK, NEW r \in Requests, NEW p,
           pc' = [pc EXCEPT ![r] = p], NEW s, StatusOf'[r] = s
    PROVE  StatusOf' = [StatusOf EXCEPT ![r] = s]
<1>1. \A q \in Requests \ {r} : pc'[q] = pc[q]
    BY DEF TypeOK, CallTypes
<1>2. \A q \in Requests \ {r} : StatusOf'[q] = StatusOf[q]
    BY <1>1 DEF StatusOf
<1>3. /\ DOMAIN StatusOf = Requests /\ DOMAIN StatusOf' = Requests
      /\ StatusOf' = [q \in Requests |-> StatusOf'[q]]
    BY DEF StatusOf
<1>4. [StatusOf EXCEPT ![r] = s]
        = [q \in Requests |-> IF q = r THEN s ELSE StatusOf[q]]
    BY <1>3
<1> QED
    BY <1>2, <1>3, <1>4

LEMMA RefuseRefines ==
    ASSUME IInv, NEW r \in Requests, Refuse(r)
    PROVE  Promise!Refuse(r)
<1> USE DEF IInv
<1>1. pc[r] = "idle" /\ pc' = [pc EXCEPT ![r] = "refused"]
    BY DEF Refuse
<1>2. pc'[r] = "refused" /\ \A q \in Requests \ {r} : pc'[q] = pc[q]
    BY <1>1 DEF TypeOK, CallTypes
<1>3. StatusOf[r] = "new"
    BY <1>1, StatusFacts
<1>4. StatusOf'[r] = "refused"
    BY <1>2 DEF StatusOf, InFlight
<1>5. StatusOf' = [StatusOf EXCEPT ![r] = "refused"]
    BY <1>1, <1>4, StatusMove
<1>6. Replied' = Replied
    BY <1>1, <1>2 DEF Refuse, Replied, wireVars
<1>7. slot' = slot
    BY DEF Refuse
<1> QED
    BY <1>3, <1>5, <1>6, <1>7 DEF Promise!Refuse

LEMMA RegisterRefines ==
    ASSUME IInv, NEW r \in Requests, Register(r)
    PROVE  Promise!Ask(r)
<1> USE DEF IInv
<1>1. /\ pc[r] = "idle" /\ pc' = [pc EXCEPT ![r] = "write"]
      /\ writing' = writing \cup {r} /\ device' = device /\ slot' = slot
    BY DEF Register
<1>2. pc'[r] = "write" /\ \A q \in Requests \ {r} : pc'[q] = pc[q]
    BY <1>1 DEF TypeOK, CallTypes
<1>3. StatusOf[r] = "new"
    BY <1>1, StatusFacts
<1>4. StatusOf'[r] = "open"
    BY <1>2 DEF StatusOf, InFlight
<1>5. StatusOf' = [StatusOf EXCEPT ![r] = "open"]
    BY <1>1, <1>4, StatusMove
<1>6. Replied' = Replied
    BY <1>1, <1>2 DEF Replied
<1> QED
    BY <1>1, <1>3, <1>5, <1>6 DEF Promise!Ask

LEMMA WriteReturnsRefines ==
    ASSUME IInv, NEW r \in Requests, WriteReturns(r)
    PROVE  Promise!ReturnSent(r)
           \/ UNCHANGED <<StatusOf, slot, Replied>>
<1> USE DEF IInv
<1>1. pc[r] = "write" /\ slot' = slot /\ writing' = writing /\ device' = device
    BY DEF WriteReturns, wireVars
<1>2. StatusOf[r] = "open"
    BY <1>1, StatusFacts DEF InFlight
<1>3. Replied' = Replied
    BY <1>1 DEF WriteReturns, Replied, TypeOK, CallTypes
<1>4. CASE r \in Silent
    <2>1. pc' = [pc EXCEPT ![r] = "sent"]
        BY <1>4 DEF WriteReturns
    <2>2. StatusOf'[r] = "sent"
        BY <2>1 DEF StatusOf, InFlight, TypeOK, CallTypes
    <2>3. StatusOf' = [StatusOf EXCEPT ![r] = "sent"]
        BY <2>1, <2>2, StatusMove
    <2>4. slot[r] = None
        BY <1>4 DEF AnswersFresh, TypeOK, CallTypes
    <2> QED
        BY <1>1, <1>2, <1>3, <2>3, <2>4 DEF Promise!ReturnSent
<1>5. CASE r \notin Silent
    <2>1. pc' = [pc EXCEPT ![r] = "wait"]
        BY <1>5 DEF WriteReturns
    <2>2. \A q \in Requests : StatusOf'[q] = StatusOf[q]
        BY <1>1, <2>1 DEF StatusOf, InFlight, TypeOK, CallTypes
    <2>3. StatusOf' = StatusOf
        BY <2>2 DEF StatusOf
    <2> QED
        BY <1>1, <1>3, <2>3
<1> QED
    BY <1>4, <1>5

LEMMA LeaveRefines ==
    ASSUME IInv, NEW r \in Requests,
           WriteFails(r) \/ Receive(r) \/ TimeOut(r) \/ Cancel(r)
    PROVE  Promise!Return(r) \/ Promise!GiveUp(r)
<1> USE DEF IInv
<1>1. pc[r] \in InFlight
    BY DEF WriteFails, Receive, TimeOut, Cancel, InFlight
<1>2. PICK outcome \in {"answered", "timedOut", "abandoned"} :
          Leave(r, outcome) /\ (outcome = "answered" => slot[r] # None)
    BY DEF WriteFails, Receive, TimeOut, Cancel
<1>3. /\ pc' = [pc EXCEPT ![r] = outcome] /\ slot' = slot
      /\ writing' = writing /\ device' = device
    BY <1>2 DEF Leave, wireVars
<1>4. pc'[r] = outcome /\ \A q \in Requests \ {r} : pc'[q] = pc[q]
    BY <1>3 DEF TypeOK, CallTypes
<1>5. StatusOf[r] = "open"
    BY <1>1, StatusFacts
<1>6. Replied' = Replied
    BY <1>1, <1>3, <1>4 DEF Replied, InFlight
<1>7. CASE outcome = "answered"
    <2>1. StatusOf'[r] = "answered"
        BY <1>4, <1>7 DEF StatusOf, InFlight
    <2>2. StatusOf' = [StatusOf EXCEPT ![r] = "answered"]
        BY <1>3, <2>1, StatusMove
    <2> QED
        BY <1>2, <1>3, <1>5, <1>6, <1>7, <2>2 DEF Promise!Return
<1>8. CASE outcome \in {"timedOut", "abandoned"}
    <2>1. StatusOf'[r] = "unanswered"
        BY <1>4, <1>8 DEF StatusOf, InFlight
    <2>2. StatusOf' = [StatusOf EXCEPT ![r] = "unanswered"]
        BY <1>3, <2>1, StatusMove
    <2> QED
        BY <1>3, <1>5, <1>6, <2>2 DEF Promise!GiveUp
<1> QED
    BY <1>7, <1>8

LEMMA ReadAnswerRefines ==
    ASSUME IInv, NEW q \in Requests, ReadAnswer(q)
    PROVE  Promise!PassBy(q) \/ \E r \in Requests : Promise!HandOver(q, r)
<1> USE DEF IInv
<1>1. /\ q \in device /\ pc' = pc
      /\ device' = device \ {q} /\ writing' = writing
    BY DEF ReadAnswer
<1>2. pc[q] \notin {"idle", "refused"} /\ q \notin writing
    BY <1>1 DEF AnswersFresh
<1>3. StatusOf' = StatusOf
    BY <1>1, StatusFrame
<1>4. Replied' = Replied \cup {q} /\ q \notin Replied
    BY <1>1, <1>2 DEF Replied
<1>5. q \in Promise!Asked
    <2>1. StatusOf[q] \notin {"new", "refused"}
        BY <1>2, StatusFacts DEF TypeOK, CallTypes, InFlight, Ended
    <2> QED
        BY <2>1 DEF Promise!Asked
<1>6. CASE slot' = slot
    BY <1>3, <1>4, <1>5, <1>6 DEF Promise!PassBy
<1>7. ASSUME NEW r \in FirstMatching(HeaderOf[q]),
             slot' = [slot EXCEPT ![r] = q]
      PROVE  \E s \in Requests : Promise!HandOver(q, s)
    <2>1. r \in pending /\ r \in Requests /\ HeaderOf[q] = HeaderOf[r]
        BY FirstMatchingFacts DEF TypeOK, CallTypes
    <2>2. StatusOf[r] = "open" /\ slot[r] = None
        BY <2>1, StatusFacts DEF PendingExact
    <2>3. Promise!HandOver(q, r)
        BY <1>3, <1>4, <1>5, <1>7, <2>1, <2>2 DEF Promise!HandOver
    <2> QED
        BY <2>1, <2>3
<1> QED
    BY <1>6, <1>7 DEF ReadAnswer

\* Every other step of the channel is invisible to the promise.
LEMMA OtherStepsStutter ==
    ASSUME IInv,
           \/ \E r \in Requests : Deliver(r)
           \/ ReadEvent \/ Snapshot \/ NextReport \/ SeeClose
           \/ \E l \in Listeners :
                 Call(l) \/ AddListener(l) \/ RemoveListener(l)
           \/ DropChannel \/ Dropping \/ UNCHANGED vars
    PROVE  UNCHANGED <<StatusOf, slot, Replied>>
<1>1. /\ pc' = pc /\ slot' = slot
      /\ writing' \cup device' = writing \cup device
    <2>1. ASSUME NEW r \in Requests, Deliver(r)
          PROVE  /\ pc' = pc /\ slot' = slot
                 /\ writing' \cup device' = writing \cup device
        BY <2>1 DEF Deliver, callVars
    <2>2. CASE \/ ReadEvent \/ Snapshot \/ NextReport \/ SeeClose
               \/ \E l \in Listeners :
                     Call(l) \/ AddListener(l) \/ RemoveListener(l)
        BY <2>2 DEF ReadEvent, Snapshot, NextReport, SeeClose, Call,
                    AddListener, RemoveListener, callVars, wireVars
    <2>3. CASE DropChannel \/ Dropping \/ UNCHANGED vars
        BY <2>3 DEF DropChannel, Dropping, JoinReader, CloseRaw, FreeLease,
                    vars, callVars, wireVars
    <2> QED
        BY <2>1, <2>2, <2>3
<1> QED
    BY <1>1, StatusFrame DEF Replied

LEMMA NextRefines ==
    ASSUME IInv, [Next]_vars
    PROVE  [Promise!Next]_<<StatusOf, slot, Replied>>
<1>1. ASSUME NEW r \in Requests,
             \/ Refuse(r) \/ Register(r) \/ WriteReturns(r)
             \/ WriteFails(r) \/ Receive(r) \/ TimeOut(r) \/ Cancel(r)
             \/ ReadAnswer(r)
      PROVE  Promise!Next \/ UNCHANGED <<StatusOf, slot, Replied>>
    BY <1>1, RefuseRefines, RegisterRefines, WriteReturnsRefines,
       LeaveRefines, ReadAnswerRefines DEF Promise!Next
<1>2. CASE \/ \E r \in Requests : Deliver(r)
           \/ ReadEvent \/ Snapshot \/ NextReport \/ SeeClose
           \/ \E l \in Listeners :
                 Call(l) \/ AddListener(l) \/ RemoveListener(l)
           \/ DropChannel \/ Dropping \/ UNCHANGED vars
    BY <1>2, OtherStepsStutter
<1> QED
    BY <1>1, <1>2 DEF Next, Reading

\* The channel keeps the promise of RequestReply: calls end once, answers
\* match by header, and no answer is given out twice.
THEOREM ChannelImplementsPromise == Spec => ImplementsRequestReply
<1>1. Init => Promise!Init
    BY InitRefines
<1>2. IInv /\ [Next]_vars => [Promise!Next]_<<StatusOf, slot, Replied>>
    BY NextRefines
<1> QED
    BY <1>1, <1>2, ChannelInvariant, PTL
       DEF Spec, ImplementsRequestReply, Promise!Spec, Promise!vars
=============================================================================
