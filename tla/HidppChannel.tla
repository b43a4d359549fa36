---------------------------- MODULE HidppChannel ----------------------------
(***************************************************************************)
(* One open HID++ channel (crates/openlogi-hidpp/src/channel.rs): callers  *)
(* that send a request and wait for the answer under a deadline, the read  *)
(* thread that matches every incoming report against the pending requests  *)
(* and hands it to the listeners, and the shutdown that Drop runs.         *)
(*                                                                         *)
(* The device and the operating system are the environment: a report       *)
(* handed to the OS may reach the device late (even after the call that    *)
(* wrote it has given up) or never; the device answers a request at most   *)
(* once, at any time and in any order, or never.  An answer is identified  *)
(* by the request it answers, which the code cannot see: the code matches  *)
(* by header only.                                                         *)
(***************************************************************************)
EXTENDS Naturals

CONSTANTS Requests,       \* calls of send_with_timeout and send_and_forget
          Silent,         \* those of them made with send_and_forget
          HeaderOf,       \* header (device, feature, function, sw id) of each
          WidthOf,        \* report width of each, "short" or "long"
          SupportsShort, SupportsLong,
          Listeners,
          MaxEvents,      \* bound on unsolicited reports
          None

ASSUME ConstantsAssumption ==
    /\ Silent \subseteq Requests
    /\ WidthOf \in [Requests -> {"short", "long"}]
    /\ SupportsShort \in BOOLEAN /\ SupportsLong \in BOOLEAN
    /\ SupportsShort \/ SupportsLong
    /\ MaxEvents \in Nat

VARIABLES
    pc,         \* where each call is
    pending,    \* requests in the pending queue ...
    ahead,      \* ... and which of them were queued before each
    slot,       \* answer put into each call's oneshot, None before
    writing,    \* reports handed to the OS and not yet at the device
    device,     \* requests at the device, not yet answered
    reader,     \* where the read thread is
    report,     \* report the read thread is working on
    matched,    \* whether a pending request took it
    listeners,  \* registered listeners
    toCall,     \* listeners of the snapshot still to be called
    events,     \* unsolicited reports so far
    chan,       \* how far Drop is
    exposed,    \* ghost: calls whose header was not exclusively theirs
    owed        \* ghost: listeners the current report is owed to

callVars == <<pc, pending, ahead, slot, exposed>>
wireVars == <<writing, device, events>>
readVars == <<reader, report, matched, toCall, owed>>
vars == <<callVars, wireVars, readVars, listeners, chan>>

Ended == {"answered", "sent", "timedOut", "abandoned", "refused"}
InFlight == {"write", "wait"}

Answer(r) == [kind |-> "answer", of |-> r]
Event(n) == [kind |-> "event", of |-> n]
Reports == {Answer(r) : r \in Requests} \cup {Event(n) : n \in 1..MaxEvents}

ASSUME NoneAssumption == None \notin Requests \cup Reports

CallTypes ==
    /\ pc \in [Requests -> {"idle"} \cup InFlight \cup Ended]
    /\ pending \subseteq Requests
    /\ ahead \in [Requests -> SUBSET Requests]
    /\ slot \in [Requests -> Requests \cup {None}]
    /\ exposed \subseteq Requests

WireTypes ==
    /\ writing \subseteq Requests
    /\ device \subseteq Requests
    /\ events \in 0..MaxEvents
    /\ chan \in {"open", "closing", "joined", "rawClosed", "freed"}

ReadTypes ==
    /\ reader \in {"reading", "matched", "calling", "stopped"}
    /\ report \in Reports \cup {None}
    /\ matched \in BOOLEAN
    /\ listeners \subseteq Listeners
    /\ toCall \subseteq Listeners
    /\ owed \subseteq Listeners

TypeOK == CallTypes /\ WireTypes /\ ReadTypes

Init ==
    /\ pc = [r \in Requests |-> "idle"]
    /\ pending = {} /\ ahead = [r \in Requests |-> {}]
    /\ slot = [r \in Requests |-> None]
    /\ writing = {} /\ device = {} /\ events = 0
    /\ reader = "reading" /\ report = None /\ matched = FALSE
    /\ listeners = {} /\ toCall = {} /\ owed = {}
    /\ chan = "open"
    /\ exposed = {}
-----------------------------------------------------------------------------
(***************************************************************************)
(* Callers.                                                                *)
(***************************************************************************)
\* normalize_outgoing, then supports_msg: a short message is re-framed as
\* long on a long-only channel, so only a long message can be unsupported.
FrameOf(r) ==
    IF WidthOf[r] = "short" /\ ~SupportsShort /\ SupportsLong
    THEN "long" ELSE WidthOf[r]

Supported(r) == IF FrameOf(r) = "short" THEN SupportsShort ELSE SupportsLong

SameHeader(r) == {q \in Requests \ {r} : HeaderOf[q] = HeaderOf[r]}

\* Ghost: other calls with r's header that still wait, or whose answer may
\* still arrive.
Rivals(r) == SameHeader(r) \cap (pending \cup writing \cup device)

TakeOff(r) ==
    /\ pending' = pending \ {r}
    /\ ahead' = [q \in Requests |-> IF q = r THEN {} ELSE ahead[q] \ {r}]

Refuse(r) ==
    /\ chan = "open" /\ pc[r] = "idle"
    /\ ~Supported(r)
    /\ pc' = [pc EXCEPT ![r] = "refused"]
    /\ UNCHANGED <<pending, ahead, slot, exposed, wireVars, readVars,
                   listeners, chan>>

\* The request is queued before its report is written; send_and_forget
\* queues nothing.
Register(r) ==
    /\ chan = "open" /\ pc[r] = "idle"
    /\ Supported(r)
    /\ pc' = [pc EXCEPT ![r] = "write"]
    /\ IF r \in Silent
       THEN UNCHANGED <<pending, ahead>>
       ELSE /\ pending' = pending \cup {r}
            /\ ahead' = [ahead EXCEPT ![r] = pending]
    /\ writing' = writing \cup {r}
    /\ exposed' = IF Rivals(r) = {} THEN exposed
                  ELSE exposed \cup Rivals(r) \cup {r}
    /\ UNCHANGED <<slot, device, events, readVars, listeners, chan>>

WriteReturns(r) ==
    /\ pc[r] = "write"
    /\ pc' = [pc EXCEPT ![r] = IF r \in Silent THEN "sent" ELSE "wait"]
    /\ UNCHANGED <<pending, ahead, slot, exposed, wireVars, readVars,
                   listeners, chan>>

\* Mutant: a call that ends leaves its entry in the queue.
LeaveEntryBehind(r, outcome) ==
    /\ pc' = [pc EXCEPT ![r] = outcome]
    /\ UNCHANGED <<pending, ahead, slot, exposed, wireVars, readVars,
                   listeners, chan>>

\* Every way a call ends drops its PendingRequest, which takes the request
\* out of the queue if the read thread has not.
Leave(r, outcome) ==
    /\ pc' = [pc EXCEPT ![r] = outcome]
    /\ TakeOff(r)
    /\ UNCHANGED <<slot, exposed, wireVars, readVars, listeners, chan>>

WriteFails(r) == pc[r] = "write" /\ Leave(r, "abandoned")

Receive(r) == pc[r] = "wait" /\ slot[r] # None /\ Leave(r, "answered")

\* Mutant: the deadline starts when the write has returned.
TimeOutAfterWrite(r) ==
    pc[r] = "wait" /\ r \notin Silent /\ Leave(r, "timedOut")

\* The deadline covers the write; select! is unbiased, so it may also win
\* against an answer already in the oneshot.
TimeOut(r) == pc[r] \in InFlight /\ r \notin Silent /\ Leave(r, "timedOut")

\* The caller's own future is dropped.
Cancel(r) == pc[r] \in InFlight /\ Leave(r, "abandoned")
-----------------------------------------------------------------------------
(***************************************************************************)
(* The read thread.                                                        *)
(***************************************************************************)
\* A report handed to the OS reaches the device.
Deliver(r) ==
    /\ r \in writing
    /\ writing' = writing \ {r}
    /\ device' = device \cup {r}
    /\ UNCHANGED <<events, callVars, readVars, listeners, chan>>

\* Mutant: the oldest waiting request is taken for the answered one.
AnyWaiting(h) == pending

Matching(h) == {r \in pending : HeaderOf[r] = h}

\* The queue is searched from the front.
FirstMatching(h) == {r \in Matching(h) : ahead[r] \cap Matching(h) = {}}

\* The answer to q is read: the first pending request its header matches is
\* taken off the queue and handed the answer.
ReadAnswer(q) ==
    /\ reader = "reading" /\ q \in device
    /\ device' = device \ {q}
    /\ report' = Answer(q)
    /\ reader' = "matched"
    /\ owed' = listeners
    /\ \/ /\ FirstMatching(HeaderOf[q]) = {}
          /\ matched' = FALSE
          /\ UNCHANGED <<pending, ahead, slot>>
       \/ \E r \in FirstMatching(HeaderOf[q]) :
             /\ matched' = TRUE
             /\ TakeOff(r)
             /\ slot' = [slot EXCEPT ![r] = q]
    /\ UNCHANGED <<pc, exposed, writing, events, toCall, listeners,
                   chan>>

\* An event carries software id 0, which no request carries.
ReadEvent ==
    /\ reader = "reading" /\ events < MaxEvents
    /\ events' = events + 1
    /\ report' = Event(events + 1)
    /\ matched' = FALSE
    /\ reader' = "matched"
    /\ owed' = listeners
    /\ UNCHANGED <<callVars, writing, device, toCall, listeners, chan>>

\* Mutant: the match is looked up again after the queue was unlocked.
SnapshotRechecks ==
    /\ reader = "matched"
    /\ toCall' = listeners
    /\ reader' = "calling"
    /\ matched' = (report.kind = "answer" /\ Matching(HeaderOf[report.of]) # {})
    /\ UNCHANGED <<report, owed, callVars, wireVars, listeners, chan>>

\* Mutant: a matched report is not handed to the listeners.
SnapshotUnmatchedOnly ==
    /\ reader = "matched"
    /\ toCall' = IF matched THEN {} ELSE listeners
    /\ reader' = "calling"
    /\ UNCHANGED <<report, matched, owed, callVars, wireVars, listeners, chan>>

\* The listeners are copied under their own lock, after the match.
Snapshot ==
    /\ reader = "matched"
    /\ toCall' = listeners
    /\ reader' = "calling"
    /\ UNCHANGED <<report, matched, owed, callVars, wireVars, listeners, chan>>

Call(l) ==
    /\ reader = "calling" /\ l \in toCall
    /\ toCall' = toCall \ {l}
    /\ owed' = owed \ {l}
    /\ UNCHANGED <<reader, report, matched, callVars, wireVars, listeners,
                   chan>>

NextReport ==
    /\ reader = "calling" /\ toCall = {}
    /\ reader' = "reading"
    /\ report' = None /\ matched' = FALSE
    /\ UNCHANGED <<toCall, owed, callVars, wireVars, listeners, chan>>

\* Mutant: close is only looked at after a report, so a parked read never
\* sees it.
SeeCloseAfterReport ==
    /\ reader = "calling" /\ toCall = {} /\ chan = "closing"
    /\ reader' = "stopped"
    /\ report' = None /\ matched' = FALSE
    /\ UNCHANGED <<toCall, owed, callVars, wireVars, listeners, chan>>

\* read_report is raced against the close signal, so a parked read stops too.
SeeClose ==
    /\ reader = "reading" /\ chan = "closing"
    /\ reader' = "stopped"
    /\ UNCHANGED <<report, matched, toCall, owed, callVars, wireVars,
                   listeners, chan>>
-----------------------------------------------------------------------------
(***************************************************************************)
(* Listeners and shutdown.                                                 *)
(***************************************************************************)
AddListener(l) ==
    /\ chan = "open" /\ l \notin listeners
    /\ listeners' = listeners \cup {l}
    /\ UNCHANGED <<callVars, wireVars, readVars, chan>>

\* The guard holds a weak reference, so it may outlive the channel.
RemoveListener(l) ==
    /\ l \in listeners
    /\ listeners' = listeners \ {l}
    /\ owed' = owed \ {l}
    /\ UNCHANGED <<callVars, wireVars, reader, report, matched, toCall, chan>>

\* Drop needs the channel exclusively: no call is in flight.
DropChannel ==
    /\ chan = "open"
    /\ \A r \in Requests : pc[r] \notin InFlight
    /\ chan' = "closing"
    /\ UNCHANGED <<callVars, wireVars, readVars, listeners>>

JoinReader ==
    /\ chan = "closing" /\ reader = "stopped"
    /\ chan' = "joined"
    /\ UNCHANGED <<callVars, wireVars, readVars, listeners>>

CloseRaw ==
    /\ chan = "joined"
    /\ chan' = "rawClosed"
    /\ UNCHANGED <<callVars, wireVars, readVars, listeners>>

\* sw_id_policy is declared after raw_channel, so it is dropped after it.
FreeLease ==
    /\ chan = "rawClosed"
    /\ chan' = "freed"
    /\ UNCHANGED <<callVars, wireVars, readVars, listeners>>
-----------------------------------------------------------------------------
Reading ==
    \/ ReadEvent \/ Snapshot \/ NextReport
    \/ \E q \in Requests : ReadAnswer(q)
    \/ \E l \in Listeners : Call(l)

Dropping == JoinReader \/ CloseRaw \/ FreeLease

Next ==
    \/ \E r \in Requests :
          \/ Refuse(r) \/ Register(r) \/ WriteReturns(r) \/ WriteFails(r)
          \/ Receive(r) \/ TimeOut(r) \/ Cancel(r) \/ Deliver(r)
    \/ Reading \/ SeeClose
    \/ \E l \in Listeners : AddListener(l) \/ RemoveListener(l)
    \/ DropChannel \/ Dropping

Spec == Init /\ [][Next]_vars

(***************************************************************************)
(* A call's timer fires; the read thread is scheduled and never blocks in  *)
(* a listener; select! picks among ready branches at random, so a close    *)
(* signal that stays ready is not passed over forever (strong fairness);   *)
(* Drop's steps run.  Nothing is assumed of the device, of the OS or of a  *)
(* write's end.                                                            *)
(***************************************************************************)
Fairness ==
    /\ \A r \in Requests : WF_vars(TimeOut(r))
    /\ WF_vars(Snapshot \/ NextReport \/ \E l \in Listeners : Call(l))
    /\ SF_vars(SeeClose)
    /\ WF_vars(Dropping)

FairSpec == Spec /\ Fairness
-----------------------------------------------------------------------------
(***************************************************************************)
(* Properties.                                                             *)
(***************************************************************************)
\* The queue holds exactly the calls that still wait for an answer: whatever
\* way a call ends, at whatever point of its write, its entry is gone
\* (PendingRequest::register and its Drop), and no waiting call is missing.
PendingExact ==
    pending = {r \in Requests \ Silent : pc[r] \in InFlight /\ slot[r] = None}

\* Correlation by header is sound for a call that has its header to itself:
\* no other call with that header waits, or can still be answered, during
\* it.  Such a call gets the answer to its own request or none.
OwnAnswerOnly ==
    \A r \in Requests \ exposed : slot[r] \in {None, r}

\* ... and it is complete: when the answer to such a call is read while the
\* call waits, that call gets it, whatever else is queued.
AnswerReachesItsCall ==
    [][\A q \in pending \ exposed :
          q \in device \ device' => slot'[q] = q]_vars

\* What listeners are told is true: a report is announced as matched exactly
\* when one call, and only one, was handed it.
MatchedMeansTaken ==
    \A q \in Requests :
        report = Answer(q) =>
            /\ matched <=> \E r \in Requests : slot[r] = q
            /\ \A r, s \in Requests : slot[r] = q /\ slot[s] = q => r = s

\* A listener registered when a report is read, and not removed since, has
\* been called with it before the next report is read, whether or not a
\* pending request took the report.
NoListenerSkipped == reader = "reading" => owed = {}

\* A call that waits for an answer ends: a device that never answers, a write
\* that never returns and a dead read all end in Timeout.
EveryCallReturns ==
    \A r \in Requests \ Silent : pc[r] \in InFlight ~> pc[r] \in Ended

\* Drop completes, so the lease comes back, even on a transport whose read
\* is parked forever.
DropCompletes == chan = "closing" ~> chan = "freed"

\* The channel implements the promise of RequestReply.
StatusOf ==
    [r \in Requests |->
        CASE pc[r] = "idle" -> "new"
          [] pc[r] \in InFlight -> "open"
          [] pc[r] \in {"answered", "sent", "refused"} -> pc[r]
          [] OTHER -> "unanswered"]

Replied ==
    {r \in Requests : pc[r] \notin {"idle", "refused"}} \ (writing \cup device)

Promise == INSTANCE RequestReply
               WITH status <- StatusOf, answer <- slot, spent <- Replied

ImplementsRequestReply == Promise!Spec

\* What the doc of send_with_timeout says of a late answer: it reaches the
\* listeners as an unmatched message.
LateAnswerUnmatched ==
    \A q \in Requests :
        report = Answer(q) /\ pc[q] \in {"timedOut"} /\ slot[q] # q => ~matched
-----------------------------------------------------------------------------
(***************************************************************************)
(* The inductive invariant the safety properties follow from.              *)
(***************************************************************************)
\* An unexposed waiting call has its header to itself.
HeaderExclusive == \A r \in pending \ exposed : Rivals(r) = {}

\* Nobody is queued before itself.
QueueOrder == \A r \in Requests : r \notin ahead[r]

\* A request on its way to an answer was asked, and its answer has not been
\* handed to anybody; an answer is handed to one call.
AnswersFresh ==
    /\ writing \cap device = {}
    /\ \A r \in Requests :
          pc[r] \in {"idle", "refused"} =>
              r \notin writing \cup device /\ slot[r] = None
    /\ \A r, q \in Requests :
          slot[r] = q => /\ q \notin writing \cup device
                         /\ pc[q] \notin {"idle", "refused"}
                         /\ r \notin Silent
    /\ \A r, s \in Requests : slot[r] = slot[s] /\ slot[r] # None => r = s

\* The read thread holds a report exactly while it works on it, and the
\* report has left the wire.
ReportHeld ==
    /\ reader \in {"reading", "stopped"} <=> report = None
    /\ \A q \in Requests :
          report = Answer(q) =>
              q \notin writing \cup device /\ pc[q] \notin {"idle", "refused"}

\* What a report is owed is still to come, and only while it is worked on.
OwedToCome ==
    /\ owed \subseteq listeners
    /\ reader = "calling" => owed \subseteq toCall
    /\ reader \in {"reading", "stopped"} => owed = {}

IInv ==
    /\ TypeOK /\ PendingExact /\ HeaderExclusive /\ QueueOrder /\ AnswersFresh
    /\ OwnAnswerOnly /\ ReportHeld /\ MatchedMeansTaken /\ OwedToCome
=============================================================================
