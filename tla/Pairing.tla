------------------------------ MODULE Pairing -------------------------------
(***************************************************************************)
(* A pairing session (crates/openlogi-device/src/pairing.rs) on the        *)
(* receiver of module Receiver: it switches the notifications on, opens    *)
(* discovery (Bolt) or the pairing lock (Unifying), reacts to              *)
(* notifications, to the user's commands and to its deadline, in whatever  *)
(* order select! takes them, cancels by phase when it fails, and clears    *)
(* the notification flags.                                                 *)
(*                                                                         *)
(* A register write is answered, takes effect without its answer arriving, *)
(* or is refused.  The user's commands are taken as they come: a command   *)
(* that waits in its queue is one given later.                             *)
(***************************************************************************)
EXTENDS Receiver

VARIABLES
    pc,         \* what the session is doing
    phase,      \* PairingPhase
    picked,     \* the device whose authentication is pairing_auth
    partial,    \* PartialDevice of each discovery counter
    emitted,    \* counters whose device was shown
    shown,      \* DeviceFound events, as <<address frame, name frame>>
    result,     \* how the flow went
    reported,   \* slot of the Paired event
    refused,    \* ghost: closing writes the receiver did not take
    news, told  \* ghost: slots filled while the session listened, and those
                \* the receiver announced

sessionVars == <<pc, phase, picked, partial, emitted, shown, result,
                 reported, refused>>
pairingVars == <<sessionVars, news, told>>

\* The receiver numbers the devices it discovers; a counter stands for one.
Counters == Devices
NoFrames == [info |-> None, name |-> None]
Failures == {"hid", "notfound", "register", "timeout", "device", "cancelled",
             "unsupported", "malformed"}

PairingTypes ==
    /\ pc \in {"idle", "flags", "open", "loop", "pair", "cancel", "clear", "done"}
    /\ phase \in {"discovery", "pairing", "lock"}
    /\ picked \in Devices \cup {None}
    /\ partial \in [Counters -> [info : Devices \cup {None},
                                 name : Devices \cup {None}]]
    /\ emitted \subseteq Counters
    /\ shown \subseteq Devices \X Devices
    /\ result \in {"none", "paired"} \cup Failures
    /\ reported \in Slots \cup {None}
    /\ refused \subseteq {"pair", "cancel"}
    /\ told \subseteq news /\ news \subseteq Slots

PairingInit ==
    /\ pc = "idle" /\ phase = "discovery" /\ picked = None
    /\ partial = [c \in Counters |-> NoFrames]
    /\ emitted = {} /\ shown = {}
    /\ result = "none" /\ reported = None
    /\ refused = {} /\ news = {} /\ told = {}

Refuse(what, outcome) ==
    refused' = IF Applied(outcome) THEN refused ELSE refused \cup {what}

\* PairingPhase::from
FirstPhase == IF family = "bolt" THEN "discovery" ELSE "lock"
-----------------------------------------------------------------------------
(***************************************************************************)
(* Starting.                                                               *)
(***************************************************************************)
\* open_receiver goes through the nodes; the first that fails to open ends
\* the search, and so does a list without the receiver asked for.
NoReceiver ==
    /\ pc = "idle"
    /\ result' \in {"hid", "notfound"}
    /\ pc' = "done"
    /\ UNCHANGED <<receiverVars, phase, picked, partial, emitted, shown,
                   reported, refused, news, told>>

\* open_receiver, subscribe, PairingPhase::from
Begin ==
    /\ pc = "idle"
    /\ pc' = "flags"
    /\ phase' = FirstPhase
    /\ subscribed' = TRUE
    /\ UNCHANGED <<family, flags, window, occupant, online, inbound, wire,
                   picked, partial, emitted, shown, result, reported, refused,
                   news, told>>

Fail(why) == pc' = "cancel" /\ result' = why

\* The session's first two writes, which run_session answers with a cancel
\* when they fail.
WriteFlags(outcome) ==
    /\ pc = "flags"
    /\ flags' = IF Applied(outcome) THEN {"wireless", "software"} ELSE flags
    /\ IF outcome = "answered" THEN pc' = "open" /\ UNCHANGED result
                               ELSE Fail("register")
    /\ UNCHANGED <<family, window, occupant, online, subscribed, inbound, wire,
                   phase, picked, partial, emitted, shown, reported, refused,
                   news, told>>

OpenWindow(outcome) ==
    /\ pc = "open"
    /\ window' = IF Applied(outcome) THEN FirstPhase ELSE window
    /\ IF outcome = "answered" THEN pc' = "loop" /\ UNCHANGED result
                               ELSE Fail("register")
    /\ UNCHANGED <<family, flags, occupant, online, subscribed, inbound, wire,
                   phase, picked, partial, emitted, shown, reported, refused,
                   news, told>>
-----------------------------------------------------------------------------
(***************************************************************************)
(* The loop's three branches.                                              *)
(***************************************************************************)
Deadline ==
    /\ pc = "loop"
    /\ Fail("timeout")
    /\ UNCHANGED <<receiverVars, phase, picked, partial, emitted, shown,
                   reported, refused, news, told>>

\* Cancel, and a caller who dropped the command sender.
UserCancels ==
    /\ pc = "loop"
    /\ Fail("cancelled")
    /\ UNCHANGED <<receiverVars, phase, picked, partial, emitted, shown,
                   reported, refused, news, told>>

\* Mutant: the phase stays at discovery when a device is picked.
PickKeepingPhase(d) ==
    /\ pc = "loop"
    /\ \E e \in shown : e[1] = d
    /\ picked' = d /\ pc' = "pair"
    /\ UNCHANGED <<receiverVars, phase, partial, emitted, shown, result,
                   reported, refused, news, told>>

\* Pair(device): the phase moves before the write.
Pick(d) ==
    /\ pc = "loop"
    /\ IF family = "bolt"
       THEN /\ \E e \in shown : e[1] = d
            /\ picked' = d
            /\ phase' = "pairing"
            /\ pc' = "pair" /\ UNCHANGED result
       ELSE /\ Fail("unsupported")
            /\ UNCHANGED <<picked, phase>>
    /\ UNCHANGED <<receiverVars, partial, emitted, shown, reported, refused,
                   news, told>>

\* pair_bolt_device; a receiver that pairs already is busy.
WritePair(outcome) ==
    /\ pc = "pair"
    /\ Applied(outcome) => window \notin Devices /\ picked \notin Paired
    /\ window' = IF Applied(outcome) THEN picked ELSE window
    /\ IF outcome = "answered" THEN pc' = "loop" /\ UNCHANGED result
                               ELSE Fail("register")
    /\ Refuse("pair", outcome)
    /\ UNCHANGED <<family, flags, occupant, online, subscribed, inbound, wire,
                   phase, picked, partial, emitted, shown, reported, news, told>>

\* Mutant: frames of all devices are collected in one place.
OneCounter(n) == CHOOSE c \in Counters : TRUE

CounterOf(n) == n.dev

\* DiscoveryInfo and DiscoveryName; a device is shown once both have come.
TakeFrame(n) ==
    LET c == CounterOf(n)
        entry == [partial[c] EXCEPT ![n.kind] = n.dev]
        whole == None \notin {entry.info, entry.name}
    IN  /\ partial' = [partial EXCEPT ![c] = entry]
        /\ IF whole /\ c \notin emitted
           THEN /\ shown' = shown \cup {<<entry.info, entry.name>>}
                /\ emitted' = emitted \cup {c}
           ELSE UNCHANGED <<shown, emitted>>
        /\ UNCHANGED <<pc, result, reported>>

EndWith(s) == pc' = "clear" /\ result' = "paired" /\ reported' = s

\* Connected{established} is news on Unifying only, where the lock is all the
\* session has.
CountsAsPaired(n) == family = "unifying" /\ n.ok

\* The rest of the notifications; those the session passes over leave it in
\* the loop.
TakeNote(n) ==
    /\ CASE n.kind = "paired" -> EndWith(n.slot)
         [] n.kind = "connected" /\ CountsAsPaired(n) -> EndWith(n.slot)
         [] n.kind = "malformed" -> Fail("malformed") /\ UNCHANGED reported
         [] n.kind = "error" -> Fail("device") /\ UNCHANGED reported
         [] n.kind = "lock" -> Fail("timeout") /\ UNCHANGED reported
         [] OTHER -> UNCHANGED <<pc, result, reported>>
    /\ UNCHANGED <<partial, emitted, shown>>

ReadNote ==
    /\ pc = "loop" /\ inbound # <<>>
    /\ inbound' = Tail(inbound)
    /\ IF Head(inbound).kind \in {"info", "name"} THEN TakeFrame(Head(inbound))
                                                 ELSE TakeNote(Head(inbound))
    /\ UNCHANGED <<family, flags, window, occupant, online, subscribed, wire,
                   phase, picked, refused, news, told>>
-----------------------------------------------------------------------------
(***************************************************************************)
(* Ending.                                                                 *)
(***************************************************************************)
\* What a cancel in this phase closes.
Closes(p) == CASE p = "discovery" -> {"discovery"}
               [] p = "pairing" -> Devices
               [] p = "lock" -> {"lock"}

\* cancel, best effort
WriteCancel(outcome) ==
    /\ pc = "cancel"
    /\ window' = IF Applied(outcome) /\ window \in Closes(phase)
                 THEN "closed" ELSE window
    /\ pc' = "clear"
    /\ Refuse("cancel", outcome)
    /\ UNCHANGED <<family, flags, occupant, online, subscribed, inbound, wire,
                   phase, picked, partial, emitted, shown, result, reported,
                   news, told>>

\* drop(listener), the flags cleared, best effort, and the Failed event
WriteClear(outcome) ==
    /\ pc = "clear"
    /\ subscribed' = FALSE
    /\ flags' = IF Applied(outcome) THEN {} ELSE flags
    /\ pc' = "done"
    /\ UNCHANGED <<family, window, occupant, online, inbound, wire, phase,
                   picked, partial, emitted, shown, result, reported, refused,
                   news, told>>

\* unpair, by a caller who may run beside the session.
Unpair(s) ==
    /\ occupant[s] # None
    /\ occupant' = [occupant EXCEPT ![s] = None]
    /\ online' = online \ {s}
    /\ UNCHANGED <<family, flags, window, subscribed, inbound, wire,
                   pairingVars>>

SessionSteps ==
    \/ NoReceiver \/ Begin
    \/ \E o \in Outcomes : WriteFlags(o) \/ OpenWindow(o) \/ WritePair(o)
    \/ ReadNote
    \/ \E o \in Outcomes : WriteCancel(o) \/ WriteClear(o)

UserActs == UserCancels \/ \E d \in Devices : Pick(d)

\* The receiver's own steps, and which slots they fill.
ReceiverBeside ==
    /\ ReceiverActs
    /\ LET new == {s \in Slots : subscribed /\ occupant[s] # occupant'[s]}
       IN  /\ news' = news \cup new
           /\ told' = IF PairingStreams THEN told \cup new ELSE told
    /\ UNCHANGED sessionVars
-----------------------------------------------------------------------------
Ended(r) == pc = "done" /\ result \in r

\* When a session has failed and the receiver took its writes, the receiver
\* is left neither discovering nor pairing nor with its lock open
\* (run_session: cancellation on every unsuccessful exit, by phase).
CancelClosesWindow ==
    Ended(Failures \ {"hid", "notfound"}) /\ refused \cap {"pair", "cancel"} = {}
        => window = "closed"

\* A device that is shown is one device, though the frames of several come
\* in any order (PartialDevice, keyed by discovery counter).
FoundIsWhole == \A e \in shown : e[1] = e[2]

\* The event that ends a session is true: on a Bolt receiver the slot
\* reported as paired got its device in this session, and on either a pairing
\* the receiver announced is reported as a failure only if the announcement
\* had not been read when the session gave up.
ResultIsTrue ==
    /\ reported # None /\ family = "bolt" => reported \in news
    /\ \A s \in told :
           Ended(Failures) => \E i \in 1..Len(inbound) : inbound[i].slot = s /\ inbound[i].ok

\* What a session tells its user is so (run_pairing's events).
SessionTellsTheTruth == FoundIsWhole /\ ResultIsTrue
-----------------------------------------------------------------------------
(***************************************************************************)
(* The inductive invariant the proofs use (TLC checks it too).             *)
(***************************************************************************)
\* How far the session is, and what is decided by then.
SessionShape ==
    /\ pc \in {"idle", "flags", "open", "loop", "pair"} => result = "none"
    /\ pc \in {"cancel", "clear", "done"} => result # "none"
    /\ pc = "cancel" => result \in Failures \ {"hid", "notfound"}
    /\ pc = "clear" => result \notin {"hid", "notfound"}
    /\ pc \in {"flags", "open"} => phase = FirstPhase
    /\ pc \in {"idle", "flags", "open"} => refused = {}
    /\ pc = "pair" => picked \in Devices /\ phase = "pairing"
    /\ pc = "idle" <=> ~subscribed /\ pc # "done"

\* What is open is what a cancel in this phase closes, unless the write that
\* was to open it was not taken, and until the session picks another device.
WindowIsOurs ==
    /\ pc \in {"idle", "flags", "open"} => window = "closed"
    /\ pc \in {"loop", "cancel"} /\ "pair" \notin refused => window \in Closes(phase) \cup {"closed"}
    /\ pc \in {"clear", "done"} /\ result \in Failures \ {"hid", "notfound"} /\ refused = {} =>
           window = "closed"

\* Frames are kept with the device they came from.
FramesAreOwn ==
    \A c \in Counters : partial[c].info \in {None, c} /\ partial[c].name \in {None, c}

\* What is unread is of a device, or of a slot that was filled.
NotesAreTrue ==
    \A i \in 1..Len(inbound) :
        /\ inbound[i].kind \in {"info", "name"} => inbound[i].dev \in Devices
        /\ inbound[i].kind = "paired" => inbound[i].slot \in news

\* What ends a session well, read or still to be read.
EndsWell(n) == n.kind = (IF family = "bolt" THEN "paired" ELSE "connected") /\ n.ok
NewsArrive ==
    result # "paired" =>
        \A s \in told : \E i \in 1..Len(inbound) : inbound[i].slot = s /\ EndsWell(inbound[i])

SessionInv ==
    /\ ReceiverTypes /\ PairingTypes /\ SessionShape /\ WindowIsOurs /\ FramesAreOwn
    /\ NotesAreTrue /\ NewsArrive
    /\ FoundIsWhole /\ (reported # None /\ family = "bolt" => reported \in news)
=============================================================================
