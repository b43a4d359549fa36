------------------------------ MODULE Receiver ------------------------------
(***************************************************************************)
(* A Bolt or Unifying receiver as two users of it see it at the same time: *)
(* a pairing session (Pairing) and inventory's snapshot of its slots       *)
(* (ReceiverSnapshot).  Each has a channel of its own and hears every      *)
(* notification; both write the one register that says which notifications *)
(* the receiver sends at all.                                              *)
(*                                                                         *)
(* The receiver's own behaviour is external to the code.  What the code    *)
(* relies on: it streams pairing notifications while both flags are set    *)
(* and connection reports while "wireless" is, it closes its windows by    *)
(* itself after a while, and starting to pair ends discovery.              *)
(***************************************************************************)
EXTENDS Naturals, Sequences, FiniteSets

CONSTANTS Slots, Devices,
          MaxInbox,     \* bound: with so many notifications unread, no more come
          MaxWire,      \* bound: with so many reports on their way, no more come
          None

ASSUME SlotsAreFinite == IsFiniteSet(Slots)
ASSUME NoneIsNothing == None \notin Nat \cup Slots \cup Devices

VARIABLES
    family,     \* "bolt" or "unifying"
    flags,      \* notification register 0x00
    window,     \* "closed", "discovery", "lock", or the device being paired
    occupant,   \* device paired to each slot
    online,     \* slots whose device has a link
    subscribed, \* a pairing session listens ...
    inbound,      \* ... and has not read these notifications
    wire        \* connection reports for inventory's listeners

receiverVars == <<family, flags, window, occupant, online, subscribed, inbound,
                  wire>>

Outcomes == {"answered", "unheard", "refused"}
Applied(outcome) == outcome # "refused"

Note(kind, d) == [kind |-> kind, dev |-> d, slot |-> None, ok |-> TRUE]
SlotNote(kind, s, ok) == [kind |-> kind, dev |-> None, slot |-> s, ok |-> ok]
Report(s, up, cause) == [slot |-> s, up |-> up, cause |-> cause]

Notes == [kind : {"info", "name", "passkey", "malformed", "paired", "error",
                  "connected", "lock"},
          dev : Devices \cup {None}, slot : Slots \cup {None}, ok : BOOLEAN]
Reports == [slot : Slots, up : BOOLEAN, cause : {"change", "echo", "stray"}]

ReceiverTypes ==
    /\ family \in {"bolt", "unifying"}
    /\ flags \subseteq {"wireless", "software"}
    /\ window \in {"closed", "discovery", "lock"} \cup Devices
    /\ occupant \in [Slots -> Devices \cup {None}]
    /\ online \subseteq Slots
    /\ subscribed \in BOOLEAN
    /\ inbound \in Seq(Notes)
    /\ wire \in Seq(Reports)

Paired == {occupant[s] : s \in Slots} \ {None}

ReceiverInit ==
    /\ family \in {"bolt", "unifying"}
    /\ flags \in {{}, {"wireless"}}
    /\ window = "closed"
    /\ occupant \in [Slots -> Devices \cup {None}]
    /\ \A s, t \in Slots : s # t /\ occupant[s] # None => occupant[s] # occupant[t]
    /\ online \in SUBSET {s \in Slots : occupant[s] # None}
    /\ subscribed = FALSE /\ inbound = <<>> /\ wire = <<>>

\* What a session that listens receives, and what it does not.
Tell(notes) ==
    /\ subscribed /\ notes # <<>> => Len(inbound) < MaxInbox
    /\ inbound' = IF subscribed THEN inbound \o notes ELSE inbound

Announces(what) == what \subseteq flags
PairingStreams == Announces({"wireless", "software"})

\* A connection report goes to the session and to inventory.
TellConnection(s, up, after) ==
    IF Announces({"wireless"})
    THEN /\ Len(wire) < MaxWire
         /\ wire' = Append(wire, Report(s, up, "change"))
         /\ Tell(<<SlotNote("connected", s, up)>> \o after)
    ELSE /\ UNCHANGED wire
         /\ Tell(after)
-----------------------------------------------------------------------------
(***************************************************************************)
(* What the receiver and the devices do.                                   *)
(***************************************************************************)
\* A paired device gains or loses its link.
LinkChange(s) ==
    /\ occupant[s] # None
    /\ online' = IF s \in online THEN online \ {s} ELSE online \cup {s}
    /\ TellConnection(s, s \notin online, <<>>)
    /\ UNCHANGED <<family, flags, window, occupant, subscribed>>

\* One of the two frames that describe a device found nearby.
Discover(d, kind) ==
    /\ window = "discovery" /\ d \notin Paired /\ PairingStreams
    /\ kind \in {"info", "name"}
    /\ Tell(<<Note(kind, d)>>)
    /\ UNCHANGED <<family, flags, window, occupant, online, subscribed, wire>>

\* The receiver closes its window by itself; it says so with an error, or,
\* after an uneventful discovery, without.
WindowTimesOut ==
    /\ window # "closed"
    /\ window' = "closed"
    /\ IF PairingStreams
       THEN \/ Tell(<<Note("error", None)>>)
            \/ window = "discovery" /\ Tell(<<>>)
            \/ window = "lock" /\ Tell(<<SlotNote("lock", None, TRUE)>>)
       ELSE UNCHANGED inbound
    /\ UNCHANGED <<family, flags, occupant, online, subscribed, wire>>

\* The device that is being paired shows a passkey.
AskPasskey(kind) ==
    /\ window \in Devices /\ PairingStreams
    /\ kind \in {"passkey", "malformed"}
    /\ Tell(<<Note(kind, window)>>)
    /\ UNCHANGED <<family, flags, window, occupant, online, subscribed, wire>>

\* The device gets slot s.
PairingCompletes(d, s) ==
    /\ d \notin Paired /\ occupant[s] = None
    /\ window = IF family = "bolt" THEN d ELSE "lock"
    /\ window' = "closed"
    /\ occupant' = [occupant EXCEPT ![s] = d]
    /\ online' = online \cup {s}
    /\ TellConnection(s, TRUE,
           IF ~PairingStreams THEN <<>>
           ELSE IF family = "bolt" THEN <<SlotNote("paired", s, TRUE)>>
           ELSE <<SlotNote("lock", None, TRUE)>>)
    /\ UNCHANGED <<family, flags, subscribed>>

ReceiverActs ==
    \/ \E s \in Slots : LinkChange(s)
    \/ \E d \in Devices, kind \in {"info", "name"} : Discover(d, kind)
    \/ WindowTimesOut
    \/ \E kind \in {"passkey", "malformed"} : AskPasskey(kind)
    \/ \E d \in Devices, s \in Slots : PairingCompletes(d, s)
=============================================================================
