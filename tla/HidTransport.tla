----------------------------- MODULE HidTransport -----------------------------
(***************************************************************************)
(* The native transport under the device-I/O gate                          *)
(* (crates/openlogi-hid/src/transport.rs, transport/native.rs,             *)
(* transport/windows.rs, transport/windows_hid.rs and                      *)
(* crates/openlogi-device/src/device_io.rs): listing nodes, opening one,   *)
(* writing reports from several callers, reading, and those that wait for  *)
(* the gate.                                                               *)
(*                                                                         *)
(* One node and one channel.  A composite channel is the Windows one, with *)
(* a handle for each report length and a fallback for failed writes; the   *)
(* others have one handle.  What the gate is asked and what the OS is      *)
(* asked are steps of their own, for the gate turns at any time.           *)
(***************************************************************************)
EXTENDS Naturals, FiniteSets

CONSTANTS Writers,    \* calls of write_report on the channel
          MaxTurns    \* times the gate turns

VARIABLES
    composite,    \* the channel is a Windows composite one
    hasShort,     \* its short collection was found and opened
    allowed,      \* state of the device-I/O gate
    turns,        \* version of its watch channel
    publisher,    \* the DeviceIoSignal exists
    awaited,      \* how far a call of wait_until_allowed is
    seenTurn,     \* version its receiver has seen
    writer,       \* how far each write_report is, and its report's handle
    listing,      \* how far NativeBackend::refresh is
    opening,      \* how far open_hidpp is
    handled,      \* the node is in the handle map
    gone,         \* the device was taken away
    connected,    \* flag of the channel
    reader,       \* read_report of the channel
    late          \* ghost: writes the OS got since the gate closed

transportVars == <<composite, hasShort, allowed, turns, publisher, awaited,
                   seenTurn, writer, listing, opening, handled, gone, connected, reader, late>>
gateVars == <<allowed, turns, publisher, awaited, seenTurn>>
channelVars == <<gone, connected, reader>>
backendVars == <<listing, opening, handled>>
fixed == <<composite, hasShort>>

Handles == {"short", "long"}
Idle == [at |-> "idle", handle |-> "long"]

\* endpoint_for_report_id; a single handle takes every report, and its channel
\* frames short ones as long where the collection is long only.
HandleFor(length) == IF composite THEN length ELSE "long"

TransportInit ==
    /\ composite \in BOOLEAN /\ hasShort \in BOOLEAN
    /\ ~composite => ~hasShort
    /\ allowed = TRUE /\ turns = 0 /\ publisher = TRUE
    /\ awaited = "away" /\ seenTurn = 0
    /\ writer = [w \in Writers |-> Idle]
    /\ listing = "idle" /\ opening = "idle" /\ handled \in BOOLEAN
    /\ gone = FALSE /\ connected = TRUE /\ reader = "reading"
    /\ late = {}
-----------------------------------------------------------------------------
(***************************************************************************)
(* The gate.                                                               *)
(***************************************************************************)
GateOf == <<allowed, turns, publisher>>
OffGate == <<fixed, writer, backendVars, channelVars, late>>

\* suspend and resume; a repeated one publishes nothing.
Turn ==
    /\ publisher /\ turns < MaxTurns
    /\ allowed' = ~allowed /\ turns' = turns + 1
    /\ late' = {}
    /\ UNCHANGED <<publisher, awaited, seenTurn, fixed, writer, backendVars, channelVars>>

LosePublisher ==
    /\ publisher /\ publisher' = FALSE
    /\ UNCHANGED <<allowed, turns, awaited, seenTurn, OffGate>>

\* wait_until_allowed asks the gate, which marks no version as seen.
Look ==
    /\ awaited \in {"away", "looking"}
    /\ awaited' = IF allowed THEN "through" ELSE "closed"
    /\ UNCHANGED <<GateOf, seenTurn, OffGate>>

\* changed sleeps until the version is not the one it has seen ...
Sleep ==
    /\ awaited = "closed" /\ awaited' = "asleep"
    /\ UNCHANGED <<GateOf, seenTurn, OffGate>>

\* ... and the gate is asked again, or the wait ends with its publisher.
Wake ==
    /\ awaited = "asleep"
    /\ \/ seenTurn # turns /\ awaited' = "looking" /\ seenTurn' = turns
       \/ seenTurn = turns /\ ~publisher /\ awaited' = "refused" /\ UNCHANGED seenTurn
    /\ UNCHANGED <<GateOf, OffGate>>

\* Ghost: the OS gets a report.
Asks(w) == late' = IF allowed THEN late ELSE late \cup {w}
-----------------------------------------------------------------------------
(***************************************************************************)
(* Writing.                                                                *)
(***************************************************************************)
At(w) == writer[w].at
Go(w, stage) == writer' = [writer EXCEPT ![w].at = stage]
Locked(h) ==
    \E w \in Writers : writer[w].handle = h /\ At(w) \in {"locked", "cleared", "fallback"}

\* write_report looks at the gate (a composite one twice, with nothing
\* awaited in between) and finds the handle of the report's length.
StartReport(w, length) ==
    /\ At(w) = "idle" /\ allowed
    /\ HandleFor(length) = "short" => hasShort
    /\ writer' = [writer EXCEPT ![w] = [at |-> "queued", handle |-> HandleFor(length)]]
    /\ UNCHANGED <<gateVars, fixed, backendVars, channelVars, late>>

TakeLock(w) ==
    /\ At(w) = "queued" /\ ~Locked(writer[w].handle)
    /\ Go(w, "locked")
    /\ UNCHANGED <<gateVars, fixed, backendVars, channelVars, late>>

Ends(w) == writer' = [writer EXCEPT ![w] = Idle]
Disconnects == connected' = FALSE

\* Mutant: the gate is not looked at again under the lock.
PassUnasked(w) ==
    /\ At(w) = "locked"
    /\ Go(w, "cleared")
    /\ UNCHANGED <<gateVars, fixed, backendVars, channelVars, late>>

\* Under the lock a single handle looks at the gate again; a composite one
\* does not.
PassGate(w) ==
    /\ At(w) = "locked"
    /\ IF composite \/ allowed THEN Go(w, "cleared") ELSE Ends(w)
    /\ UNCHANGED <<gateVars, fixed, backendVars, channelVars, late>>

\* The OS takes the report, fails, or finds the device gone; a composite
\* channel tries a failed report again by other means, but not one of a
\* device that is gone.
OsWrite(w) ==
    /\ At(w) = "cleared"
    /\ Asks(w)
    /\ \/ ~gone /\ Ends(w) /\ UNCHANGED connected
       \/ gone /\ Ends(w) /\ Disconnects
       \/ Go(w, IF composite THEN "fallback" ELSE "idle") /\ UNCHANGED connected
    /\ UNCHANGED <<gateVars, fixed, backendVars, gone, reader>>

\* NativeHidWriter: the same report over handles of its own, whatever the
\* outcome; its errors are none that say the device is gone.
WriteFallback(w) ==
    /\ At(w) = "fallback"
    /\ Asks(w) /\ Ends(w)
    /\ UNCHANGED <<gateVars, fixed, backendVars, channelVars>>
-----------------------------------------------------------------------------
(***************************************************************************)
(* Reading.                                                                *)
(***************************************************************************)
\* A read of a device that is gone marks the channel and never returns; other
\* reads return, with a report or an error, and the read loop reads again.
ReadReport ==
    /\ reader = "reading" /\ gone
    /\ reader' = "parked" /\ Disconnects
    /\ UNCHANGED <<gateVars, fixed, writer, backendVars, gone, late>>

Unplug ==
    /\ ~gone /\ gone' = TRUE
    /\ UNCHANGED <<gateVars, fixed, writer, backendVars, connected, reader, late>>
-----------------------------------------------------------------------------
(***************************************************************************)
(* Listing and opening.                                                    *)
(***************************************************************************)
\* NativeBackend::refresh looks at the gate before the OS lists its nodes and
\* after it; refused, the map of the last listing stays.
StartListing ==
    /\ listing = "idle" /\ allowed
    /\ listing' = "asked"
    /\ UNCHANGED <<gateVars, fixed, writer, opening, handled, channelVars, late>>

ListNodes ==
    /\ listing = "asked" /\ listing' = "listed"
    /\ UNCHANGED <<gateVars, fixed, writer, opening, handled, channelVars, late>>

KeepHandles ==
    /\ listing = "listed" /\ listing' = "idle"
    /\ handled' = IF allowed THEN ~gone ELSE handled
    /\ UNCHANGED <<gateVars, fixed, writer, opening, channelVars, late>>

\* open_hidpp and open_raw_writer: the gate, then the handle of the last
\* listing.
StartOpening ==
    /\ opening = "idle" /\ allowed /\ handled
    /\ opening' = "asked"
    /\ UNCHANGED <<gateVars, fixed, writer, listing, handled, channelVars, late>>

OsOpens ==
    /\ opening = "asked"
    /\ opening' = IF gone THEN "idle" ELSE "opened"
    /\ UNCHANGED <<gateVars, fixed, writer, listing, handled, channelVars, late>>

\* The gate once more, but for a composite channel.
OpenedOrNot ==
    /\ opening = "opened"
    /\ opening' = IF allowed \/ composite THEN "open" ELSE "idle"
    /\ UNCHANGED <<gateVars, fixed, writer, listing, handled, channelVars, late>>
-----------------------------------------------------------------------------
TransportNext ==
    \/ Turn \/ LosePublisher \/ Look \/ Sleep \/ Wake
    \/ \E w \in Writers :
          \/ \E length \in Handles : StartReport(w, length)
          \/ TakeLock(w) \/ PassGate(w) \/ OsWrite(w) \/ WriteFallback(w)
    \/ ReadReport \/ Unplug
    \/ StartListing \/ ListNodes \/ KeepHandles
    \/ StartOpening \/ OsOpens \/ OpenedOrNot

TransportSpec == TransportInit /\ [][TransportNext]_transportVars
-----------------------------------------------------------------------------
(***************************************************************************)
(* Properties.                                                             *)
(***************************************************************************)
\* However many writes wait for the lock when the host suspends, a channel
\* with one handle puts at most one report, the one past its second look,
\* onto the bus until the host resumes.
OneReportLate == ~composite => Cardinality(late) <= 1

\* A waiter does not sleep through a resume: asleep with nothing left to see,
\* the gate is closed.
NoResumeMissed == awaited = "asleep" /\ seenTurn = turns => ~allowed

\* A closed gate is heeded, and an open one is noticed.
GateIsHeeded == OneReportLate /\ NoResumeMissed
=============================================================================
