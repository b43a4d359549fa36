-------------------------- MODULE ReceiverSnapshot --------------------------
(***************************************************************************)
(* Inventory's view of the receiver of module Receiver: the coalesced      *)
(* lifecycle events (crates/openlogi-device/src/inventory/events.rs) that  *)
(* ask for a pass, and the part of a pass that finds out which slots have  *)
(* a device that is online (inventory/probe.rs, with the register calls of *)
(* crates/openlogi-hidpp/src/receiver).                                    *)
(*                                                                         *)
(* Connection reports that a pass provokes itself are hidden from the      *)
(* event channel by a depth counter; the read thread delivers reports      *)
(* while the pass waits for register answers.  Reports of one slot replace *)
(* each other where the code collects them by slot, so the listener's      *)
(* queue is a function of the slot.                                        *)
(*                                                                         *)
(* Assumed: the drain's quiet interval (ARRIVAL_DRAIN) is longer than a    *)
(* report's way from the receiver to the read thread.                      *)
(***************************************************************************)
EXTENDS Receiver

VARIABLES
    scan,       \* what the pass is doing
    depth,      \* receiver_snapshot_depth
    pending,    \* a request waits in the event channel
    queued,     \* last report of each slot in the pass's own listener
    drained,    \* last report of each slot taken from it
    counted,    \* pairing count the pass read
    unread,     \* slots whose registers the pass has still to read (Bolt)
    sighted,    \* slots the pass found: occupied, and online
    known,      \* slots published as online
    retry,      \* the pass failed and asks for another
    silent,     \* ghost: slots that changed without an announcement
    swallowed,  \* ghost: slots whose report came while hidden and was not used
    filled      \* ghost: a slot was filled since a Bolt pass counted the pairings

snapshotVars == <<scan, depth, pending, queued, drained, counted, unread,
                  sighted, known, retry, silent, swallowed, filled>>
passVars == <<drained, counted, unread, sighted>>

Nothing == [s \in Slots |-> "none"]
Status(up) == IF up THEN "up" ELSE "down"
\* Where the code has a listener of its own on the channel.
Listening == scan \in {"flags", "trigger", "drain", "release", "notify",
                       "retrigger", "redrain"}
Occupied == {s \in Slots : occupant[s] # None}

SnapshotTypes ==
    /\ scan \in {"idle", "count", "flags", "trigger", "drain", "release",
                 "notify", "retrigger", "redrain", "slots"}
    /\ depth \in 0..1
    /\ pending \in BOOLEAN /\ retry \in BOOLEAN
    /\ queued \in [Slots -> {"none", "up", "down"}]
    /\ drained \in [Slots -> {"none", "up", "down"}]
    /\ counted \in 0..Cardinality(Slots) \cup {None}
    /\ unread \subseteq Slots
    /\ sighted \in [found : SUBSET Slots, up : SUBSET Slots]
    /\ known \subseteq Slots
    /\ silent \subseteq Slots /\ swallowed \subseteq Slots /\ filled \in BOOLEAN

SnapshotInit ==
    /\ scan = "idle" /\ depth = 0
    /\ pending = FALSE /\ retry = TRUE
    /\ queued = Nothing /\ drained = Nothing
    /\ counted = None /\ unread = {}
    /\ sighted = [found |-> {}, up |-> {}]
    /\ known = {} /\ silent = {} /\ swallowed = {} /\ filled = FALSE
-----------------------------------------------------------------------------
(***************************************************************************)
(* The read thread.                                                        *)
(***************************************************************************)
\* Mutant: reports are hidden during the whole pass.
HiddenInPass == scan # "idle"

\* Mutant: no report is hidden.
NeverHidden == FALSE

\* SubscriptionState::decode
Hidden == depth > 0

\* A report reaches the event listener and, if there is one, the pass's own.
\* The channel has one place: a request that finds it taken is dropped.
Deliver ==
    /\ wire # <<>>
    /\ wire' = Tail(wire)
    /\ LET r == Head(wire)
       IN  /\ pending' = (pending \/ ~Hidden)
           /\ queued' = IF Listening /\ scan # "drain" /\ scan # "redrain"
                        THEN [queued EXCEPT ![r.slot] = Status(r.up)] ELSE queued
           /\ drained' = IF scan \in {"drain", "redrain"}
                         THEN [drained EXCEPT ![r.slot] = Status(r.up)] ELSE drained
           /\ swallowed' = IF Hidden /\ r.cause = "change"
                                /\ scan \in {"release", "notify"}
                           THEN swallowed \cup {r.slot} ELSE swallowed
    /\ UNCHANGED <<family, flags, window, occupant, online, subscribed, inbound,
                   scan, depth, counted, unread, sighted, known, retry, silent,
                   filled>>
-----------------------------------------------------------------------------
(***************************************************************************)
(* A pass over the receiver.                                               *)
(***************************************************************************)
beside == <<family, window, occupant, online, subscribed, inbound>>

\* The watcher takes the request, or repairs a failed pass, or scans anyway.
\* What changed in silence is looked at anew, unless an older report of that
\* slot is still on its way.
StartPass ==
    /\ scan = "idle"
    /\ scan' = "count"
    /\ pending' = FALSE /\ retry' = FALSE
    /\ silent' = {s \in silent : \E i \in DOMAIN wire : wire[i].slot = s}
    /\ swallowed' = {} /\ filled' = FALSE
    /\ drained' = Nothing /\ queued' = Nothing
    /\ counted' = None /\ unread' = {}
    /\ sighted' = [found |-> {}, up |-> {}]
    /\ UNCHANGED <<receiverVars, depth, known>>

\* The pass ends without an answer to trust: the ledger replays what is
\* published and the watcher comes back.
Abandon == scan' = "idle" /\ retry' = TRUE

\* The drain gives up, and its guard is dropped on the way out.
FailPass == Abandon /\ depth' = depth - 1

\* count_pairings: the health gate of a Unifying pass, evidence for a Bolt
\* pass; then listen and begin_receiver_snapshot.
Count(outcome) ==
    /\ scan = "count"
    /\ counted' = IF outcome = "answered" THEN Cardinality(Occupied) ELSE None
    /\ IF outcome # "answered" /\ family = "unifying"
       THEN Abandon /\ UNCHANGED depth
       ELSE /\ scan' = IF family = "bolt" THEN "flags" ELSE "trigger"
            /\ depth' = depth + 1
            /\ UNCHANGED retry
    /\ UNCHANGED <<receiverVars, pending, queued, drained, unread, sighted, known,
                   silent, swallowed, filled>>

\* Bolt's set_notification_state writes the whole register; the read before
\* it is part of this step only when the register is as wanted.
EnableBolt(outcome) ==
    /\ scan = "flags"
    /\ flags' = IF "wireless" \notin flags /\ Applied(outcome)
                THEN {"wireless"} ELSE flags
    /\ scan' = "trigger"
    /\ UNCHANGED <<beside, wire, depth, pending, queued, passVars, known, retry,
                   silent, swallowed, filled>>

\* trigger_device_arrival: the receiver re-announces the slots, those online
\* always; it answers after the last report.
Trigger(outcome) ==
    LET again == {s \in Slots : s \in online}
        order == CHOOSE q \in [1..Cardinality(again) -> again] :
                    {q[i] : i \in DOMAIN q} = again
        cause == IF outcome = "answered" THEN "echo" ELSE "stray"
    IN  /\ scan \in {"trigger", "retrigger"}
        /\ IF Applied(outcome) /\ Announces({"wireless"})
           THEN /\ Len(wire) < MaxWire
                /\ wire' = wire \o [i \in DOMAIN order |-> Report(order[i], TRUE, cause)]
                /\ Tell([i \in DOMAIN order |-> SlotNote("connected", order[i], TRUE)])
                /\ UNCHANGED silent
           ELSE /\ UNCHANGED <<wire, inbound>>
                /\ silent' = IF Announces({"wireless"}) THEN silent ELSE silent \cup online
        /\ IF outcome = "answered"
           THEN /\ scan' = IF scan = "trigger" THEN "drain" ELSE "redrain"
                /\ drained' = queued /\ queued' = Nothing
                /\ UNCHANGED <<depth, retry, unread>>
           ELSE /\ UNCHANGED <<drained, queued>>
                /\ IF family = "unifying" THEN FailPass /\ UNCHANGED unread
                   ELSE /\ scan' = "slots" /\ depth' = depth - 1 /\ unread' = Slots
                        /\ UNCHANGED retry
        /\ UNCHANGED <<family, flags, window, occupant, online, subscribed,
                       pending, counted, sighted, known, swallowed, filled>>

\* The quiet interval passes without a report.
DrainEnds ==
    /\ scan \in {"drain", "redrain"} /\ wire = <<>>
    /\ scan' = IF family = "unifying" /\ scan = "drain" THEN "notify" ELSE "release"
    /\ UNCHANGED <<receiverVars, depth, pending, queued, passVars, known, retry,
                   silent, swallowed, filled>>

\* Unifying's set_wireless_notifications, read and write: only the one bit
\* changes unless the register moved in between, which takes a session that
\* writes it at that moment.  A drain that found nothing where something is
\* paired is repeated.
EnableUnifying(outcome, raced) ==
    /\ scan = "notify"
    /\ flags' = IF ~Applied(outcome) \/ (~raced /\ "wireless" \in flags) THEN flags
                ELSE IF raced THEN {"wireless"} ELSE flags \cup {"wireless"}
    /\ raced => subscribed
    /\ IF drained # Nothing \/ counted = 0
       THEN scan' = "release" /\ UNCHANGED <<depth, retry>>
       ELSE IF outcome = "answered"
       THEN scan' = "retrigger" /\ UNCHANGED <<depth, retry>>
       ELSE FailPass
    /\ UNCHANGED <<beside, wire, pending, queued, passVars, known, silent,
                   swallowed, filled>>

\* The guard is dropped, and with it the listener.
Release ==
    /\ scan = "release"
    /\ scan' = "slots" /\ depth' = depth - 1
    /\ unread' = IF family = "bolt" THEN Slots ELSE {}
    /\ sighted' = IF family = "bolt" THEN sighted
               ELSE [found |-> {s \in Slots : drained[s] # "none"},
                     up |-> {s \in Slots : drained[s] = "up"}]
    /\ UNCHANGED <<receiverVars, pending, queued, drained, counted, known,
                   retry, silent, swallowed, filled>>

\* read_bolt_slot_identity: the pairing register tells whether the slot is
\* occupied; a report of this pass outranks its link bit.
ReadSlot(s, outcome) ==
    /\ scan = "slots" /\ s \in unread
    /\ unread' = unread \ {s}
    /\ sighted' = IF outcome # "answered" \/ occupant[s] = None THEN sighted
               ELSE [found |-> sighted.found \cup {s},
                     up |-> IF \/ drained[s] = "up"
                               \/ drained[s] = "none" /\ s \in online
                            THEN sighted.up \cup {s} ELSE sighted.up]
    /\ UNCHANGED <<receiverVars, scan, depth, pending, queued, drained, counted,
                   known, retry, silent, swallowed, filled>>

\* assemble_bolt_probe and the tail of probe_unifying_receiver: a Bolt pass
\* that did not see as many slots as were paired is not believed.  One that
\* saw a slot filled since then may be, with another slot unread in its place.
Settle ==
    /\ scan = "slots" /\ unread = {}
    /\ scan' = "idle"
    /\ IF family = "bolt" /\ counted # Cardinality(sighted.found)
       THEN retry' = TRUE /\ UNCHANGED <<known, silent>>
       ELSE /\ known' = sighted.up
            /\ silent' = IF filled THEN silent \cup (Slots \ sighted.found) ELSE silent
            /\ UNCHANGED retry
    /\ UNCHANGED <<receiverVars, depth, pending, queued, passVars, swallowed, filled>>

PassSteps ==
    \/ Deliver
    \/ \E o \in Outcomes : Count(o) \/ EnableBolt(o) \/ Trigger(o)
    \/ DrainEnds
    \/ \E o \in Outcomes, r \in BOOLEAN : EnableUnifying(o, r)
    \/ Release
    \/ \E s \in Slots, o \in Outcomes : ReadSlot(s, o)
    \/ Settle
-----------------------------------------------------------------------------
\* Nothing is under way and nothing asks for a pass.
Quiet == scan = "idle" /\ wire = <<>> /\ ~pending /\ ~retry

\* When inventory is at rest, what it publishes is what is online, but for
\* slots that changed while the receiver was not asked to say so, for slots
\* whose report fell between a drain's end and the end of its guard, and for
\* slots a Bolt pass could not read while another one was filled
\* (EventNotifier, ReceiverSnapshotGuard, assemble_bolt_probe).
ChangesAreCovered ==
    Quiet => \A s \in Slots \ (silent \cup swallowed) : s \in known <=> s \in online

\* A pass does not ask for another one by the reports it provokes, unless
\* its trigger went unanswered.
NoEcho == [][~pending /\ pending' => Head(wire).cause # "echo"]_snapshotVars
-----------------------------------------------------------------------------
(***************************************************************************)
(* The inductive invariant the proofs use (TLC checks it too).             *)
(***************************************************************************)
InWire(s) == \E i \in 1..Len(wire) : wire[i].slot = s

\* Reports are hidden exactly while a guard is held, the pass's own listener
\* takes them then, and a Bolt receiver's pass and a Unifying one's go their
\* own ways.
PassShape ==
    /\ depth = IF Listening THEN 1 ELSE 0
    /\ scan = "flags" => family = "bolt"
    /\ scan \in {"notify", "retrigger", "redrain"} => family = "unifying"
    /\ scan \in {"count", "flags", "trigger"} => drained = Nothing
    /\ scan \in {"count", "drain", "redrain"} => queued = Nothing
    /\ scan \notin {"idle", "slots"} => sighted = [found |-> {}, up |-> {}]
    /\ scan = "slots" => /\ family = "unifying" => unread = {}
                         /\ unread \cap sighted.found = {}
    /\ family = "bolt" => sighted.up \subseteq sighted.found

\* What a pass provokes is delivered while it drains; after the drain, and
\* while its guard is held, only changes are on their way.
CausesAreKnown ==
    \A i \in 1..Len(wire) :
        /\ wire[i].cause = "echo" => scan \in {"drain", "redrain"}
        /\ scan \in {"release", "notify"} => wire[i].cause = "change"

\* The last report of a slot on its way says what is so.
WireIsFresh ==
    \A i \in 1..Len(wire) :
        wire[i].slot \notin silent /\ (\A j \in 1..Len(wire) : wire[j].slot = wire[i].slot => j <= i)
            => (wire[i].up <=> wire[i].slot \in online)

\* So does the last one the pass's listener has queued.
QueueIsFresh ==
    Listening => \A s \in Slots \ silent : ~InWire(s) /\ queued[s] = "up" => s \in online

\* With no report of a slot on its way and none to come, each stage of the
\* pass has it as it is.
PassIsRight ==
    \A s \in Slots \ (silent \cup swallowed) : ~InWire(s) =>
        /\ scan = "idle" /\ ~pending /\ ~retry => (s \in known <=> s \in online)
        /\ scan \in {"drain", "notify", "redrain", "release"} =>
               (drained[s] = "up" <=> s \in online)
        /\ scan = "slots" /\ ~pending =>
               IF family = "unifying" THEN s \in sighted.up <=> s \in online
               ELSE /\ drained[s] = "up" => s \in online
                    /\ drained[s] = "down" => s \notin online
                    /\ s \in sighted.found => (s \in sighted.up <=> s \in online)

\* The slots a Bolt pass finds are among those it counted, if none was filled.
FoundAreCounted ==
    family = "bolt" /\ scan \notin {"idle", "count"} /\ counted # None /\ ~filled =>
        \E C \in SUBSET Slots : /\ Cardinality(C) = counted
                                /\ Occupied \cup sighted.found \subseteq C

SnapshotInv ==
    /\ online \subseteq Occupied
    /\ SnapshotTypes /\ PassShape /\ CausesAreKnown /\ WireIsFresh
    /\ QueueIsFresh /\ PassIsRight /\ FoundAreCounted
=============================================================================
