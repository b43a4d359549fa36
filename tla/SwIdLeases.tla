----------------------------- MODULE SwIdLeases -----------------------------
(***************************************************************************)
(* Several channels open on the same HID node at once                      *)
(* (crates/openlogi-hid/src/transport.rs): how an open gets its software   *)
(* id from the process-wide lease mask, and how the id comes back.         *)
(*                                                                         *)
(* The OS hands every input report of the node to every open handle, and a *)
(* channel tells its answers from the others' by the software id alone:    *)
(* all requests here have the same device, feature and function, the worst *)
(* case.  Within one channel HidppChannel models correlation; here a       *)
(* channel has one call outstanding at a time.                             *)
(***************************************************************************)
EXTENDS Naturals

CONSTANTS Channels,     \* opens of the node, each one lifetime of a channel
          Ids,          \* software ids that can be leased, 1..15 in the code
          NoId, Nobody

ASSUME LeaseAssumption ==
    /\ Ids \subseteq Nat
    /\ NoId \notin Ids
    /\ Nobody \notin Channels

VARIABLES
    suspended,  \* the device-I/O gate is closed
    stage,      \* how far each open, or its drop, is
    mask,       \* SW_ID_LEASES
    seen,       \* the mask each lease attempt has loaded
    id,         \* software id of each channel's policy
    waiting,    \* channels with a pending call
    got,        \* the channel whose request was last answered to each
    asked,      \* requests at the device
    inbox,      \* reports of the OS that each handle has yet to read
    met         \* ghost: channels each was open and leased together with

leaseVars == <<mask, seen, id, met>>
callVars == <<waiting, got, asked, inbox>>
vars == <<suspended, stage, leaseVars, callVars>>

Stages == {"idle", "checked", "opened", "loading", "swapping", "live",
           "dropping", "joined", "rawClosed", "closed"}

\* The OS handle is open from dev.open to the drop of the raw channel.
HasHandle(c) == stage[c] \in {"opened", "loading", "swapping", "live",
                              "dropping", "joined"}

\* The channel owns its id until its policy has been dropped.
HasLease(c) ==
    /\ id[c] # NoId
    /\ stage[c] \in {"live", "dropping", "joined", "rawClosed"}

TypeOK ==
    /\ suspended \in BOOLEAN
    /\ stage \in [Channels -> Stages]
    /\ mask \subseteq Ids
    /\ seen \in [Channels -> SUBSET Ids]
    /\ id \in [Channels -> Ids \cup {NoId}]
    /\ waiting \subseteq Channels
    /\ got \in [Channels -> Channels \cup {Nobody}]
    /\ asked \subseteq Channels
    /\ inbox \in [Channels -> SUBSET Channels]
    /\ met \in [Channels -> SUBSET Channels]

Init ==
    /\ suspended = FALSE
    /\ stage = [c \in Channels |-> "idle"]
    /\ mask = {} /\ seen = [c \in Channels |-> {}]
    /\ id = [c \in Channels |-> NoId]
    /\ waiting = {} /\ got = [c \in Channels |-> Nobody]
    /\ asked = {} /\ inbox = [c \in Channels |-> {}]
    /\ met = [c \in Channels |-> {}]
-----------------------------------------------------------------------------
Enter(c, s) == stage' = [stage EXCEPT ![c] = s]

\* The host lifecycle observer closes and reopens the gate at any time.
SwitchGate ==
    /\ suspended' = ~suspended
    /\ UNCHANGED <<stage, leaseVars, callVars>>

\* open_hidpp and open_hidpp_channel look at the gate before the OS open.
CheckGate(c) ==
    /\ stage[c] = "idle"
    /\ Enter(c, IF suspended THEN "closed" ELSE "checked")
    /\ UNCHANGED <<suspended, leaseVars, callVars>>

\* The node is not in the handle map, or the OS refuses.
OpenFails(c) ==
    /\ stage[c] = "checked"
    /\ Enter(c, "closed")
    /\ UNCHANGED <<suspended, leaseVars, callVars>>

OsOpen(c) ==
    /\ stage[c] = "checked"
    /\ Enter(c, "opened")
    /\ UNCHANGED <<suspended, leaseVars, callVars>>

\* The gate is looked at again after the open was awaited: closed, the
\* handle is dropped; open, the node is a HID++ channel and its read thread
\* starts, or it is not and the handle is dropped.
Recheck(c) ==
    /\ stage[c] = "opened"
    /\ \/ ~suspended /\ Enter(c, "loading") /\ UNCHANGED inbox
       \/ Enter(c, "closed") /\ inbox' = [inbox EXCEPT ![c] = {}]
    /\ UNCHANGED <<suspended, leaseVars, waiting, got, asked>>

\* try_lease_sw_id loads the mask; a full one refuses the open, and the
\* channel is dropped without ever having owned an id.
LoadMask(c) ==
    /\ stage[c] = "loading"
    /\ seen' = [seen EXCEPT ![c] = mask]
    /\ Enter(c, IF mask = Ids THEN "dropping" ELSE "swapping")
    /\ UNCHANGED <<suspended, mask, id, met, callVars>>

LowestFree(m) == CHOOSE i \in Ids \ m : \A j \in Ids \ m : i <= j

Own(c, i) ==
    /\ mask' = seen[c] \cup {i}
    /\ id' = [id EXCEPT ![c] = i]
    /\ LET open == {d \in Channels \ {c} : HasLease(d) /\ HasHandle(d)}
       IN  met' = [d \in Channels |->
                      IF d = c THEN met[c] \cup open
                      ELSE IF d \in open THEN met[d] \cup {c}
                      ELSE met[d]]

\* Mutant: the mask is stored without looking at what it has become.
StoreMask(c) ==
    /\ stage[c] = "swapping"
    /\ Own(c, LowestFree(seen[c]))
    /\ Enter(c, "live")
    /\ UNCHANGED <<suspended, seen, callVars>>

\* compare_exchange: the mask is as it was loaded, or it is loaded again.
SwapMask(c) ==
    /\ stage[c] = "swapping"
    /\ \/ /\ mask = seen[c]
          /\ Own(c, LowestFree(mask))
          /\ Enter(c, "live")
       \/ /\ mask # seen[c]
          /\ Enter(c, "loading")
          /\ UNCHANGED <<mask, id, met>>
    /\ UNCHANGED <<suspended, seen, callVars>>
-----------------------------------------------------------------------------
\* A call registers and writes its request; write_report refuses it while
\* the gate is closed.
Ask(c) ==
    /\ stage[c] = "live" /\ c \notin waiting \cup asked
    /\ ~suspended
    /\ waiting' = waiting \cup {c}
    /\ asked' = asked \cup {c}
    /\ UNCHANGED <<suspended, stage, leaseVars, got, inbox>>

\* The call's deadline passes, or its caller gives up.
GiveUp(c) ==
    /\ c \in waiting
    /\ waiting' = waiting \ {c}
    /\ UNCHANGED <<suspended, stage, leaseVars, got, asked, inbox>>

\* The device answers; every open handle gets the report.
Answer(c) ==
    /\ c \in asked
    /\ asked' = asked \ {c}
    /\ inbox' = [d \in Channels |-> IF HasHandle(d) THEN inbox[d] \cup {c}
                                    ELSE inbox[d]]
    /\ UNCHANGED <<suspended, stage, leaseVars, waiting, got>>

\* d's read thread matches the answer to c's request against d's pending
\* call by software id.
Read(d, c) ==
    /\ stage[d] \in {"loading", "swapping", "live", "dropping"}
    /\ c \in inbox[d]
    /\ inbox' = [inbox EXCEPT ![d] = inbox[d] \ {c}]
    /\ IF d \in waiting /\ id[c] = id[d]
       THEN waiting' = waiting \ {d} /\ got' = [got EXCEPT ![d] = c]
       ELSE UNCHANGED <<waiting, got>>
    /\ UNCHANGED <<suspended, stage, leaseVars, asked>>
-----------------------------------------------------------------------------
\* The last user lets go: nobody is calling.
Drop(c) ==
    /\ stage[c] = "live" /\ c \notin waiting
    /\ Enter(c, "dropping")
    /\ UNCHANGED <<suspended, leaseVars, callVars>>

\* Mutant: the id is free before the handle is closed.
FreeBeforeClose(c) ==
    /\ stage[c] = "dropping"
    /\ Enter(c, "joined")
    /\ mask' = mask \ {id[c]}
    /\ UNCHANGED <<suspended, seen, id, met, callVars>>

\* Drop for HidppChannel joins the read thread first ...
JoinReader(c) ==
    /\ stage[c] = "dropping"
    /\ Enter(c, "joined")
    /\ UNCHANGED <<suspended, leaseVars, callVars>>

\* ... then the fields drop in declaration order: raw_channel, with the OS
\* handle and what it had not read ...
CloseRaw(c) ==
    /\ stage[c] = "joined"
    /\ Enter(c, "rawClosed")
    /\ inbox' = [inbox EXCEPT ![c] = {}]
    /\ UNCHANGED <<suspended, leaseVars, waiting, got, asked>>

\* ... then sw_id_policy, whose guard frees the id, one atomic fetch_and; a
\* refused channel has the default policy, which frees nothing.
FreeLease(c) ==
    /\ stage[c] = "rawClosed"
    /\ Enter(c, "closed")
    /\ mask' = mask \ {id[c]}
    /\ UNCHANGED <<suspended, seen, id, met, callVars>>
-----------------------------------------------------------------------------
Next ==
    \/ SwitchGate
    \/ \E c \in Channels :
          \/ CheckGate(c) \/ OpenFails(c) \/ OsOpen(c) \/ Recheck(c)
          \/ LoadMask(c) \/ SwapMask(c)
          \/ Ask(c) \/ GiveUp(c) \/ Answer(c)
          \/ Drop(c) \/ JoinReader(c) \/ CloseRaw(c) \/ FreeLease(c)
    \/ \E d, c \in Channels : Read(d, c)

Spec == Init /\ [][Next]_vars
-----------------------------------------------------------------------------
(***************************************************************************)
(* Properties.                                                             *)
(***************************************************************************)
\* The mask says exactly who owns what: no id is taken that nobody owns (a
\* leak that would in time refuse every open), none is owned and free, and
\* no two channels own the same, whatever opens and drops race.
MaskExact ==
    /\ mask = {id[c] : c \in {d \in Channels : HasLease(d)}}
    /\ \A c, d \in Channels :
          HasLease(c) /\ HasLease(d) /\ id[c] = id[d] => c = d

\* "Concurrent opens of the same physical HID node ... share the OS input
\* report stream, so a shared software id lets a response satisfy the wrong
\* open": no channel takes the answer to a request of another channel that
\* was open together with it, however late either comes or goes.
NoCrossMatch ==
    \A c, d \in Channels : got[d] = c /\ c # d => c \notin met[d]

(***************************************************************************)
(* The inductive invariant.                                                *)
(***************************************************************************)
\* Channels that were open together have different ids, for good.
MetDiffer ==
    \A c, d \in Channels :
        c \in met[d] => /\ id[c] # NoId /\ id[d] # NoId
                        /\ id[c] # id[d]

\* A channel owns an id from its lease on and keeps its name after that; one
\* that has not leased has none and asks nothing.
LeasedFirst ==
    \A c \in Channels :
        /\ stage[c] \in {"idle", "checked", "opened", "loading", "swapping"}
              => id[c] = NoId /\ c \notin waiting
        /\ c \in waiting => stage[c] = "live"
        /\ stage[c] = "live" => id[c] # NoId
        /\ stage[c] = "swapping" => seen[c] # Ids

\* An answer was taken for the id it shares with the call it ended.
SameIdTaken ==
    \A c, d \in Channels : got[d] = c => id[d] # NoId /\ id[c] = id[d]

IInv == TypeOK /\ MaskExact /\ MetDiffer /\ LeasedFirst /\ SameIdTaken
=============================================================================
