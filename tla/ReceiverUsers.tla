---------------------------- MODULE ReceiverUsers ----------------------------
(***************************************************************************)
(* A pairing session and inventory's passes on one receiver.  Neither      *)
(* knows of the other: each opens a channel of its own (pairing.rs,        *)
(* open_receiver; inventory.rs, the channel cache), and they meet in the   *)
(* receiver's notification register and in the notifications.              *)
(***************************************************************************)
EXTENDS Pairing, ReceiverSnapshot

usersVars == <<receiverVars, pairingVars, snapshotVars>>

UsersInit == ReceiverInit /\ PairingInit /\ SnapshotInit

\* What everything but inventory does to inventory's view: nothing, only that
\* a slot's change goes unannounced if no report is on its way, and that a
\* Bolt pass that has counted the pairings does not count a slot filled then.
Unseen ==
    /\ silent' = silent
         \cup {s \in Slots : wire' = wire /\ (s \in online) # (s \in online')}
    /\ filled' = (filled \/ /\ family = "bolt" /\ scan \notin {"idle", "count"}
                            /\ \E s \in Slots : occupant[s] = None /\ occupant'[s] # None)
    /\ UNCHANGED <<scan, depth, pending, queued, drained, counted, unread, sighted,
                   known, retry, swallowed>>

Session == SessionSteps /\ Unseen
User == UserActs /\ Unseen
Expires == Deadline /\ Unseen
Device == ReceiverBeside /\ Unseen
RemoveDevice == \E s \in Slots : Unpair(s) /\ Unseen
Inventory == (StartPass \/ PassSteps) /\ UNCHANGED pairingVars

UsersNext == Session \/ User \/ Expires \/ Device \/ RemoveDevice \/ Inventory

UsersSpec == UsersInit /\ [][UsersNext]_usersVars

Types == ReceiverTypes /\ PairingTypes /\ SnapshotTypes
=============================================================================
