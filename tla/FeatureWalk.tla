----------------------------- MODULE FeatureWalk ------------------------------
(***************************************************************************)
(* Finding a device and walking its feature table                          *)
(* (crates/openlogi-hidpp/src/device.rs, protocol.rs, feature/root.rs,     *)
(* feature/feature_set.rs, feature/registry.rs): the version ping, the     *)
(* lookup of the feature set, the number of features and then every entry  *)
(* by itself, each asked up to Attempts times.                             *)
(*                                                                         *)
(* Requests for different entries have one header, so the answer of an     *)
(* attempt that was given up is taken by whichever attempt waits when it   *)
(* comes (HidppChannel, Matching).  Walks follow one another on a channel. *)
(***************************************************************************)
EXTENDS Naturals, Sequences

CONSTANTS Table,       \* feature table of the device: <<[id, version], ...>>
          Attempts,    \* FEATURE_READ_ATTEMPTS
          MaxWalks     \* devices created on the channel, one after another

FeatureSetId == 1     \* 0x0001
ASSUME TableHasSet ==
    /\ Table \in Seq([id : Nat, version : Nat])
    /\ \E i \in 1..Len(Table) : Table[i].id = FeatureSetId
ASSUME WalksAreBounded == Attempts \in Nat /\ MaxWalks \in Nat

VARIABLES
    peer,         \* what is at the device index
    walkStage,    \* how far the walk is
    asking,       \* a call waits for its answer
    attempt,      \* number of the attempt at this entry
    flight,       \* requests on their way or being answered, oldest first
    entries,      \* the features read so far
    installed,    \* implementation -> feature index it was created with
    walks,        \* bound on devices
    overtaken     \* ghost: a call gave up while its answer was on its way

walkVars == <<peer, walkStage, asking, attempt, flight, entries, installed, walks, overtaken>>

SetIndex == CHOOSE i \in 1..Len(Table) : Table[i].id = FeatureSetId

\* The features that have an implementation, with the version each is for;
\* all others are known by name only or not at all.
FromVersion == [id \in {\h1815, \h8310} |-> 2]
OneUp == {\h8040, \h8090, \h8300, \h4531}
FromZero == {0, 1, 3, 5, 7, \h1000, \h1001, \h1004, \h1814, \h1990, \h19b0, \h1b04,
             \h1c00, \h1d4b, \h2100, \h2110, \h2111, \h2121, \h2150, \h2200, \h2201,
             \h2202, \h40a2, \h40a3, \h4301, \h4521, \h4522, \h4530, \h4600, \h6100,
             \h6110, \h6501, \h8060, \h8061, \h8070, \h8071, \h8081}
StartingVersion(id) == CASE id \in DOMAIN FromVersion -> FromVersion[id]
                         [] id \in OneUp -> 1
                         [] id = \h1982 -> 3
                         [] OTHER -> 0
Known == FromZero \cup OneUp \cup DOMAIN FromVersion \cup {\h1982}

\* lookup_version: the implementation of a feature, for devices new enough.
Implemented(feature) ==
    feature.id \in Known /\ StartingVersion(feature.id) <= feature.version

WalkInit ==
    /\ peer \in {"v20", "v10", "nothing", "setless"}
    /\ walkStage = "ping" /\ asking = FALSE /\ attempt = 1 /\ flight = <<>>
    /\ entries = <<>> /\ installed = <<>>
    /\ walks = 1 /\ overtaken = FALSE
-----------------------------------------------------------------------------
Calls == {"ping", "root", "count", "entry"}
NextSlot == Len(entries) + 1

Install(id, i) == installed' = [f \in DOMAIN installed \cup {id} |->
                                   IF f = id THEN i ELSE installed[f]]

\* The call that the stage stands for is written to the channel.  Only entries
\* are asked again when that fails.
AskDevice ==
    /\ walkStage \in Calls /\ ~asking
    /\ asking' = TRUE
    /\ flight' = Append(flight, [call |-> walkStage,
                                  slot |-> IF walkStage = "entry" THEN NextSlot ELSE 0])
    /\ UNCHANGED <<peer, walkStage, attempt, entries, installed, walks, overtaken>>

\* Mutant: an entry that cannot be read is left out.
SkipEntry ==
    IF walkStage = "entry" /\ attempt < Attempts
    THEN attempt' = attempt + 1 /\ UNCHANGED <<walkStage, entries>>
    ELSE /\ attempt' = 1
         /\ IF walkStage = "entry" /\ NextSlot < Len(Table)
            THEN UNCHANGED walkStage /\ entries' = Append(entries, Table[NextSlot + 1])
            ELSE walkStage' = "failed" /\ UNCHANGED entries

\* A call that failed: an entry is asked for again after a pause, and what is
\* not an entry, or was asked for often enough, ends the walk.
AskAgain ==
    IF walkStage = "entry" /\ attempt < Attempts
    THEN attempt' = attempt + 1 /\ UNCHANGED <<walkStage, entries>>
    ELSE walkStage' = "failed" /\ attempt' = 1 /\ UNCHANGED entries

WriteFails ==
    /\ walkStage \in Calls /\ ~asking
    /\ AskAgain
    /\ UNCHANGED <<peer, asking, flight, installed, walks, overtaken>>

\* The deadline of an attempt or of the channel: the call leaves the channel's
\* queue, whatever is on its way.
AttemptTimesOut ==
    /\ asking /\ asking' = FALSE
    /\ overtaken' = (overtaken \/ flight # <<>>)
    /\ AskAgain
    /\ UNCHANGED <<peer, flight, installed, walks>>

\* Nothing is at the index, or the report is lost.
LoseReport ==
    /\ flight # <<>>
    /\ flight' = Tail(flight)
    /\ UNCHANGED <<peer, walkStage, asking, attempt, entries, installed, walks, overtaken>>
-----------------------------------------------------------------------------
(***************************************************************************)
(* What each answer does.                                                  *)
(***************************************************************************)
\* determine_version: a HID++ 1.0 device refuses the sub id, a receiver names
\* another error for an index it has nothing at.
TakePong ==
    /\ walkStage' = CASE peer \in {"v20", "setless"} -> "root"
                  [] peer = "v10" -> "unsupported"
                  [] OTHER -> "absent"
    /\ IF walkStage' = "root" THEN Install(0, 0) ELSE UNCHANGED installed
    /\ UNCHANGED <<attempt, entries>>

TakeSetIndex ==
    /\ IF peer = "setless" THEN walkStage' = "setless" /\ UNCHANGED installed
       ELSE walkStage' = "count" /\ Install(FeatureSetId, SetIndex)
    /\ UNCHANGED <<attempt, entries>>

TakeCount ==
    /\ walkStage' = IF Len(Table) = 0 THEN "done" ELSE "entry"
    /\ UNCHANGED <<attempt, entries, installed>>

\* The walk's own counter says which index a feature is installed at, and the
\* feature set itself is there already.
TakeEntry(slot) ==
    LET feature == Table[slot]
    IN  /\ entries' = Append(entries, feature)
        /\ IF NextSlot # SetIndex /\ Implemented(feature)
           THEN Install(feature.id, NextSlot) ELSE UNCHANGED installed
        /\ attempt' = 1
        /\ walkStage' = IF NextSlot = Len(Table) THEN "done" ELSE "entry"

\* A call that waits takes the answer that has its header.
Matches(request) == asking /\ request.call = walkStage

\* The device answers the oldest request, or refuses it: a refusal is final.
\* An answer nobody waits for is a message like any other.
AnswerReport ==
    /\ flight # <<>>
    /\ flight' = Tail(flight)
    /\ LET request == Head(flight)
       IN  IF ~Matches(request)
           THEN UNCHANGED <<asking, walkStage, attempt, entries, installed>>
           ELSE /\ asking' = FALSE
                /\ CASE walkStage = "ping" -> TakePong
                     [] walkStage = "root" -> TakeSetIndex
                     [] walkStage = "count" -> TakeCount
                     [] OTHER -> TakeEntry(request.slot)
    /\ UNCHANGED <<peer, walks, overtaken>>

RefuseReport ==
    /\ flight # <<>> /\ peer \in {"v20", "setless"} /\ Head(flight).call # "ping"
    /\ flight' = Tail(flight)
    /\ IF Matches(Head(flight)) THEN asking' = FALSE /\ walkStage' = "refused"
       ELSE UNCHANGED <<asking, walkStage>>
    /\ UNCHANGED <<peer, attempt, entries, installed, walks, overtaken>>

\* Another device object is made for the index, on the same channel.
WalkAgain ==
    /\ walkStage \notin Calls /\ walks < MaxWalks
    /\ walks' = walks + 1 /\ walkStage' = "ping" /\ attempt' = 1
    /\ entries' = <<>> /\ installed' = <<>>
    /\ UNCHANGED <<peer, asking, flight, overtaken>>

WalkNext == \/ AskDevice \/ WriteFails \/ AttemptTimesOut \/ LoseReport
            \/ AnswerReport \/ RefuseReport \/ WalkAgain

WalkSpec == WalkInit /\ [][WalkNext]_walkVars
-----------------------------------------------------------------------------
(***************************************************************************)
(* Properties.                                                             *)
(***************************************************************************)
\* As long as no answer came after its call had given up, every entry is the
\* one at its index, whatever was lost and asked for again.
EntriesInPlace ==
    ~overtaken => \A i \in DOMAIN entries : entries[i] = Table[i]

\* A walk that ends well has every entry, and each implementation is bound to
\* an index where the walk read its feature; 0 is the root's.  Every feature
\* read that has an implementation has got one, but for what a late answer
\* put in the place of the feature set.
WalkIsWhole ==
    walkStage = "done" =>
        /\ Len(entries) = Len(Table)
        /\ \A f \in DOMAIN installed \ {0, FeatureSetId} :
              entries[installed[f]].id = f /\ Implemented(entries[installed[f]])
        /\ \A i \in DOMAIN entries :
              Implemented(entries[i]) /\ (i = SetIndex => ~overtaken) =>
                  entries[i].id \in DOMAIN installed

\* The table the program sees is the device's.
TableIsRight == EntriesInPlace /\ WalkIsWhole
-----------------------------------------------------------------------------
(***************************************************************************)
(* The inductive invariant the proofs use (TLC checks it too).             *)
(***************************************************************************)
WalkTypes ==
    /\ walkStage \in Calls \cup {"done", "failed", "refused", "unsupported", "absent", "setless"}
    /\ asking \in BOOLEAN /\ overtaken \in BOOLEAN
    /\ flight \in Seq([call : Calls, slot : 0..Len(Table)])
    /\ entries \in Seq([id : Nat, version : Nat])

\* How many entries a stage has, and that the set is found by then.
WalkShape ==
    /\ asking => walkStage \in Calls
    /\ walkStage \in {"ping", "root", "count"} => entries = <<>>
    /\ walkStage = "entry" => Len(entries) < Len(Table)
    /\ walkStage = "done" => Len(entries) = Len(Table)
    /\ walkStage \in {"count", "entry", "done"} => FeatureSetId \in DOMAIN installed

\* An entry that is asked for is one of the table.
SlotsAreOfTable == \A i \in 1..Len(flight) : flight[i].call = "entry" => flight[i].slot >= 1

\* While no call gave up too soon, what is under way is what is waited for.
FlightIsAwaited ==
    ~overtaken /\ flight # <<>> =>
        /\ asking /\ Len(flight) = 1
        /\ flight[1].call = walkStage
        /\ walkStage = "entry" => flight[1].slot = NextSlot

BoundWhereRead ==
    \A f \in DOMAIN installed \ {0, FeatureSetId} :
        /\ installed[f] \in 1..Len(entries)
        /\ entries[installed[f]].id = f /\ Implemented(entries[installed[f]])

ReadAreBound ==
    \A i \in 1..Len(entries) :
        Implemented(entries[i]) /\ (i = SetIndex => ~overtaken) => entries[i].id \in DOMAIN installed

WalkInv ==
    /\ WalkTypes /\ WalkShape /\ SlotsAreOfTable /\ FlightIsAwaited
    /\ BoundWhereRead /\ ReadAreBound
    /\ EntriesInPlace
=============================================================================
