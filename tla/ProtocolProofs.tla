---------------------------- MODULE ProtocolProofs ----------------------------
(***************************************************************************)
(* Proofs about a receiver and its two users (ReceiverUsers), for any      *)
(* slots, devices and bounds: a session that fails leaves the receiver as  *)
(* it found it and tells its user the truth, and inventory covers every    *)
(* change without asking for passes by its own reports.                    *)
(***************************************************************************)
EXTENDS ReceiverUsers, FiniteSetTheorems, SequenceTheorems, WellFoundedInduction, TLAPS

\* What a step adds to the session's unread notes.
Hears(notes) == inbound' = IF subscribed THEN inbound \o notes ELSE inbound

LEMMA TellIsHeard == ASSUME NEW notes, Tell(notes) PROVE Hears(notes)
  BY DEF Tell, Hears

LEMMA OneNote ==
    ASSUME NEW S, NEW x \in S
    PROVE  <<x>> \in Seq(S) /\ Len(<<x>>) = 1 /\ <<x>>[1] = x
  OBVIOUS

\* Notes that may come unread are of a device, or of a slot that was filled.
TrueNotes(notes) ==
    \A i \in 1..Len(notes) :
        /\ notes[i].kind \in {"info", "name"} => notes[i].dev \in Devices
        /\ notes[i].kind = "paired" => notes[i].slot \in news'

(***************************************************************************)
(* The session.                                                            *)
(***************************************************************************)
\* A step of anybody else, which may close the window and add true notes.
LEMMA OthersKeepSession ==
    ASSUME SessionInv, ReceiverTypes', PairingTypes',
           UNCHANGED <<sessionVars, family, subscribed>>,
           window' \in {window, "closed"}, news \subseteq news',
           NEW notes \in Seq(Notes), Hears(notes), subscribed => TrueNotes(notes),
           \A s \in told' \ told : /\ subscribed
                                   /\ \E j \in 1..Len(notes) :
                                         notes[j].slot = s /\ EndsWell(notes[j])
    PROVE  SessionInv'
<1>1. /\ inbound \in Seq(Notes) /\ SessionShape /\ WindowIsOurs /\ FramesAreOwn
      /\ NotesAreTrue /\ NewsArrive /\ FoundIsWhole
      /\ (reported # None /\ family = "bolt" => reported \in news)
  BY DEF SessionInv, ReceiverTypes
<1>2. /\ UNCHANGED <<pc, phase, picked, partial, emitted, shown, result, reported, refused>>
      /\ UNCHANGED <<family, subscribed>>
  BY DEF sessionVars
<1>3. SessionShape'
  BY <1>1, <1>2 DEF SessionShape, FirstPhase
<1>4. WindowIsOurs'
  BY <1>1, <1>2 DEF WindowIsOurs, Closes
<1>5. FramesAreOwn' /\ FoundIsWhole'
  BY <1>1, <1>2 DEF FramesAreOwn, FoundIsWhole, Counters
<1>6. /\ Len(inbound') \in Nat /\ Len(inbound) \in Nat /\ Len(inbound) <= Len(inbound')
      /\ \A i \in 1..Len(inbound) : inbound'[i] = inbound[i]
      /\ subscribed => /\ Len(inbound') = Len(inbound) + Len(notes)
                       /\ \A i \in 1..Len(inbound') : i > Len(inbound) =>
                             inbound'[i] = notes[i - Len(inbound)]
      /\ ~subscribed => inbound' = inbound
  BY <1>1, ConcatProperties, LenProperties DEF Hears
<1>7. NotesAreTrue'
  <2> SUFFICES ASSUME NEW i \in 1..Len(inbound')
               PROVE  /\ inbound'[i].kind \in {"info", "name"} => inbound'[i].dev \in Devices
                      /\ inbound'[i].kind = "paired" => inbound'[i].slot \in news'
    BY DEF NotesAreTrue
  <2>1. CASE i \in 1..Len(inbound)
    BY <1>1, <1>6, <2>1 DEF NotesAreTrue
  <2>2. CASE i \notin 1..Len(inbound)
    <3>1. subscribed /\ i > Len(inbound)
      BY <1>6, <2>2
    <3>2. inbound'[i] = notes[i - Len(inbound)] /\ i - Len(inbound) \in 1..Len(notes)
      BY <1>6, <3>1, LenProperties
    <3> QED
      BY <3>1, <3>2 DEF TrueNotes
  <2> QED
    BY <2>1, <2>2
<1>8. NewsArrive'
  <2> SUFFICES ASSUME result' # "paired", NEW s \in told'
               PROVE  \E i \in 1..Len(inbound') : inbound'[i].slot = s /\ EndsWell(inbound[i])'
    BY DEF NewsArrive
  <2>1. CASE s \in told
    <3>1. PICK i \in 1..Len(inbound) : inbound[i].slot = s /\ EndsWell(inbound[i])
      BY <1>1, <1>2, <2>1 DEF NewsArrive
    <3>2. i \in 1..Len(inbound') /\ inbound'[i] = inbound[i]
      BY <1>6
    <3> QED
      BY <1>2, <3>1, <3>2 DEF EndsWell
  <2>2. CASE s \notin told
    <3>1. PICK j \in 1..Len(notes) : notes[j].slot = s /\ EndsWell(notes[j])
      BY <2>2
    <3>2. subscribed
      BY <2>2
    <3> DEFINE k == Len(inbound) + j
    <3>3. k \in 1..Len(inbound') /\ k > Len(inbound) /\ k - Len(inbound) = j
      <4>1. Len(notes) \in Nat /\ j \in 1..Len(notes)
        BY LenProperties
      <4> QED
        BY <1>6, <3>2, <4>1
    <3> HIDE DEF k
    <3>4. inbound'[k] = notes[j]
      BY <1>6, <3>2, <3>3
    <3> QED
      BY <1>2, <3>1, <3>3, <3>4 DEF EndsWell
  <2> QED
    BY <2>1, <2>2
<1>9. (reported # None /\ family = "bolt" => reported \in news)'
  BY <1>1, <1>2
<1> QED
  BY <1>3, <1>4, <1>5, <1>7, <1>8, <1>9 DEF SessionInv

LEMMA DeviceKeepsSession == ASSUME SessionInv, ReceiverBeside PROVE SessionInv'
<1> DEFINE new == {s \in Slots : subscribed /\ occupant[s] # occupant'[s]}
<1>1. /\ ReceiverActs /\ UNCHANGED sessionVars
      /\ news' = news \cup new
      /\ told' = IF PairingStreams THEN told \cup new ELSE told
  BY DEF ReceiverBeside
<1>2. ReceiverTypes /\ PairingTypes /\ told \subseteq news /\ news \subseteq Slots
  BY DEF SessionInv, PairingTypes
<1>3. PairingTypes'
  BY <1>1, <1>2 DEF PairingTypes, sessionVars
<1>4. /\ << >> \in Seq(Notes)
      /\ \A s \in Slots, up \in BOOLEAN : SlotNote("connected", s, up) \in Notes
      /\ \A s \in Slots : SlotNote("paired", s, TRUE) \in Notes
      /\ SlotNote("lock", None, TRUE) \in Notes /\ Note("error", None) \in Notes
      /\ \A d \in Devices, k \in {"info", "name", "passkey", "malformed"} : Note(k, d) \in Notes
      /\ \A s \in Slots, up \in BOOLEAN : Report(s, up, "change") \in Reports
  BY DEF SlotNote, Note, Notes, Report, Reports
<1> HIDE DEF new
<1>5. \A s \in Slots, up \in BOOLEAN : \A after \in Seq(Notes) : TellConnection(s, up, after) =>
          /\ wire' \in Seq(Reports)
          /\ \/ ~Announces({"wireless"}) /\ Hears(after)
             \/ Hears(<<SlotNote("connected", s, up)>> \o after)
  <2> SUFFICES ASSUME NEW s \in Slots, NEW up \in BOOLEAN, NEW after \in Seq(Notes),
                      TellConnection(s, up, after)
               PROVE  /\ wire' \in Seq(Reports)
                      /\ \/ ~Announces({"wireless"}) /\ Hears(after)
                         \/ Hears(<<SlotNote("connected", s, up)>> \o after)
    OBVIOUS
  <2>1. wire \in Seq(Reports) /\ Report(s, up, "change") \in Reports
    BY <1>2, <1>4 DEF ReceiverTypes
  <2>2. CASE Announces({"wireless"})
    <3>1. /\ wire' = Append(wire, Report(s, up, "change"))
          /\ Tell(<<SlotNote("connected", s, up)>> \o after)
      BY <2>2 DEF TellConnection
    <3> QED
      BY <2>1, <3>1, TellIsHeard, AppendProperties
  <2>3. CASE ~Announces({"wireless"})
    <3>1. UNCHANGED wire /\ Tell(after)
      BY <2>3 DEF TellConnection
    <3> QED
      BY <2>1, <2>3, <3>1, TellIsHeard
  <2> QED
    BY <2>2, <2>3
<1>6. ASSUME NEW notes \in Seq(Notes), Hears(notes), ReceiverTypes', TrueNotes(notes),
             UNCHANGED <<family, subscribed>>, window' \in {window, "closed"},
             \A s \in told' \ told : /\ subscribed
                                     /\ \E j \in 1..Len(notes) :
                                           notes[j].slot = s /\ EndsWell(notes[j])
      PROVE  SessionInv'
  BY <1>1, <1>3, <1>6, OthersKeepSession
<1>7. \A notes \in Seq(Notes) : Hears(notes) => inbound' \in Seq(Notes)
  BY <1>2 DEF Hears, ReceiverTypes
<1>8. occupant' = occupant => new = {}
  BY DEF new
<1>9. ASSUME NEW s \in Slots, LinkChange(s) PROVE SessionInv'
  <2>1. /\ TellConnection(s, s \notin online, << >>) /\ online' \subseteq Slots
        /\ UNCHANGED <<family, flags, window, occupant, subscribed>>
    BY <1>2, <1>9 DEF LinkChange, ReceiverTypes
  <2>2. (s \notin online) \in BOOLEAN
    OBVIOUS
  <2>3. PICK notes \in {<< >>, <<SlotNote("connected", s, s \notin online)>>} : Hears(notes)
    <3>1. <<SlotNote("connected", s, s \notin online)>> \o << >>
              = <<SlotNote("connected", s, s \notin online)>>
      BY <1>4, <2>2
    <3> QED
      BY <1>4, <1>5, <2>1, <2>2, <3>1
  <2>4. notes \in Seq(Notes) /\ TrueNotes(notes)
    <3>1. CASE notes = << >>
      BY <3>1 DEF TrueNotes
    <3>2. CASE notes = <<SlotNote("connected", s, s \notin online)>>
      <4>1. /\ Len(notes) = 1 /\ notes[1].kind = "connected"
            /\ SlotNote("connected", s, s \notin online) \in Notes
        BY <1>4, <2>2, <3>2 DEF SlotNote
      <4> QED
        BY <3>2, <4>1 DEF TrueNotes
    <3> QED
      BY <3>1, <3>2
  <2>5. wire' \in Seq(Reports)
    BY <1>4, <1>5, <2>1, <2>2
  <2>6. ReceiverTypes'
    BY <1>2, <1>7, <2>1, <2>3, <2>4, <2>5 DEF ReceiverTypes
  <2>7. told' = told
    BY <1>1, <1>8, <2>1
  <2> QED
    BY <1>6, <2>1, <2>3, <2>4, <2>6, <2>7
<1>10. ASSUME NEW note \in Notes, note.kind \notin {"info", "name"} \/ note.dev \in Devices,
              note.kind # "paired",
              Hears(<<note>>) \/ Hears(<< >>) \/ inbound' = inbound,
              UNCHANGED <<family, flags, occupant, online, subscribed, wire>>,
              window' \in {window, "closed"}
       PROVE  SessionInv'
  <2>1. PICK notes \in {<< >>, <<note>>} : Hears(notes)
    <3>1. inbound' = inbound => Hears(<< >>)
      BY <1>2 DEF Hears, ReceiverTypes
    <3> QED
      BY <1>10, <3>1
  <2>2. notes \in Seq(Notes) /\ TrueNotes(notes)
    <3>1. CASE notes = << >>
      BY <3>1 DEF TrueNotes
    <3>2. CASE notes = <<note>>
      <4>1. Len(notes) = 1 /\ notes[1] = note
        BY <3>2
      <4> QED
        BY <1>10, <3>2, <4>1 DEF TrueNotes
    <3> QED
      BY <3>1, <3>2
  <2>3. ReceiverTypes'
    BY <1>2, <1>7, <1>10, <2>1, <2>2 DEF ReceiverTypes
  <2>4. told' = told
    BY <1>1, <1>8, <1>10
  <2> QED
    BY <1>6, <1>10, <2>1, <2>2, <2>3, <2>4
<1>11. ASSUME NEW d \in Devices, NEW kind \in {"info", "name"}, Discover(d, kind)
       PROVE  SessionInv'
  <2>1. /\ Note(kind, d) \in Notes /\ Note(kind, d).dev \in Devices
        /\ Note(kind, d).kind # "paired"
    BY <1>4 DEF Note
  <2>2. Hears(<<Note(kind, d)>>)
    BY <1>11, TellIsHeard DEF Discover
  <2> QED
    BY <1>10, <1>11, <2>1, <2>2 DEF Discover
<1>12. CASE WindowTimesOut
  <2>1. /\ Note("error", None).kind = "error" /\ SlotNote("lock", None, TRUE).kind = "lock"
    BY DEF Note, SlotNote
  <2>2. \/ Hears(<<Note("error", None)>>) \/ Hears(<<SlotNote("lock", None, TRUE)>>)
        \/ Hears(<< >>) \/ inbound' = inbound
    BY <1>12, TellIsHeard DEF WindowTimesOut
  <2>3. window' = "closed" /\ UNCHANGED <<family, flags, occupant, online, subscribed, wire>>
    BY <1>12 DEF WindowTimesOut
  <2>4. CASE Hears(<<SlotNote("lock", None, TRUE)>>)
    BY <1>4, <1>10, <2>1, <2>3, <2>4
  <2>5. CASE Hears(<<Note("error", None)>>) \/ Hears(<< >>) \/ inbound' = inbound
    BY <1>4, <1>10, <2>1, <2>3, <2>5
  <2> QED
    BY <2>2, <2>4, <2>5
<1>13. ASSUME NEW kind \in {"passkey", "malformed"}, AskPasskey(kind) PROVE SessionInv'
  <2>1. window \in Devices /\ Note(kind, window) \in Notes /\ Note(kind, window).kind = kind
    BY <1>4, <1>13 DEF AskPasskey, Note
  <2>2. Hears(<<Note(kind, window)>>)
    BY <1>13, TellIsHeard DEF AskPasskey
  <2> QED
    BY <1>10, <1>13, <2>1, <2>2 DEF AskPasskey
<1>14. ASSUME NEW d \in Devices, NEW s \in Slots, PairingCompletes(d, s) PROVE SessionInv'
  <2> DEFINE after == IF ~PairingStreams THEN << >>
                      ELSE IF family = "bolt" THEN <<SlotNote("paired", s, TRUE)>>
                      ELSE <<SlotNote("lock", None, TRUE)>>
             all == <<SlotNote("connected", s, TRUE)>> \o after
  <2>1. /\ occupant[s] = None /\ occupant' = [occupant EXCEPT ![s] = d]
        /\ online' = online \cup {s} /\ window' = "closed"
        /\ TellConnection(s, TRUE, after) /\ UNCHANGED <<family, flags, subscribed>>
    BY <1>14 DEF PairingCompletes
  <2>2. /\ after \in Seq(Notes)
        /\ \/ after = << >> /\ ~PairingStreams
           \/ after = <<SlotNote("paired", s, TRUE)>> /\ PairingStreams /\ family = "bolt"
           \/ after = <<SlotNote("lock", None, TRUE)>> /\ PairingStreams /\ family # "bolt"
    <3>1. /\ SlotNote("paired", s, TRUE) \in Notes /\ SlotNote("lock", None, TRUE) \in Notes
          /\ \A n \in Notes : <<n>> \in Seq(Notes)
      BY <1>4, OneNote
    <3>2. CASE ~PairingStreams
      <4>1. after = << >>
        BY <3>2
      <4> QED
        BY <1>4, <3>2, <4>1
    <3>3. CASE PairingStreams /\ family = "bolt"
      <4>1. after = <<SlotNote("paired", s, TRUE)>>
        BY <3>3
      <4> QED
        BY <3>1, <3>3, <4>1
    <3>4. CASE PairingStreams /\ family # "bolt"
      <4>1. after = <<SlotNote("lock", None, TRUE)>>
        BY <3>4
      <4> QED
        BY <3>1, <3>4, <4>1
    <3> QED
      BY <3>2, <3>3, <3>4
  <2>3. /\ wire' \in Seq(Reports)
        /\ (~Announces({"wireless"}) /\ Hears(after)) \/ Hears(all)
    BY <1>5, <2>1, <2>2
  <2>4. new \subseteq {s} /\ (subscribed => s \in new)
    <3>1. d # None /\ occupant \in [Slots -> Devices \cup {None}]
      BY <1>2, NoneIsNothing DEF ReceiverTypes
    <3> QED
      BY <2>1, <3>1 DEF new
  <2>5. PairingStreams => Announces({"wireless"})
    BY DEF PairingStreams, Announces
  <2>6. ASSUME NEW notes \in Seq(Notes), Hears(notes), subscribed => TrueNotes(notes),
               ~PairingStreams \/ \E j \in 1..Len(notes) : notes[j].slot = s /\ EndsWell(notes[j])
        PROVE  SessionInv'
    <3>1. ReceiverTypes'
      BY <1>2, <1>7, <2>1, <2>3, <2>6 DEF ReceiverTypes
    <3>2. ASSUME NEW t \in told' \ told PROVE t = s /\ subscribed /\ PairingStreams
      BY <1>1, <2>4, <3>2 DEF new
    <3> HIDE DEF after, all
    <3> QED
      BY <1>1, <1>3, <2>1, <2>6, <3>1, <3>2, OthersKeepSession
  <2>7. CASE ~PairingStreams /\ Hears(after)
    <3>1. after = << >>
      BY <2>7
    <3>2. TrueNotes(after)
      BY <3>1 DEF TrueNotes
    <3> QED
      BY <2>2, <2>6, <2>7, <3>2
  <2>8. CASE Hears(all)
    <3>1. Len(after) \in Nat /\ all \in Seq(Notes) /\ Len(all) = 1 + Len(after)
          /\ all[1] = SlotNote("connected", s, TRUE)
          /\ \A i \in 1..Len(all) : i # 1 => all[i] = after[i - 1] /\ i - 1 \in 1..Len(after)
      <4> DEFINE first == <<SlotNote("connected", s, TRUE)>>
      <4>1. /\ first \in Seq(Notes) /\ Len(first) = 1
            /\ first[1] = SlotNote("connected", s, TRUE)
        <5>1. SlotNote("connected", s, TRUE) \in Notes
          BY <1>4
        <5> QED
          BY <5>1, OneNote
      <4>2. all = first \o after
        OBVIOUS
      <4> HIDE DEF after, first, all
      <4>3. Len(after) \in Nat
        BY <2>2, LenProperties
      <4>4. after \in Seq(Notes)
        BY <2>2
      <4>5. /\ first \o after \in Seq(Notes) /\ Len(first \o after) = Len(first) + Len(after)
            /\ \A i \in 1..(Len(first) + Len(after)) : (first \o after)[i] =
                  IF i <= Len(first) THEN first[i] ELSE after[i - Len(first)]
        BY <4>1, <4>4, ConcatProperties
      <4>6. all \in Seq(Notes) /\ Len(all) = 1 + Len(after)
        BY <4>1, <4>2, <4>5
      <4>7. \A i \in 1..Len(all) : all[i] = IF i <= 1 THEN first[i] ELSE after[i - 1]
        BY <4>1, <4>2, <4>3, <4>5
      <4>8. all[1] = SlotNote("connected", s, TRUE)
        <5>1. 1 \in 1..Len(all)
          BY <4>3, <4>6
        <5>2. all[1] = first[1]
          BY <4>7, <5>1
        <5> QED
          BY <4>1, <5>2
      <4>9. \A i \in 1..Len(all) : i # 1 => i - 1 \in 1..Len(after) /\ all[i] = after[i - 1]
        BY <4>3, <4>6, <4>7
      <4> QED
        BY <4>3, <4>6, <4>8, <4>9
    <3>2. \A i \in 1..Len(after) :
              /\ Len(after) = 1 /\ i = 1 /\ PairingStreams
              /\ after[i].kind \in {"paired", "lock"}
              /\ after[i].kind = "paired" => after[i].slot = s
              /\ family = "bolt" => EndsWell(after[i]) /\ after[i].slot = s
      <4> HIDE DEF after
      <4>1. CASE after = << >>
        BY <4>1
      <4>2. CASE /\ after = <<SlotNote("paired", s, TRUE)>> /\ PairingStreams /\ family = "bolt"
        <5>1. Len(after) = 1 /\ after[1] = SlotNote("paired", s, TRUE)
          BY <4>2
        <5> QED
          BY <4>2, <5>1 DEF SlotNote, EndsWell
      <4>3. CASE /\ after = <<SlotNote("lock", None, TRUE)>> /\ PairingStreams /\ family # "bolt"
        <5>1. Len(after) = 1 /\ after[1] = SlotNote("lock", None, TRUE)
          BY <4>3
        <5> QED
          BY <4>3, <5>1 DEF SlotNote
      <4> QED
        BY <2>2, <4>1, <4>2, <4>3
    <3>3. PairingStreams => Len(after) = 1
      BY <2>2
    <3>4. all[1].kind = "connected" /\ all[1].slot = s /\ all[1].ok = TRUE
      BY <3>1 DEF SlotNote
    <3> HIDE DEF after, all
    <3>5. subscribed => s \in news'
      BY <1>1, <2>4
    <3>6. subscribed => TrueNotes(all)
      BY ZenonT(60), <3>1, <3>2, <3>4, <3>5 DEF TrueNotes
    <3>7. PairingStreams => \E j \in 1..Len(all) : all[j].slot = s /\ EndsWell(all[j])
      <4>1. CASE family = "bolt" /\ PairingStreams
        <5>1. 2 \in 1..Len(all) /\ all[2] = after[1] /\ 1 \in 1..Len(after)
          <6>1. Len(after) = 1
            BY <3>3, <4>1
          <6>2. 2 \in 1..Len(all) /\ 1 \in 1..Len(after)
            BY <3>1, <6>1
          <6>3. all[2] = after[2 - 1]
            BY <3>1, <6>2
          <6> QED
            BY <6>2, <6>3
        <5> QED
          BY <3>2, <4>1, <5>1
      <4>2. CASE family # "bolt"
        <5>1. 1 \in 1..Len(all)
          BY <3>1
        <5>2. EndsWell(all[1])
          BY <3>4, <4>2, Zenon DEF EndsWell
        <5> QED
          BY <3>4, <5>1, <5>2
      <4> QED
        BY <4>1, <4>2
    <3> QED
      BY <2>6, <2>8, <3>1, <3>6, <3>7
  <2> QED
    BY <2>3, <2>5, <2>7, <2>8
<1> QED
  BY <1>1, <1>9, <1>11, <1>12, <1>13, <1>14 DEF ReceiverActs

\* What a trigger puts on the wire: one report that each slot is up, of those
\* that are.
LEMMA SlotsInOrder ==
    ASSUME NEW again \in SUBSET Slots
    PROVE  LET order == CHOOSE q \in [1..Cardinality(again) -> again] :
                            {q[i] : i \in DOMAIN q} = again
           IN  /\ Cardinality(again) \in Nat /\ order \in [1..Cardinality(again) -> again]
               /\ {order[i] : i \in DOMAIN order} = again
<1>1. Cardinality(again) \in Nat /\ ExistsBijection(1..Cardinality(again), again)
  <2>1. IsFiniteSet(again)
    BY SlotsAreFinite, FS_Subset
  <2> QED
    BY <2>1, FS_CardinalityType
<1>2. PICK q \in [1..Cardinality(again) -> again] :
          \A t \in again : \E i \in 1..Cardinality(again) : q[i] = t
  BY <1>1 DEF ExistsBijection, Bijection, Surjection
<1>3. {q[i] : i \in DOMAIN q} = again
  BY <1>2
<1> QED
  BY <1>1, <1>3

AgainReports(reports, outcome) ==
    /\ \A i \in 1..Len(reports) :
          /\ reports[i].slot \in online /\ reports[i].up = TRUE
          /\ reports[i].cause = IF outcome = "answered" THEN "echo" ELSE "stray"
    /\ \A s \in online : \E i \in 1..Len(reports) : reports[i].slot = s

LEMMA TriggerSays ==
    ASSUME ReceiverTypes, NEW outcome \in Outcomes, Trigger(outcome)
    PROVE  IF Applied(outcome) /\ Announces({"wireless"})
           THEN /\ UNCHANGED silent
                /\ \E reports \in Seq(Reports), notes \in Seq(Notes) :
                      /\ wire' = wire \o reports /\ AgainReports(reports, outcome)
                      /\ Hears(notes) /\ \A i \in 1..Len(notes) : notes[i].kind = "connected"
           ELSE /\ UNCHANGED <<wire, inbound>>
                /\ silent' = IF Announces({"wireless"}) THEN silent ELSE silent \cup online
<1>1. CASE ~(Applied(outcome) /\ Announces({"wireless"}))
  BY <1>1 DEF Trigger
<1>2. CASE Applied(outcome) /\ Announces({"wireless"})
  <2> DEFINE again == {s \in Slots : s \in online}
             order == CHOOSE q \in [1..Cardinality(again) -> again] :
                          {q[i] : i \in DOMAIN q} = again
             cause == IF outcome = "answered" THEN "echo" ELSE "stray"
             reports == [i \in DOMAIN order |-> Report(order[i], TRUE, cause)]
             notes == [i \in DOMAIN order |-> SlotNote("connected", order[i], TRUE)]
  <2>1. wire' = wire \o reports /\ Tell(notes) /\ UNCHANGED silent
    BY <1>2 DEF Trigger
  <2>2. /\ Cardinality(again) \in Nat /\ order \in [1..Cardinality(again) -> again]
        /\ {order[i] : i \in DOMAIN order} = again
    BY SlotsInOrder
  <2>3. again = online /\ online \subseteq Slots
    BY DEF ReceiverTypes
  <2> DEFINE n == Cardinality(again)
  <2> HIDE DEF again, order
  <2>4. /\ DOMAIN order = 1..n /\ n \in Nat
        /\ \A i \in 1..n : order[i] \in online
        /\ \A s \in online : \E i \in 1..n : order[i] = s
    BY <2>2, <2>3
  <2>5. cause \in {"echo", "stray"}
    OBVIOUS
  <2> HIDE DEF cause, n
  <2>6. /\ reports \in Seq(Reports) /\ Len(reports) = n
        /\ \A i \in 1..n : reports[i] = Report(order[i], TRUE, cause)
    <3>1. \A i \in 1..n : Report(order[i], TRUE, cause) \in Reports
      BY <2>3, <2>4, <2>5 DEF Report, Reports
    <3>2. reports = [i \in 1..n |-> Report(order[i], TRUE, cause)]
      BY <2>4
    <3> HIDE DEF reports
    <3>3. reports \in [1..n -> Reports]
      BY <3>1, <3>2
    <3>4. reports \in Seq(Reports)
      BY <2>4, <3>3, SeqDef
    <3>5. Len(reports) = n
      BY <2>4, <3>3, <3>4, LenProperties
    <3> QED
      BY <3>2, <3>4, <3>5
  <2>7. /\ notes \in Seq(Notes) /\ Len(notes) = n
        /\ \A i \in 1..n : notes[i] = SlotNote("connected", order[i], TRUE)
    <3>1. \A i \in 1..n : SlotNote("connected", order[i], TRUE) \in Notes
      BY <2>3, <2>4 DEF SlotNote, Notes
    <3>2. notes = [i \in 1..n |-> SlotNote("connected", order[i], TRUE)]
      BY <2>4
    <3> HIDE DEF notes
    <3>3. notes \in [1..n -> Notes]
      BY <3>1, <3>2
    <3>4. notes \in Seq(Notes)
      BY <2>4, <3>3, SeqDef
    <3>5. Len(notes) = n
      BY <2>4, <3>3, <3>4, LenProperties
    <3> QED
      BY <3>2, <3>4, <3>5
  <2> HIDE DEF reports, notes
  <2>8. AgainReports(reports, outcome)
    BY <2>4, <2>6 DEF AgainReports, Report, cause
  <2>9. \A i \in 1..Len(notes) : notes[i].kind = "connected"
    BY <2>7 DEF SlotNote
  <2>10. Hears(notes)
    BY <2>1, TellIsHeard
  <2> QED
    BY <1>2, <2>1, <2>6, <2>7, <2>8, <2>9, <2>10
<1> QED
  BY <1>1, <1>2

LEMMA InventoryKeepsSession == ASSUME SessionInv, Inventory PROVE SessionInv'
<1>1. UNCHANGED sessionVars /\ UNCHANGED <<news, told>> /\ ReceiverTypes /\ PairingTypes
  BY DEF Inventory, pairingVars, SessionInv
<1>2. PairingTypes'
  BY <1>1 DEF PairingTypes, sessionVars
<1>3. ASSUME UNCHANGED <<family, window, occupant, online, subscribed, inbound>>,
             flags' \subseteq {"wireless", "software"}, wire' \in Seq(Reports)
      PROVE  SessionInv'
  <2>1. ReceiverTypes'
    BY <1>1, <1>3 DEF ReceiverTypes
  <2>2. << >> \in Seq(Notes) /\ Hears(<< >>) /\ TrueNotes(<< >>)
    BY <1>1, <1>3, ConcatEmptySeq DEF Hears, TrueNotes, ReceiverTypes
  <2> QED
    BY <1>1, <1>2, <1>3, <2>1, <2>2, OthersKeepSession
<1>4. UNCHANGED receiverVars => SessionInv'
  BY <1>1, <1>3 DEF receiverVars, ReceiverTypes
<1>5. CASE StartPass
  BY <1>4, <1>5 DEF StartPass
<1>6. CASE Deliver
  <2>1. /\ wire # << >> /\ wire' = Tail(wire)
        /\ UNCHANGED <<family, flags, window, occupant, online, subscribed, inbound>>
    BY <1>6 DEF Deliver
  <2>2. wire' \in Seq(Reports)
    BY <1>1, <2>1, HeadTailProperties DEF ReceiverTypes
  <2> QED
    BY <1>1, <1>3, <2>1, <2>2 DEF ReceiverTypes
<1>7. ASSUME NEW outcome \in Outcomes, Count(outcome) PROVE SessionInv'
  BY <1>4, <1>7 DEF Count
<1>8. ASSUME NEW outcome \in Outcomes, EnableBolt(outcome) PROVE SessionInv'
  <2>1. flags' \subseteq {"wireless", "software"} /\ UNCHANGED wire /\ UNCHANGED beside
    BY <1>1, <1>8 DEF EnableBolt, ReceiverTypes
  <2> QED
    BY <1>1, <1>3, <2>1 DEF beside, ReceiverTypes
<1>9. ASSUME NEW outcome \in Outcomes, Trigger(outcome) PROVE SessionInv'
  <2>1. UNCHANGED <<family, flags, window, occupant, online, subscribed>>
    BY <1>9 DEF Trigger
  <2>2. CASE Applied(outcome) /\ Announces({"wireless"})
    <3>1. PICK reports \in Seq(Reports), notes \in Seq(Notes) :
              /\ wire' = wire \o reports
              /\ Hears(notes) /\ \A i \in 1..Len(notes) : notes[i].kind = "connected"
      BY <1>1, <1>9, <2>2, TriggerSays
    <3>2. ReceiverTypes' /\ TrueNotes(notes)
      BY <1>1, <2>1, <3>1, ConcatProperties DEF ReceiverTypes, Hears, TrueNotes
    <3> QED
      BY <1>1, <1>2, <2>1, <3>1, <3>2, OthersKeepSession
  <2>3. CASE ~(Applied(outcome) /\ Announces({"wireless"}))
    <3>1. UNCHANGED <<wire, inbound>>
      BY <1>1, <1>9, <2>3, TriggerSays
    <3> QED
      BY <1>1, <1>3, <2>1, <3>1 DEF ReceiverTypes
  <2> QED
    BY <2>2, <2>3
<1>10. CASE DrainEnds
  BY <1>4, <1>10 DEF DrainEnds
<1>11. ASSUME NEW outcome \in Outcomes, NEW raced \in BOOLEAN, EnableUnifying(outcome, raced)
       PROVE  SessionInv'
  <2>1. flags' \subseteq {"wireless", "software"} /\ UNCHANGED wire /\ UNCHANGED beside
    BY <1>1, <1>11 DEF EnableUnifying, ReceiverTypes
  <2> QED
    BY <1>1, <1>3, <2>1 DEF beside, ReceiverTypes
<1>12. CASE Release
  BY <1>4, <1>12 DEF Release
<1>13. ASSUME NEW s \in Slots, NEW outcome \in Outcomes, ReadSlot(s, outcome) PROVE SessionInv'
  BY <1>4, <1>13 DEF ReadSlot
<1>14. CASE Settle
  BY <1>4, <1>14 DEF Settle
<1> QED
  BY <1>5, <1>6, <1>7, <1>8, <1>9, <1>10, <1>11, <1>12, <1>13, <1>14 DEF Inventory, PassSteps

LEMMA UnpairKeepsSession == ASSUME SessionInv, RemoveDevice PROVE SessionInv'
<1>1. PICK s \in Slots : Unpair(s)
  BY DEF RemoveDevice
<1>2. /\ occupant' = [occupant EXCEPT ![s] = None] /\ online' = online \ {s}
      /\ UNCHANGED <<family, flags, window, subscribed, inbound, wire, pairingVars>>
  BY <1>1 DEF Unpair
<1>3. ReceiverTypes /\ PairingTypes /\ UNCHANGED sessionVars /\ UNCHANGED <<news, told>>
  BY <1>2 DEF SessionInv, pairingVars
<1>4. ReceiverTypes'
  BY <1>2, <1>3 DEF ReceiverTypes
<1>5. PairingTypes'
  BY <1>3 DEF PairingTypes, sessionVars
<1>6. << >> \in Seq(Notes) /\ Hears(<< >>) /\ TrueNotes(<< >>)
  BY <1>2, <1>3, ConcatEmptySeq DEF Hears, TrueNotes, ReceiverTypes
<1> QED
  BY <1>2, <1>3, <1>4, <1>5, <1>6, OthersKeepSession

\* The session's own steps fill no slot and leave the receiver's notes but for
\* the one it reads.
LEMMA OwnStepKeeps ==
    ASSUME SessionInv, ReceiverTypes', PairingTypes', SessionShape', WindowIsOurs',
           UNCHANGED <<family, inbound, partial, shown, reported, news, told>>,
           result = "paired" => result' = "paired"
    PROVE  SessionInv'
<1>1. /\ FramesAreOwn /\ NotesAreTrue /\ NewsArrive /\ FoundIsWhole
      /\ (reported # None /\ family = "bolt" => reported \in news)
  BY DEF SessionInv
<1>2. FramesAreOwn' /\ FoundIsWhole' /\ NotesAreTrue'
  BY <1>1 DEF FramesAreOwn, FoundIsWhole, NotesAreTrue, Counters
<1>3. NewsArrive'
  BY <1>1 DEF NewsArrive, EndsWell
<1> QED
  BY <1>1, <1>2, <1>3 DEF SessionInv

LEMMA FirstPhaseOpens ==
    ASSUME ReceiverTypes
    PROVE  /\ FirstPhase \in {"discovery", "lock"} /\ FirstPhase \in Closes(FirstPhase)
           /\ Closes("pairing") = Devices
  BY DEF ReceiverTypes, FirstPhase, Closes

LEMMA StartsKeepSession ==
    ASSUME SessionInv,
           \/ NoReceiver \/ Begin \/ Deadline \/ UserCancels
           \/ \E o \in Outcomes : WriteFlags(o) \/ OpenWindow(o) \/ WriteCancel(o) \/ WriteClear(o)
    PROVE  SessionInv'
<1>1. /\ ReceiverTypes /\ PairingTypes /\ SessionShape /\ WindowIsOurs
  BY DEF SessionInv
<1> USE DEF sessionVars, receiverVars
<1>2. CASE NoReceiver
  <2>1. /\ pc = "idle" /\ pc' = "done" /\ result' \in {"hid", "notfound"}
        /\ UNCHANGED <<receiverVars, phase, picked, partial, emitted, shown, reported,
                       refused, news, told>>
    BY <1>2 DEF NoReceiver
  <2>2. ReceiverTypes' /\ PairingTypes'
    BY <1>1, <2>1 DEF ReceiverTypes, PairingTypes, Failures, Counters
  <2>3. SessionShape' /\ WindowIsOurs'
    BY <1>1, <2>1 DEF SessionShape, WindowIsOurs, Failures
  <2> QED
    BY <1>1, <2>1, <2>2, <2>3, OwnStepKeeps DEF SessionShape
<1>3. CASE Begin
  <2>1. /\ pc = "idle" /\ pc' = "flags" /\ phase' = FirstPhase /\ subscribed' = TRUE
        /\ UNCHANGED <<family, flags, window, occupant, online, inbound, wire, picked, partial,
                       emitted, shown, result, reported, refused, news, told>>
    BY <1>3 DEF Begin
  <2>2. ReceiverTypes' /\ PairingTypes'
    BY <1>1, <2>1, FirstPhaseOpens DEF ReceiverTypes, PairingTypes, Counters
  <2>3. SessionShape' /\ WindowIsOurs'
    BY <1>1, <2>1 DEF SessionShape, WindowIsOurs, FirstPhase
  <2> QED
    BY <1>1, <2>1, <2>2, <2>3, OwnStepKeeps DEF SessionShape
<1>4. CASE Deadline \/ UserCancels
  <2>1. /\ pc = "loop" /\ pc' = "cancel" /\ result' \in {"timeout", "cancelled"}
        /\ UNCHANGED <<receiverVars, phase, picked, partial, emitted, shown, reported,
                       refused, news, told>>
    BY <1>4 DEF Deadline, UserCancels, Fail
  <2>2. ReceiverTypes' /\ PairingTypes'
    BY <1>1, <2>1 DEF ReceiverTypes, PairingTypes, Failures, Counters
  <2>3. SessionShape' /\ WindowIsOurs'
    BY <1>1, <2>1 DEF SessionShape, WindowIsOurs, Closes, Failures
  <2> QED
    BY <1>1, <2>1, <2>2, <2>3, OwnStepKeeps DEF SessionShape
<1>5. ASSUME NEW o \in Outcomes, WriteFlags(o) PROVE SessionInv'
  <2>1. /\ pc = "flags"
        /\ flags' \in {flags, {"wireless", "software"}}
        /\ \/ pc' = "open" /\ UNCHANGED result
           \/ pc' = "cancel" /\ result' = "register"
        /\ UNCHANGED <<family, window, occupant, online, subscribed, inbound, wire, phase, picked,
                       partial, emitted, shown, reported, refused, news, told>>
    BY <1>5 DEF WriteFlags, Fail
  <2>2. ReceiverTypes' /\ PairingTypes'
    BY <1>1, <2>1 DEF ReceiverTypes, PairingTypes, Failures, Counters
  <2>3. SessionShape' /\ WindowIsOurs'
    BY <1>1, <2>1 DEF SessionShape, WindowIsOurs, Closes, FirstPhase, Failures
  <2> QED
    BY <1>1, <2>1, <2>2, <2>3, OwnStepKeeps DEF SessionShape
<1>6. ASSUME NEW o \in Outcomes, OpenWindow(o) PROVE SessionInv'
  <2>1. /\ pc = "open"
        /\ window' \in {window, FirstPhase}
        /\ \/ pc' = "loop" /\ UNCHANGED result
           \/ pc' = "cancel" /\ result' = "register"
        /\ UNCHANGED <<family, flags, occupant, online, subscribed, inbound, wire, phase, picked,
                       partial, emitted, shown, reported, refused, news, told>>
    BY <1>6 DEF OpenWindow, Fail
  <2>2. ReceiverTypes' /\ PairingTypes'
    BY <1>1, <2>1, FirstPhaseOpens DEF ReceiverTypes, PairingTypes, Failures, Counters
  <2>3. phase = FirstPhase /\ window = "closed"
    BY <1>1, <2>1 DEF SessionShape, WindowIsOurs
  <2>4. SessionShape'
    BY <1>1, <2>1 DEF SessionShape, FirstPhase, Failures
  <2>5. window' \in Closes(phase') \cup {"closed"}
    BY <1>1, <2>1, <2>3, FirstPhaseOpens
  <2>6. WindowIsOurs'
    BY <2>1, <2>5 DEF WindowIsOurs
  <2> QED
    BY <1>1, <2>1, <2>2, <2>4, <2>6, OwnStepKeeps DEF SessionShape
<1>7. ASSUME NEW o \in Outcomes, WriteCancel(o) PROVE SessionInv'
  <2>1. /\ pc = "cancel" /\ pc' = "clear"
        /\ window' = IF Applied(o) /\ window \in Closes(phase) THEN "closed" ELSE window
        /\ refused' = IF Applied(o) THEN refused ELSE refused \cup {"cancel"}
        /\ UNCHANGED <<family, flags, occupant, online, subscribed, inbound, wire, phase, picked,
                       partial, emitted, shown, result, reported, news, told>>
    BY <1>7 DEF WriteCancel, Refuse
  <2>2. ReceiverTypes' /\ PairingTypes'
    BY <1>1, <2>1 DEF ReceiverTypes, PairingTypes, Counters
  <2>3. SessionShape'
    BY <1>1, <2>1 DEF SessionShape, Failures
  <2>4. refused' = {} => Applied(o) /\ refused = {}
    BY <2>1
  <2>5. WindowIsOurs'
    BY <1>1, <2>1, <2>4 DEF WindowIsOurs
  <2> QED
    BY <1>1, <2>1, <2>2, <2>3, <2>5, OwnStepKeeps DEF SessionShape
<1>8. ASSUME NEW o \in Outcomes, WriteClear(o) PROVE SessionInv'
  <2>1. /\ pc = "clear" /\ pc' = "done" /\ subscribed' = FALSE /\ flags' \in {flags, {}}
        /\ UNCHANGED <<family, window, occupant, online, inbound, wire, phase, picked, partial,
                       emitted, shown, result, reported, refused, news, told>>
    BY <1>8 DEF WriteClear
  <2>2. ReceiverTypes' /\ PairingTypes'
    BY <1>1, <2>1 DEF ReceiverTypes, PairingTypes, Counters
  <2>3. SessionShape' /\ WindowIsOurs'
    BY <1>1, <2>1 DEF SessionShape, WindowIsOurs, Failures
  <2> QED
    BY <1>1, <2>1, <2>2, <2>3, OwnStepKeeps DEF SessionShape
<1> QED
  BY <1>2, <1>3, <1>4, <1>5, <1>6, <1>7, <1>8

LEMMA PicksKeepSession ==
    ASSUME SessionInv, \/ \E d \in Devices : Pick(d)
                       \/ \E o \in Outcomes : WritePair(o)
    PROVE  SessionInv'
<1>1. /\ ReceiverTypes /\ PairingTypes /\ SessionShape /\ WindowIsOurs
  BY DEF SessionInv
<1>2. ASSUME NEW d \in Devices, Pick(d) PROVE SessionInv'
  <2>1. /\ pc = "loop"
        /\ UNCHANGED <<family, flags, window, occupant, online, subscribed, inbound, wire,
                       partial, emitted, shown, reported, refused, news, told>>
    BY <1>2 DEF Pick, receiverVars
  <2>2. CASE family = "bolt"
    <3>1. picked' = d /\ phase' = "pairing" /\ pc' = "pair" /\ UNCHANGED result
      BY <1>2, <2>2 DEF Pick
    <3>2. ReceiverTypes' /\ PairingTypes'
      BY <1>1, <2>1, <3>1 DEF ReceiverTypes, PairingTypes, Counters
    <3>3. SessionShape' /\ WindowIsOurs'
      BY <1>1, <2>1, <3>1 DEF SessionShape, WindowIsOurs
    <3> QED
      BY <1>1, <2>1, <3>1, <3>2, <3>3, OwnStepKeeps
  <2>3. CASE family # "bolt"
    <3>1. pc' = "cancel" /\ result' = "unsupported" /\ UNCHANGED <<picked, phase>>
      BY <1>2, <2>3 DEF Pick, Fail
    <3>2. ReceiverTypes' /\ PairingTypes'
      BY <1>1, <2>1, <3>1 DEF ReceiverTypes, PairingTypes, Failures, Counters
    <3>3. SessionShape' /\ WindowIsOurs'
      BY <1>1, <2>1, <3>1 DEF SessionShape, WindowIsOurs, Closes, Failures
    <3> QED
      BY <1>1, <2>1, <3>1, <3>2, <3>3, OwnStepKeeps DEF SessionShape
  <2> QED
    BY <2>2, <2>3
<1>3. ASSUME NEW o \in Outcomes, WritePair(o) PROVE SessionInv'
  <2>1. /\ pc = "pair" /\ window' = IF Applied(o) THEN picked ELSE window
        /\ \/ pc' = "loop" /\ UNCHANGED result
           \/ pc' = "cancel" /\ result' = "register"
        /\ refused' = IF Applied(o) THEN refused ELSE refused \cup {"pair"}
        /\ UNCHANGED <<family, flags, occupant, online, subscribed, inbound, wire, phase,
                       picked, partial, emitted, shown, reported, news, told>>
    BY <1>3 DEF WritePair, Refuse, Fail
  <2>2. picked \in Devices /\ phase = "pairing"
    BY <1>1, <2>1 DEF SessionShape
  <2>3. ReceiverTypes' /\ PairingTypes'
    BY <1>1, <2>1, <2>2 DEF ReceiverTypes, PairingTypes, Failures, Counters
  <2>4. SessionShape'
    BY <1>1, <2>1 DEF SessionShape, Failures
  <2>5. "pair" \notin refused' => window' \in Closes(phase')
    BY <2>1, <2>2 DEF Closes
  <2>6. WindowIsOurs'
    BY <2>1, <2>5 DEF WindowIsOurs
  <2> QED
    BY <1>1, <2>1, <2>3, <2>4, <2>6, OwnStepKeeps DEF SessionShape
<1> QED
  BY <1>2, <1>3

LEMMA ReadsKeepSession == ASSUME SessionInv, ReadNote PROVE SessionInv'
<1> DEFINE n == Head(inbound)
<1>1. /\ ReceiverTypes /\ PairingTypes /\ SessionShape /\ WindowIsOurs /\ FramesAreOwn
      /\ NotesAreTrue /\ NewsArrive /\ FoundIsWhole
      /\ (reported # None /\ family = "bolt" => reported \in news)
  BY DEF SessionInv
<1>2. /\ pc = "loop" /\ inbound # << >> /\ inbound' = Tail(inbound)
      /\ UNCHANGED <<family, flags, window, occupant, online, subscribed, wire, phase, picked,
                     refused, news, told>>
  BY DEF ReadNote
<1>3. /\ inbound \in Seq(Notes) /\ n = inbound[1] /\ 1 \in 1..Len(inbound)
      /\ inbound' \in Seq(Notes) /\ Len(inbound') = Len(inbound) - 1
      /\ \A i \in 1..Len(inbound') : inbound'[i] = inbound[i + 1] /\ i + 1 \in 1..Len(inbound)
      /\ \A i \in 1..Len(inbound) : i # 1 => i - 1 \in 1..Len(inbound')
                                            /\ inbound'[i - 1] = inbound[i]
  BY <1>1, <1>2 DEF ReceiverTypes
<1> HIDE DEF n
<1>4. /\ n \in Notes /\ (n.kind \in {"info", "name"} => n.dev \in Devices)
      /\ (n.kind = "paired" => n.slot \in news)
  BY <1>1, <1>3 DEF NotesAreTrue
<1>5. ReceiverTypes'
  BY <1>1, <1>2, <1>3 DEF ReceiverTypes
<1>6. NotesAreTrue'
  BY <1>1, <1>2, <1>3 DEF NotesAreTrue
<1>7. result = "none" /\ phase \in {"discovery", "pairing", "lock"}
  BY <1>1, <1>2 DEF SessionShape, PairingTypes
<1>8. ASSUME ~EndsWell(n) PROVE NewsArrive'
  <2> SUFFICES ASSUME NEW s \in told'
               PROVE  \E i \in 1..Len(inbound') : inbound'[i].slot = s /\ EndsWell(inbound[i])'
    BY DEF NewsArrive
  <2>1. PICK i \in 1..Len(inbound) : inbound[i].slot = s /\ EndsWell(inbound[i])
    BY <1>1, <1>2, <1>7 DEF NewsArrive
  <2>2. i # 1
    BY <1>3, <1>8, <2>1
  <2>3. i - 1 \in 1..Len(inbound') /\ inbound'[i - 1] = inbound[i]
    BY <1>3, <2>2
  <2>4. inbound'[i - 1].slot = s /\ EndsWell(inbound[i - 1])'
    BY <1>2, <2>1, <2>3 DEF EndsWell
  <2> QED
    BY <2>3, <2>4
<1>9. CASE n.kind \in {"info", "name"}
  <2> DEFINE c == n.dev
             entry == [partial[c] EXCEPT ![n.kind] = c]
  <2>1. /\ partial' = [partial EXCEPT ![c] = entry]
        /\ \/ UNCHANGED <<shown, emitted>>
           \/ /\ None \notin {entry.info, entry.name}
              /\ shown' = shown \cup {<<entry.info, entry.name>>}
              /\ emitted' = emitted \cup {c}
        /\ UNCHANGED <<pc, result, reported>>
    BY <1>9 DEF ReadNote, TakeFrame, CounterOf, n
  <2>2. /\ c \in Devices /\ partial[c] \in [info : Devices \cup {None}, name : Devices \cup {None}]
        /\ partial[c].info \in {None, c} /\ partial[c].name \in {None, c}
    BY <1>1, <1>4, <1>9 DEF PairingTypes, FramesAreOwn, Counters
  <2> HIDE DEF c
  <2>3. /\ entry \in [info : Devices \cup {None}, name : Devices \cup {None}]
        /\ entry.info \in {None, c} /\ entry.name \in {None, c}
    BY <1>9, <2>2
  <2> HIDE DEF entry
  <2>4. FramesAreOwn'
    BY <1>1, <2>1, <2>2, <2>3 DEF FramesAreOwn, Counters, PairingTypes
  <2>5. /\ shown' \subseteq Devices \X Devices /\ emitted' \subseteq Counters
        /\ \A e \in shown' : e[1] = e[2]
    BY <1>1, <2>1, <2>2, <2>3 DEF PairingTypes, FoundIsWhole, Counters
  <2>6. PairingTypes'
    BY <1>1, <1>2, <2>1, <2>2, <2>3, <2>5 DEF PairingTypes, Counters
  <2>7. SessionShape' /\ WindowIsOurs'
    BY <1>1, <1>2, <2>1 DEF SessionShape, WindowIsOurs, FirstPhase, Closes
  <2>8. NewsArrive'
    BY <1>8, <1>9 DEF EndsWell
  <2> QED
    BY <1>1, <1>2, <1>5, <1>6, <2>1, <2>4, <2>5, <2>6, <2>7, <2>8 DEF SessionInv, FoundIsWhole
<1>10. CASE n.kind \notin {"info", "name"}
  <2>1. TakeNote(n) /\ UNCHANGED <<partial, emitted, shown>>
    BY <1>10 DEF ReadNote, TakeNote, n
  <2>2. FramesAreOwn' /\ FoundIsWhole'
    BY <1>1, <2>1 DEF FramesAreOwn, FoundIsWhole, Counters
  <2>3. CASE \/ n.kind = "paired"
             \/ n.kind = "connected" /\ CountsAsPaired(n)
    <3>1. pc' = "clear" /\ result' = "paired" /\ reported' = n.slot
      BY <2>1, <2>3 DEF TakeNote, EndWith
    <3>2. PairingTypes'
      BY <1>1, <1>2, <1>4, <2>1, <3>1 DEF PairingTypes, Notes, Counters
    <3>3. SessionShape' /\ WindowIsOurs'
      BY <1>1, <1>2, <3>1 DEF SessionShape, WindowIsOurs, Failures
    <3>4. NewsArrive' /\ (reported # None /\ family = "bolt" => reported \in news)'
      BY <1>2, <1>4, <2>3, <3>1 DEF NewsArrive, CountsAsPaired
    <3> QED
      BY <1>5, <1>6, <2>2, <3>2, <3>3, <3>4 DEF SessionInv
  <2>4. CASE ~(\/ n.kind = "paired"
               \/ n.kind = "connected" /\ CountsAsPaired(n))
    <3>1. /\ UNCHANGED reported
          /\ \/ pc' = "cancel" /\ result' \in {"malformed", "device", "timeout"}
             \/ UNCHANGED <<pc, result>>
      <4>1. CASE n.kind = "malformed"
        BY <2>1, <2>4, <4>1 DEF TakeNote, Fail
      <4>2. CASE n.kind = "error"
        BY <2>1, <2>4, <4>2 DEF TakeNote, Fail
      <4>3. CASE n.kind = "lock"
        BY <2>1, <2>4, <4>3 DEF TakeNote, Fail
      <4>4. CASE n.kind \notin {"malformed", "error", "lock"}
        BY <2>1, <2>4, <4>4 DEF TakeNote
      <4> QED
        BY <4>1, <4>2, <4>3, <4>4
    <3>2. PairingTypes'
      BY <1>1, <1>2, <2>1, <3>1 DEF PairingTypes, Failures, Counters
    <3>3. SessionShape' /\ WindowIsOurs'
      BY <1>1, <1>2, <3>1 DEF SessionShape, WindowIsOurs, Failures, FirstPhase, Closes
    <3>4. ~EndsWell(n)
      BY <1>1, <2>4 DEF EndsWell, CountsAsPaired, ReceiverTypes
    <3> QED
      BY <1>1, <1>2, <1>5, <1>6, <1>8, <2>2, <3>1, <3>2, <3>3, <3>4 DEF SessionInv
  <2> QED
    BY <2>3, <2>4
<1> QED
  BY <1>9, <1>10

LEMMA SessionStarts == ASSUME UsersInit PROVE SessionInv
<1>1. ReceiverInit /\ PairingInit
  BY DEF UsersInit
<1>2. ReceiverTypes
  <2>1. << >> \in Seq(Notes) /\ << >> \in Seq(Reports)
    OBVIOUS
  <2>2. /\ family \in {"bolt", "unifying"} /\ flags \subseteq {"wireless", "software"}
        /\ window = "closed" /\ occupant \in [Slots -> Devices \cup {None}]
        /\ online \subseteq Slots /\ subscribed = FALSE
        /\ inbound = << >> /\ wire = << >>
    BY <1>1 DEF ReceiverInit
  <2> QED
    BY <2>1, <2>2 DEF ReceiverTypes
<1>3. PairingTypes
  BY <1>1 DEF PairingInit, PairingTypes, NoFrames
<1>4. SessionShape /\ WindowIsOurs
  BY <1>1 DEF PairingInit, ReceiverInit, SessionShape, WindowIsOurs
<1>5. FramesAreOwn /\ FoundIsWhole /\ NotesAreTrue /\ NewsArrive /\ reported = None
  BY <1>1 DEF PairingInit, ReceiverInit, FramesAreOwn, FoundIsWhole, NotesAreTrue, NewsArrive,
              NoFrames
<1> QED
  BY <1>2, <1>3, <1>4, <1>5 DEF SessionInv

LEMMA StutterKeepsSession == ASSUME SessionInv, UNCHANGED usersVars PROVE SessionInv'
<1>1. ReceiverTypes' /\ PairingTypes'
  BY DEF usersVars, receiverVars, pairingVars, sessionVars, SessionInv, ReceiverTypes,
         PairingTypes, Counters
<1>2. SessionShape' /\ WindowIsOurs'
  BY DEF usersVars, receiverVars, pairingVars, sessionVars, SessionInv, SessionShape,
         WindowIsOurs, FirstPhase, Closes
<1> QED
  BY <1>1, <1>2, OwnStepKeeps DEF usersVars, receiverVars, pairingVars, sessionVars

(* The invariant of a pairing session, whatever the receiver, inventory and *)
(* a caller who removes devices do beside it.                               *)
THEOREM SessionInvHolds == UsersSpec => []SessionInv
<1>1. UsersInit => SessionInv
  BY SessionStarts
<1>2. SessionInv /\ [UsersNext]_usersVars => SessionInv'
  <2> SUFFICES ASSUME SessionInv, [UsersNext]_usersVars PROVE SessionInv'
    OBVIOUS
  <2>1. CASE Session
    BY <2>1, StartsKeepSession, PicksKeepSession, ReadsKeepSession DEF Session, SessionSteps
  <2>2. CASE User
    BY <2>2, StartsKeepSession, PicksKeepSession DEF User, UserActs
  <2>3. CASE Expires
    BY <2>3, StartsKeepSession DEF Expires
  <2>4. CASE Device
    BY <2>4, DeviceKeepsSession DEF Device
  <2>5. CASE RemoveDevice \/ Inventory
    BY <2>5, UnpairKeepsSession, InventoryKeepsSession
  <2>6. CASE UNCHANGED usersVars
    BY <2>6, StutterKeepsSession
  <2> QED
    BY <2>1, <2>2, <2>3, <2>4, <2>5, <2>6 DEF UsersNext
<1> QED
  BY <1>1, <1>2, PTL DEF UsersSpec

(* A session that failed leaves the receiver neither discovering nor        *)
(* pairing nor with its lock open, if the receiver took its closing writes: *)
(* for any receiver, whatever else happens to it (run_session, cancel).     *)
THEOREM FailedSessionsClose == UsersSpec => []CancelClosesWindow
<1>1. SessionInv => CancelClosesWindow
  BY DEF SessionInv, WindowIsOurs, CancelClosesWindow, Ended, PairingTypes
<1> QED
  BY <1>1, SessionInvHolds, PTL

(* What a session shows its user is one device, the slot it reports got its *)
(* device in this session, and no pairing it had read of is reported as a   *)
(* failure (run_pairing's events).                                          *)
THEOREM SessionsAreTruthful == UsersSpec => []SessionTellsTheTruth
<1>1. SessionInv => SessionTellsTheTruth
  <2> SUFFICES ASSUME SessionInv PROVE SessionTellsTheTruth
    OBVIOUS
  <2>1. FoundIsWhole /\ (reported # None /\ family = "bolt" => reported \in news)
    BY DEF SessionInv
  <2>2. ASSUME NEW s \in told, Ended(Failures)
        PROVE  \E i \in 1..Len(inbound) : inbound[i].slot = s /\ inbound[i].ok
    BY <2>2 DEF SessionInv, NewsArrive, EndsWell, Ended, Failures
  <2> QED
    BY <2>1, <2>2 DEF SessionTellsTheTruth, ResultIsTrue
<1> QED
  BY <1>1, SessionInvHolds, PTL

(***************************************************************************)
(* Inventory's view.                                                       *)
(***************************************************************************)
LEMMA WireSays ==
    ASSUME NEW q \in Seq(Reports), NEW i \in 1..Len(q)
    PROVE  q[i].slot \in Slots /\ q[i].up \in BOOLEAN
<1>1. q[i] \in Reports
  OBVIOUS
<1> QED
  BY <1>1 DEF Reports

\* Everything but inventory: it may announce one slot's change, and what it
\* changes unannounced is silent.
LEMMA BesideKeepsSnapshot ==
    ASSUME SnapshotInv, ReceiverTypes, Unseen, UNCHANGED family, (online \subseteq Occupied)',
           \/ wire' = wire
           \/ \E s \in Slots : /\ wire' = Append(wire, Report(s, s \in online', "change"))
                               /\ \A t \in Slots \ {s} : t \in online' <=> t \in online
    PROVE  SnapshotInv'
<1>1. /\ UNCHANGED <<scan, depth, pending, queued, drained, counted, unread, sighted, known,
                     retry, swallowed, family>>
      /\ silent' = silent
           \cup {s \in Slots : wire' = wire /\ (s \in online) # (s \in online')}
      /\ filled' = (filled \/ /\ family = "bolt" /\ scan \notin {"idle", "count"}
                              /\ \E s \in Slots : occupant[s] = None /\ occupant'[s] # None)
  BY DEF Unseen
<1>2. /\ SnapshotTypes /\ PassShape /\ CausesAreKnown /\ WireIsFresh
      /\ QueueIsFresh /\ PassIsRight /\ FoundAreCounted
  BY DEF SnapshotInv
<1>3. wire \in Seq(Reports) /\ Len(wire) \in Nat
  BY LenProperties DEF ReceiverTypes
<1>4. SnapshotTypes'
  <2>1. filled' \in BOOLEAN
    BY <1>1, <1>2 DEF SnapshotTypes
  <2> QED
    BY <1>1, <1>2, <2>1 DEF SnapshotTypes
<1>5. PassShape'
  BY <1>1, <1>2 DEF PassShape, Listening, Nothing
\* What is on its way is what was, and perhaps one more.
<1>6. ASSUME NEW s \in Slots, wire' = Append(wire, Report(s, s \in online', "change"))
      PROVE  /\ Len(wire') = Len(wire) + 1 /\ wire' # wire
             /\ \A i \in 1..Len(wire) : wire'[i] = wire[i]
             /\ wire'[Len(wire) + 1] = Report(s, s \in online', "change")
  <2>1. Report(s, s \in online', "change") \in Reports
    <3>1. (s \in online') \in BOOLEAN
      OBVIOUS
    <3> QED
      BY <3>1 DEF Report, Reports
  <2> QED
    BY <1>3, <1>6, <2>1, AppendProperties
<1>7. ASSUME NEW t \in Slots, t \notin silent'
      PROVE  t \notin silent /\ (~InWire(t)' => ~InWire(t) /\ (t \in online' <=> t \in online))
  <2>1. t \notin silent
    BY <1>1, <1>7
  <2>2. CASE wire' = wire
    BY <1>1, <1>7, <2>1, <2>2 DEF InWire
  <2>3. ASSUME NEW s \in Slots, wire' = Append(wire, Report(s, s \in online', "change")),
               \A u \in Slots \ {s} : u \in online' <=> u \in online, ~InWire(t)'
        PROVE  ~InWire(t) /\ (t \in online' <=> t \in online)
    <3>1. \A i \in 1..Len(wire) + 1 : wire'[i].slot # t
      BY <1>3, <1>6, <2>3 DEF InWire
    <3>2. t # s
      <4>1. wire'[Len(wire) + 1].slot = s
        BY <1>6, <2>3 DEF Report
      <4> QED
        BY <1>3, <3>1, <4>1
    <3>3. ~InWire(t)
      BY <1>3, <1>6, <2>3, <3>1 DEF InWire
    <3> QED
      BY <2>3, <3>2, <3>3
  <2> QED
    BY <2>1, <2>2, <2>3
<1>8. CausesAreKnown'
  <2>1. CASE wire' = wire
    BY <1>1, <1>2, <2>1 DEF CausesAreKnown
  <2>2. ASSUME NEW s \in Slots, wire' = Append(wire, Report(s, s \in online', "change"))
        PROVE  CausesAreKnown'
    <3>1. \A i \in 1..Len(wire') : i \in 1..Len(wire) \/ i = Len(wire) + 1
      BY <1>3, <1>6, <2>2
    <3>2. wire'[Len(wire) + 1].cause = "change"
      BY <1>6, <2>2 DEF Report
    <3> QED
      BY <1>1, <1>2, <1>6, <2>2, <3>1, <3>2 DEF CausesAreKnown
  <2> QED
    BY <2>1, <2>2
<1>9. WireIsFresh'
  <2>1. CASE wire' = wire
    <3>1. \A i \in 1..Len(wire) : wire[i].slot \in Slots
      BY <1>3, WireSays
    <3> QED
      BY <1>1, <1>2, <2>1, <3>1 DEF WireIsFresh
  <2>2. ASSUME NEW s \in Slots, wire' = Append(wire, Report(s, s \in online', "change")),
               \A u \in Slots \ {s} : u \in online' <=> u \in online
        PROVE  WireIsFresh'
    <3> SUFFICES ASSUME NEW i \in 1..Len(wire'), wire'[i].slot \notin silent',
                        \A j \in 1..Len(wire') : wire'[j].slot = wire'[i].slot => j <= i
                 PROVE  wire'[i].up <=> wire'[i].slot \in online'
      BY DEF WireIsFresh
    <3>1. CASE i = Len(wire) + 1
      <4>1. wire'[i] = Report(s, s \in online', "change")
        BY <1>6, <2>2, <3>1
      <4>2. wire'[i].slot = s /\ wire'[i].up = (s \in online')
        BY <4>1 DEF Report
      <4> QED
        BY <4>2
    <3>2. CASE i \in 1..Len(wire)
      <4>1. wire'[i] = wire[i] /\ wire[i] \in Reports
        BY <1>3, <1>6, <2>2, <3>2
      <4>2. wire[i].slot \in Slots /\ wire[i].slot \notin silent
        BY <1>1, <4>1 DEF Reports
      <4>3. wire[i].slot # s
        <5>1. wire'[Len(wire) + 1].slot = s /\ Len(wire) + 1 \in 1..Len(wire')
          BY <1>3, <1>6, <2>2 DEF Report
        <5> QED
          BY <1>3, <3>2, <4>1, <5>1
      <4>4. \A j \in 1..Len(wire) : wire[j].slot = wire[i].slot => j <= i
        BY <1>3, <1>6, <2>2, <4>1
      <4>5. wire[i].up <=> wire[i].slot \in online
        BY <1>2, <3>2, <4>2, <4>4 DEF WireIsFresh
      <4> QED
        BY <2>2, <4>1, <4>2, <4>3, <4>5
    <3> QED
      BY <1>3, <1>6, <2>2, <3>1, <3>2
  <2> QED
    BY <2>1, <2>2
<1>10. QueueIsFresh'
  BY <1>1, <1>2, <1>7 DEF QueueIsFresh, Listening
<1>11. PassIsRight'
  <2> SUFFICES ASSUME NEW s \in (Slots \ (silent \cup swallowed))', ~InWire(s)'
               PROVE  (/\ scan = "idle" /\ ~pending /\ ~retry => (s \in known <=> s \in online)
                       /\ scan \in {"drain", "notify", "redrain", "release"} =>
                              (drained[s] = "up" <=> s \in online)
                       /\ scan = "slots" /\ ~pending =>
                              IF family = "unifying" THEN s \in sighted.up <=> s \in online
                              ELSE /\ drained[s] = "up" => s \in online
                                   /\ drained[s] = "down" => s \notin online
                                   /\ s \in sighted.found =>
                                         (s \in sighted.up <=> s \in online))'
    BY DEF PassIsRight
  <2>1. s \in Slots \ (silent \cup swallowed) /\ ~InWire(s) /\ (s \in online' <=> s \in online)
    BY <1>1, <1>7
  <2> QED
    BY <1>1, <1>2, <2>1 DEF PassIsRight
<1>12. FoundAreCounted'
  <2> SUFFICES ASSUME family = "bolt", scan \notin {"idle", "count"}, counted # None, ~filled'
               PROVE  \E C \in SUBSET Slots : /\ Cardinality(C) = counted
                                              /\ (Occupied \cup sighted.found)' \subseteq C
    BY <1>1 DEF FoundAreCounted
  <2>1. ~filled /\ \A s \in Slots : occupant[s] = None => occupant'[s] = None
    BY <1>1
  <2>2. Occupied' \subseteq Occupied
    BY <2>1 DEF Occupied
  <2>3. PICK C \in SUBSET Slots : Cardinality(C) = counted /\ Occupied \cup sighted.found \subseteq C
    BY <1>2, <2>1 DEF FoundAreCounted
  <2> QED
    BY <1>1, <2>2, <2>3
<1> QED
  BY <1>4, <1>5, <1>8, <1>9, <1>10, <1>11, <1>12 DEF SnapshotInv

\* The session, its user and its deadline leave the slots alone; the receiver
\* and a caller who removes a device change one slot.
LEMMA OthersKeepSnapshot ==
    ASSUME SnapshotInv, ReceiverTypes, Session \/ User \/ Expires \/ Device \/ RemoveDevice
    PROVE  SnapshotInv'
<1>1. Unseen /\ online \subseteq Occupied /\ occupant \in [Slots -> Devices \cup {None}]
  BY DEF Session, User, Expires, Device, RemoveDevice, SnapshotInv, ReceiverTypes
<1>2. ASSUME UNCHANGED <<family, occupant, online, wire>> PROVE SnapshotInv'
  <2>1. (online \subseteq Occupied)'
    BY <1>1, <1>2 DEF Occupied
  <2> QED
    BY <1>1, <1>2, <2>1, BesideKeepsSnapshot
<1>3. CASE Session \/ User \/ Expires
  <2>1. UNCHANGED <<family, occupant, online, wire>>
    <3>1. CASE NoReceiver \/ Begin \/ Deadline
      BY <3>1 DEF NoReceiver, Begin, Deadline, receiverVars
    <3>2. ASSUME NEW o \in Outcomes, WriteFlags(o) \/ OpenWindow(o) \/ WritePair(o)
          PROVE  UNCHANGED <<family, occupant, online, wire>>
      BY <3>2 DEF WriteFlags, OpenWindow, WritePair
    <3>3. CASE ReadNote
      BY <3>3 DEF ReadNote
    <3>4. ASSUME NEW o \in Outcomes, WriteCancel(o) \/ WriteClear(o)
          PROVE  UNCHANGED <<family, occupant, online, wire>>
      BY <3>4 DEF WriteCancel, WriteClear
    <3>5. CASE UserActs
      BY <3>5 DEF UserActs, UserCancels, Pick, receiverVars
    <3> QED
      BY <1>3, <3>1, <3>2, <3>3, <3>4, <3>5 DEF Session, SessionSteps, User, Expires
  <2> QED
    BY <1>2, <2>1
<1>4. ASSUME NEW s \in Slots, Unpair(s) PROVE SnapshotInv'
  <2>1. /\ occupant' = [occupant EXCEPT ![s] = None] /\ online' = online \ {s}
        /\ UNCHANGED <<family, wire>>
    BY <1>4 DEF Unpair
  <2>2. (online \subseteq Occupied)'
    BY <1>1, <2>1 DEF Occupied
  <2> QED
    BY <1>1, <2>1, <2>2, BesideKeepsSnapshot
<1>5. ASSUME NEW s \in Slots, NEW up \in BOOLEAN, NEW after, TellConnection(s, up, after)
      PROVE  wire' = wire \/ wire' = Append(wire, Report(s, up, "change"))
  BY <1>5 DEF TellConnection
<1>6. ASSUME NEW s \in Slots, LinkChange(s) PROVE SnapshotInv'
  <2>1. /\ occupant[s] # None
        /\ online' = IF s \in online THEN online \ {s} ELSE online \cup {s}
        /\ TellConnection(s, s \notin online, << >>) /\ UNCHANGED <<family, occupant>>
    BY <1>6 DEF LinkChange
  <2>2. (online \subseteq Occupied)'
    BY <1>1, <2>1 DEF Occupied
  <2>3. (s \notin online) = (s \in online') /\ (s \notin online) \in BOOLEAN
    BY <2>1
  <2>4. \A t \in Slots \ {s} : t \in online' <=> t \in online
    BY <2>1
  <2>5. wire' = wire \/ wire' = Append(wire, Report(s, s \in online', "change"))
    BY <1>5, <2>1, <2>3
  <2> QED
    BY <1>1, <2>1, <2>2, <2>4, <2>5, BesideKeepsSnapshot
<1>7. ASSUME NEW d \in Devices, NEW s \in Slots, PairingCompletes(d, s) PROVE SnapshotInv'
  <2>1. PICK after : TellConnection(s, TRUE, after)
    BY <1>7 DEF PairingCompletes
  <2>2. /\ occupant' = [occupant EXCEPT ![s] = d] /\ online' = online \cup {s}
        /\ UNCHANGED family
    BY <1>7 DEF PairingCompletes
  <2>3. (online \subseteq Occupied)'
    BY <1>1, <2>2, NoneIsNothing DEF Occupied
  <2>4. (s \in online') = TRUE /\ \A t \in Slots \ {s} : t \in online' <=> t \in online
    BY <2>2
  <2>5. wire' = wire \/ wire' = Append(wire, Report(s, s \in online', "change"))
    BY <1>5, <2>1, <2>4
  <2> QED
    BY <1>1, <2>2, <2>3, <2>4, <2>5, BesideKeepsSnapshot
<1>8. CASE Device
  <2>1. ASSUME \/ \E d \in Devices, kind \in {"info", "name"} : Discover(d, kind)
               \/ WindowTimesOut
               \/ \E kind \in {"passkey", "malformed"} : AskPasskey(kind)
        PROVE  SnapshotInv'
    BY <1>2, <2>1 DEF Discover, WindowTimesOut, AskPasskey
  <2> QED
    BY <1>6, <1>7, <1>8, <2>1 DEF Device, ReceiverBeside, ReceiverActs
<1> QED
  BY <1>3, <1>4, <1>8 DEF RemoveDevice

(***************************************************************************)
(* The pass itself: no step of it changes what is online, so a slot's      *)
(* report, queued, drained or read, stays true until the slot changes.     *)
(***************************************************************************)
LEMMA PartsOfSnapshot ==
    ASSUME SnapshotInv
    PROVE  /\ online \subseteq Occupied /\ SnapshotTypes /\ PassShape /\ CausesAreKnown
           /\ WireIsFresh /\ QueueIsFresh /\ PassIsRight /\ FoundAreCounted
  BY DEF SnapshotInv

LEMMA StartKeepsSnapshot == ASSUME SnapshotInv, ReceiverTypes, StartPass PROVE SnapshotInv'
<1>1. /\ scan = "idle" /\ scan' = "count" /\ pending' = FALSE /\ retry' = FALSE
      /\ silent' = {s \in silent : \E i \in DOMAIN wire : wire[i].slot = s}
      /\ swallowed' = {} /\ filled' = FALSE /\ drained' = Nothing /\ queued' = Nothing
      /\ counted' = None /\ unread' = {} /\ sighted' = [found |-> {}, up |-> {}]
      /\ UNCHANGED <<family, occupant, online, wire, depth, known>>
  BY DEF StartPass, receiverVars
<1>2. SnapshotTypes'
  BY <1>1, PartsOfSnapshot DEF SnapshotTypes, Nothing
<1>3. PassShape' /\ CausesAreKnown' /\ QueueIsFresh' /\ PassIsRight' /\ FoundAreCounted'
  BY <1>1, PartsOfSnapshot
     DEF PassShape, Listening, CausesAreKnown, QueueIsFresh, PassIsRight, FoundAreCounted
<1>4. WireIsFresh'
  <2>1. wire \in Seq(Reports) /\ DOMAIN wire = 1..Len(wire)
    BY LenProperties DEF ReceiverTypes
  <2> QED
    BY <1>1, <2>1, PartsOfSnapshot DEF WireIsFresh
<1>5. (online \subseteq Occupied)'
  BY <1>1, PartsOfSnapshot DEF Occupied
<1> QED
  BY <1>2, <1>3, <1>4, <1>5 DEF SnapshotInv

\* A step that leaves the wire, what is silent and what was swallowed.
LEMMA QuietStepKeeps ==
    ASSUME SnapshotInv, UNCHANGED <<family, occupant, online, wire, silent, swallowed>>
    PROVE  /\ (online \subseteq Occupied)' /\ WireIsFresh'
           /\ Occupied' = Occupied /\ \A s \in Slots : InWire(s)' <=> InWire(s)
  BY PartsOfSnapshot DEF Occupied, WireIsFresh, InWire

LEMMA CountKeepsSnapshot ==
    ASSUME SnapshotInv, ReceiverTypes, NEW outcome \in Outcomes, Count(outcome)
    PROVE  SnapshotInv'
<1>1. /\ scan = "count"
      /\ counted' = IF outcome = "answered" THEN Cardinality(Occupied) ELSE None
      /\ \/ scan' = "idle" /\ retry' = TRUE /\ UNCHANGED depth
         \/ /\ scan' = IF family = "bolt" THEN "flags" ELSE "trigger"
            /\ depth' = depth + 1 /\ UNCHANGED retry
      /\ UNCHANGED <<family, occupant, online, wire, pending, queued, drained, unread, sighted,
                     known, silent, swallowed, filled>>
  BY DEF Count, Abandon, receiverVars
<1>2. /\ Occupied \in SUBSET Slots /\ Cardinality(Occupied) \in 0..Cardinality(Slots)
  <2>1. Occupied \subseteq Slots
    BY DEF Occupied
  <2> QED
    BY <2>1, SlotsAreFinite, FS_Subset, FS_CardinalityType
<1>3. depth = 0 /\ family \in {"bolt", "unifying"}
  BY <1>1, PartsOfSnapshot DEF PassShape, Listening, ReceiverTypes
<1>4. SnapshotTypes'
  <2>1. scan' \in {"idle", "flags", "trigger"} /\ depth' \in 0..1
    BY <1>1, <1>3
  <2>2. counted' \in 0..Cardinality(Slots) \cup {None}
    BY <1>1, <1>2
  <2>3. SnapshotTypes /\ retry' \in BOOLEAN
    BY <1>1, PartsOfSnapshot DEF SnapshotTypes
  <2> QED
    BY <1>1, <2>1, <2>2, <2>3 DEF SnapshotTypes
<1>5. PassShape'
  BY <1>1, <1>3, PartsOfSnapshot DEF PassShape, Listening
<1>6. CausesAreKnown'
  BY <1>1, PartsOfSnapshot DEF CausesAreKnown
<1>7. QueueIsFresh'
  BY <1>1, PartsOfSnapshot DEF PassShape, QueueIsFresh, Nothing
<1>8. PassIsRight'
  BY <1>1 DEF PassIsRight
<1>9. FoundAreCounted'
  <2>1. Occupied' = Occupied /\ sighted'.found = {}
    BY <1>1, QuietStepKeeps, PartsOfSnapshot DEF PassShape
  <2>2. counted' # None => counted' = Cardinality(Occupied)
    BY <1>1
  <2> QED
    BY <1>2, <2>1, <2>2 DEF FoundAreCounted
<1> QED
  BY <1>1, <1>4, <1>5, <1>6, <1>7, <1>8, <1>9, QuietStepKeeps DEF SnapshotInv

LEMMA EnablesKeepSnapshot ==
    ASSUME SnapshotInv, ReceiverTypes, NEW outcome \in Outcomes, NEW raced \in BOOLEAN,
           EnableBolt(outcome) \/ EnableUnifying(outcome, raced)
    PROVE  SnapshotInv'
<1>1. /\ UNCHANGED <<family, occupant, online, wire, pending, queued, drained, counted, unread,
                     sighted, known, silent, swallowed, filled>>
      /\ \/ scan = "flags" /\ scan' = "trigger" /\ UNCHANGED <<depth, retry>>
         \/ /\ scan = "notify" /\ scan' \in {"release", "retrigger"}
            /\ UNCHANGED <<depth, retry>>
         \/ scan = "notify" /\ scan' = "idle" /\ retry' = TRUE /\ depth' = depth - 1
  BY DEF EnableBolt, EnableUnifying, FailPass, Abandon, beside, passVars
<1>2. /\ depth = 1 /\ SnapshotTypes
      /\ scan = "notify" => family = "unifying"
  BY <1>1, PartsOfSnapshot DEF PassShape, Listening
<1>3. SnapshotTypes'
  <2>1. scan' \in {"idle", "trigger", "release", "retrigger"} /\ depth' \in 0..1
    BY <1>1, <1>2
  <2>2. retry' \in BOOLEAN
    BY <1>1, <1>2 DEF SnapshotTypes
  <2> QED
    BY <1>1, <1>2, <2>1, <2>2 DEF SnapshotTypes
<1>4. PassShape'
  BY <1>1, <1>2, PartsOfSnapshot DEF PassShape, Listening, Nothing
<1>5. CausesAreKnown'
  BY <1>1, PartsOfSnapshot DEF CausesAreKnown
<1>6. QueueIsFresh'
  BY <1>1, QuietStepKeeps, PartsOfSnapshot DEF QueueIsFresh, Listening
<1>7. PassIsRight'
  BY <1>1, QuietStepKeeps, PartsOfSnapshot DEF PassIsRight
<1>8. FoundAreCounted'
  BY <1>1, <1>2, QuietStepKeeps, PartsOfSnapshot DEF FoundAreCounted
<1> QED
  BY <1>1, <1>3, <1>4, <1>5, <1>6, <1>7, <1>8, QuietStepKeeps DEF SnapshotInv

LEMMA DrainKeepsSnapshot == ASSUME SnapshotInv, ReceiverTypes, DrainEnds PROVE SnapshotInv'
<1>1. /\ UNCHANGED <<family, occupant, online, wire, depth, pending, queued, drained, counted,
                     unread, sighted, known, retry, silent, swallowed, filled>>
      /\ scan \in {"drain", "redrain"} /\ wire = << >>
      /\ scan' = IF family = "unifying" /\ scan = "drain" THEN "notify" ELSE "release"
  BY DEF DrainEnds, receiverVars, passVars
<1>2. SnapshotTypes'
  BY <1>1, PartsOfSnapshot DEF SnapshotTypes
<1>3. PassShape'
  BY <1>1, PartsOfSnapshot DEF PassShape, Listening
<1>4. CausesAreKnown'
  <2>1. Len(wire') = 0
    BY <1>1
  <2> QED
    BY <2>1 DEF CausesAreKnown
<1>5. QueueIsFresh'
  BY <1>1, QuietStepKeeps, PartsOfSnapshot DEF QueueIsFresh, Listening
<1>6. PassIsRight'
  BY <1>1, QuietStepKeeps, PartsOfSnapshot DEF PassIsRight
<1>7. FoundAreCounted'
  BY <1>1, QuietStepKeeps, PartsOfSnapshot DEF FoundAreCounted
<1> QED
  BY <1>1, <1>2, <1>3, <1>4, <1>5, <1>6, <1>7, QuietStepKeeps DEF SnapshotInv

LEMMA ReleaseKeepsSnapshot == ASSUME SnapshotInv, ReceiverTypes, Release PROVE SnapshotInv'
<1>1. /\ UNCHANGED <<family, occupant, online, wire, pending, queued, drained, counted,
                     known, retry, silent, swallowed, filled>>
      /\ scan = "release" /\ scan' = "slots" /\ depth' = depth - 1
      /\ unread' = IF family = "bolt" THEN Slots ELSE {}
      /\ sighted' = IF family = "bolt" THEN sighted
                    ELSE [found |-> {s \in Slots : drained[s] # "none"},
                          up |-> {s \in Slots : drained[s] = "up"}]
  BY DEF Release, receiverVars
<1>2. /\ depth = 1 /\ SnapshotTypes /\ sighted = [found |-> {}, up |-> {}]
      /\ family \in {"bolt", "unifying"}
  BY <1>1, PartsOfSnapshot DEF PassShape, Listening, ReceiverTypes
<1>3. SnapshotTypes'
  <2>1. sighted' \in [found : SUBSET Slots, up : SUBSET Slots]
    BY <1>1, <1>2
  <2>2. scan' = "slots" /\ depth' \in 0..1 /\ unread' \subseteq Slots
    BY <1>1, <1>2
  <2> QED
    BY <1>1, <1>2, <2>1, <2>2 DEF SnapshotTypes
<1>4. PassShape'
  BY <1>1, <1>2, PartsOfSnapshot DEF PassShape, Listening
<1>5. CausesAreKnown'
  BY <1>1, PartsOfSnapshot DEF CausesAreKnown
<1>6. QueueIsFresh'
  BY <1>1 DEF QueueIsFresh, Listening
<1>7. PassIsRight'
  <2> SUFFICES ASSUME NEW s \in Slots \ (silent \cup swallowed), ~InWire(s)
               PROVE  IF family = "unifying" THEN s \in sighted'.up <=> s \in online
                      ELSE /\ drained[s] = "up" => s \in online
                           /\ drained[s] = "down" => s \notin online
                           /\ s \in sighted'.found => (s \in sighted'.up <=> s \in online)
    BY <1>1, QuietStepKeeps DEF PassIsRight
  <2>1. drained[s] = "up" <=> s \in online
    BY <1>1, PartsOfSnapshot DEF PassIsRight
  <2>2. CASE family = "unifying"
    BY <1>1, <2>1, <2>2
  <2>3. CASE family = "bolt"
    BY <1>1, <1>2, <2>1, <2>3
  <2> QED
    BY <1>2, <2>2, <2>3
<1>8. FoundAreCounted'
  BY <1>1, QuietStepKeeps, PartsOfSnapshot DEF FoundAreCounted
<1> QED
  BY <1>1, <1>3, <1>4, <1>5, <1>6, <1>7, <1>8, QuietStepKeeps DEF SnapshotInv

LEMMA ReadKeepsSnapshot ==
    ASSUME SnapshotInv, ReceiverTypes, NEW t \in Slots, NEW outcome \in Outcomes,
           ReadSlot(t, outcome)
    PROVE  SnapshotInv'
<1> DEFINE sees == drained[t] = "up" \/ (drained[t] = "none" /\ t \in online)
<1>1. /\ UNCHANGED <<family, occupant, online, wire, scan, depth, pending, queued, drained,
                     counted, known, retry, silent, swallowed, filled>>
      /\ scan = "slots" /\ t \in unread /\ unread' = unread \ {t}
      /\ \/ sighted' = sighted
         \/ /\ occupant[t] # None
            /\ sighted' = [found |-> sighted.found \cup {t},
                           up |-> IF sees THEN sighted.up \cup {t} ELSE sighted.up]
  BY DEF ReadSlot, receiverVars
<1>2. /\ SnapshotTypes /\ family = "bolt" /\ t \notin sighted.found
      /\ sighted.up \subseteq sighted.found /\ unread \cap sighted.found = {}
      /\ depth = 0
  BY <1>1, PartsOfSnapshot DEF PassShape, Listening, ReceiverTypes
<1>3. sighted.found \subseteq Slots /\ sighted.up \subseteq Slots
  BY <1>2 DEF SnapshotTypes
<1> HIDE DEF sees
<1>4. /\ sighted'.found \in {sighted.found, sighted.found \cup {t}}
      /\ sighted'.up \in {sighted.up, sighted.up \cup {t}}
      /\ t \in sighted'.found => occupant[t] # None /\ (t \in sighted'.up <=> sees)
      /\ sighted'.up \subseteq sighted'.found
      /\ sighted' \in [found : SUBSET Slots, up : SUBSET Slots]
  <2>1. CASE sighted' = sighted
    BY <1>2, <2>1 DEF SnapshotTypes
  <2>2. CASE sighted' # sighted
    BY <1>1, <1>2, <1>3, <2>2
  <2> QED
    BY <2>1, <2>2
<1>5. SnapshotTypes'
  BY <1>1, <1>2, <1>4 DEF SnapshotTypes
<1>6. PassShape'
  BY <1>1, <1>2, <1>4, PartsOfSnapshot DEF PassShape, Listening
<1>7. CausesAreKnown'
  BY <1>1, PartsOfSnapshot DEF CausesAreKnown
<1>8. QueueIsFresh'
  BY <1>1, <1>2 DEF QueueIsFresh, Listening
<1>9. PassIsRight'
  <2> SUFFICES ASSUME NEW s \in Slots \ (silent \cup swallowed), ~InWire(s), ~pending
               PROVE  /\ drained[s] = "up" => s \in online
                      /\ drained[s] = "down" => s \notin online
                      /\ s \in sighted'.found => (s \in sighted'.up <=> s \in online)
    BY <1>1, <1>2, QuietStepKeeps DEF PassIsRight
  <2>1. /\ drained[s] = "up" => s \in online
        /\ drained[s] = "down" => s \notin online
        /\ s \in sighted.found => (s \in sighted.up <=> s \in online)
    BY <1>1, <1>2, PartsOfSnapshot DEF PassIsRight
  <2>2. drained[s] \in {"none", "up", "down"}
    BY <1>2 DEF SnapshotTypes
  <2>3. CASE s = t
    BY <1>4, <2>1, <2>2, <2>3 DEF sees
  <2>4. CASE s # t
    BY <1>4, <2>1, <2>4
  <2> QED
    BY <2>1, <2>3, <2>4
<1>10. FoundAreCounted'
  <2> SUFFICES ASSUME counted # None, ~filled
               PROVE  \E C \in SUBSET Slots : /\ Cardinality(C) = counted
                                              /\ Occupied \cup sighted'.found \subseteq C
    BY <1>1, QuietStepKeeps DEF FoundAreCounted
  <2>1. PICK C \in SUBSET Slots : Cardinality(C) = counted /\ Occupied \cup sighted.found \subseteq C
    BY <1>1, <1>2, PartsOfSnapshot DEF FoundAreCounted
  <2>2. sighted'.found \subseteq sighted.found \cup Occupied
    BY <1>4 DEF Occupied
  <2> QED
    BY <2>1, <2>2
<1> QED
  BY <1>1, <1>5, <1>6, <1>7, <1>8, <1>9, <1>10, QuietStepKeeps DEF SnapshotInv

LEMMA DeliverKeepsSnapshot == ASSUME SnapshotInv, ReceiverTypes, Deliver PROVE SnapshotInv'
<1> DEFINE r == Head(wire)
           draining == scan \in {"drain", "redrain"}
<1>1. /\ wire # << >> /\ wire' = Tail(wire)
      /\ pending' = (pending \/ ~Hidden)
      /\ queued' = IF Listening /\ ~draining THEN [queued EXCEPT ![r.slot] = Status(r.up)]
                   ELSE queued
      /\ drained' = IF draining THEN [drained EXCEPT ![r.slot] = Status(r.up)] ELSE drained
      /\ swallowed' = IF Hidden /\ r.cause = "change" /\ scan \in {"release", "notify"}
                      THEN swallowed \cup {r.slot} ELSE swallowed
      /\ UNCHANGED <<family, occupant, online, scan, depth, counted, unread, sighted, known,
                     retry, silent, filled>>
  BY DEF Deliver
<1>2. wire \in Seq(Reports)
  BY DEF ReceiverTypes
<1>3. /\ Len(wire) \in Nat /\ Len(wire) >= 1 /\ Len(wire') = Len(wire) - 1 /\ r = wire[1]
      /\ \A i \in 1..Len(wire') : wire'[i] = wire[i + 1] /\ i + 1 \in 1..Len(wire)
  BY <1>1, <1>2, HeadTailProperties, LenProperties, EmptySeq
<1>4. r.slot \in Slots /\ r.up \in BOOLEAN
  BY <1>2, <1>3, WireSays
<1>5. Status(r.up) \in {"up", "down"} /\ (Status(r.up) = "up" <=> r.up)
  BY <1>4 DEF Status
<1>6. SnapshotTypes
  BY PartsOfSnapshot
<1> HIDE DEF r, draining
\* Slots whose report is taken, and slots that have no other.
<1>7. ASSUME NEW s \in Slots, ~InWire(s)'
      PROVE  IF s = r.slot THEN s \notin silent => (r.up <=> s \in online)
             ELSE ~InWire(s) /\ queued'[s] = queued[s] /\ drained'[s] = drained[s]
  <2>1. \A i \in 1..Len(wire) : i # 1 => wire[i].slot # s
    <3> SUFFICES ASSUME NEW i \in 1..Len(wire), i # 1 PROVE wire[i].slot # s
      OBVIOUS
    <3>1. i - 1 \in 1..Len(wire') /\ (i - 1) + 1 = i
      BY <1>3
    <3>2. wire'[i - 1] = wire[i]
      BY <1>3, <3>1
    <3> QED
      BY <1>7, <3>1, <3>2 DEF InWire
  <2>2. CASE s = r.slot
    <3>1. 1 \in 1..Len(wire) /\ wire[1].slot = s /\ \A j \in 1..Len(wire) : wire[j].slot = s => j <= 1
      BY <1>3, <2>1, <2>2
    <3> QED
      BY <1>3, <2>2, <3>1, PartsOfSnapshot DEF WireIsFresh
  <2>3. CASE s # r.slot
    <3>1. ~InWire(s)
      BY <1>3, <2>1, <2>3 DEF InWire
    <3>2. queued'[s] = queued[s] /\ drained'[s] = drained[s]
      BY <1>1, <1>6, <2>3 DEF SnapshotTypes
    <3> QED
      BY <2>3, <3>1, <3>2
  <2> QED
    BY <2>2, <2>3
<1>8. SnapshotTypes'
  <2>1. pending' \in BOOLEAN
    BY <1>1, <1>6 DEF SnapshotTypes, Hidden
  <2>2. queued' \in [Slots -> {"none", "up", "down"}]
    BY <1>1, <1>4, <1>5, <1>6 DEF SnapshotTypes
  <2>3. drained' \in [Slots -> {"none", "up", "down"}]
    BY <1>1, <1>4, <1>5, <1>6 DEF SnapshotTypes
  <2>4. swallowed' \subseteq Slots
    BY <1>1, <1>4, <1>6 DEF SnapshotTypes
  <2> QED
    BY <1>1, <1>6, <2>1, <2>2, <2>3, <2>4 DEF SnapshotTypes
<1>9. PassShape'
  BY <1>1, PartsOfSnapshot DEF PassShape, Listening, draining
<1>10. CausesAreKnown'
  BY <1>1, <1>3, PartsOfSnapshot DEF CausesAreKnown
<1>11. WireIsFresh'
  <2> SUFFICES ASSUME NEW i \in 1..Len(wire'), wire'[i].slot \notin silent,
                      \A j \in 1..Len(wire') : wire'[j].slot = wire'[i].slot => j <= i
               PROVE  wire'[i].up <=> wire'[i].slot \in online
    BY <1>1 DEF WireIsFresh
  <2>1. wire'[i] = wire[i + 1] /\ i + 1 \in 1..Len(wire)
    BY <1>3
  <2>2. ASSUME NEW j \in 1..Len(wire), wire[j].slot = wire[i + 1].slot PROVE j <= i + 1
    <3>1. CASE j = 1
      BY <1>3, <3>1
    <3>2. CASE j # 1
      <4>1. j - 1 \in 1..Len(wire') /\ (j - 1) + 1 = j
        BY <1>3, <3>2
      <4>2. wire'[j - 1] = wire[j]
        BY <1>3, <4>1
      <4>3. j - 1 <= i
        BY <2>1, <2>2, <4>1, <4>2
      <4> QED
        BY <1>3, <4>1, <4>3
    <3> QED
      BY <3>1, <3>2
  <2> QED
    BY <2>1, <2>2, PartsOfSnapshot DEF WireIsFresh
<1>12. QueueIsFresh'
  <2> SUFFICES ASSUME Listening, NEW s \in Slots \ silent, ~InWire(s)', queued'[s] = "up"
               PROVE  s \in online
    BY <1>1 DEF QueueIsFresh, Listening
  <2>1. CASE s # r.slot
    BY <1>7, <2>1, PartsOfSnapshot DEF QueueIsFresh
  <2>2. CASE s = r.slot /\ draining
    <3>1. queued' = queued /\ queued = Nothing
      BY <1>1, <2>2, PartsOfSnapshot DEF PassShape, draining
    <3> QED
      BY <3>1 DEF Nothing
  <2>3. CASE s = r.slot /\ ~draining
    <3>1. queued'[s] = Status(r.up)
      BY <1>1, <1>6, <2>3 DEF SnapshotTypes
    <3> QED
      BY <1>5, <1>7, <2>3, <3>1
  <2> QED
    BY <2>1, <2>2, <2>3
<1>13. PassIsRight'
  <2> SUFFICES ASSUME NEW s \in Slots \ (silent \cup swallowed'), ~InWire(s)'
               PROVE  /\ scan = "idle" /\ ~pending' /\ ~retry => (s \in known <=> s \in online)
                      /\ scan \in {"drain", "notify", "redrain", "release"} =>
                             (drained'[s] = "up" <=> s \in online)
                      /\ scan = "slots" /\ ~pending' =>
                             IF family = "unifying" THEN s \in sighted.up <=> s \in online
                             ELSE /\ drained'[s] = "up" => s \in online
                                  /\ drained'[s] = "down" => s \notin online
                                  /\ s \in sighted.found =>
                                         (s \in sighted.up <=> s \in online)
    BY <1>1 DEF PassIsRight
  <2>1. s \notin swallowed /\ (~pending' => ~pending /\ Hidden)
    BY <1>1
  <2>2. CASE s # r.slot
    <3>1. ~InWire(s) /\ drained'[s] = drained[s]
      BY <1>7, <2>2
    <3> QED
      BY <2>1, <3>1, PartsOfSnapshot DEF PassIsRight
  <2>3. CASE s = r.slot
    <3>1. ~pending' => scan \notin {"idle", "slots"}
      BY <2>1, PartsOfSnapshot DEF PassShape, Listening, Hidden
    <3>2. scan \notin {"notify", "release"}
      <4>1. scan \in {"notify", "release"} => Hidden /\ r.cause = "change"
        BY <1>3, PartsOfSnapshot DEF PassShape, Listening, Hidden, CausesAreKnown
      <4> QED
        BY <1>1, <2>3, <4>1
    <3>3. draining => (drained'[s] = "up" <=> s \in online)
      <4>1. draining => drained'[s] = Status(r.up)
        BY <1>1, <1>6, <2>3 DEF SnapshotTypes
      <4> QED
        BY <1>5, <1>7, <2>3, <4>1
    <3> QED
      BY <3>1, <3>2, <3>3 DEF draining
  <2> QED
    BY <2>2, <2>3
<1>14. FoundAreCounted' /\ (online \subseteq Occupied)'
  BY <1>1, PartsOfSnapshot DEF FoundAreCounted, Occupied
<1> QED
  BY <1>8, <1>9, <1>10, <1>11, <1>12, <1>13, <1>14 DEF SnapshotInv

LEMMA SettleKeepsSnapshot == ASSUME SnapshotInv, ReceiverTypes, Settle PROVE SnapshotInv'
<1>1. /\ scan = "slots" /\ scan' = "idle"
      /\ \/ /\ family = "bolt" /\ counted # Cardinality(sighted.found)
            /\ retry' = TRUE /\ UNCHANGED <<known, silent>>
         \/ /\ family = "bolt" => counted = Cardinality(sighted.found)
            /\ known' = sighted.up
            /\ silent' = IF filled THEN silent \cup (Slots \ sighted.found) ELSE silent
            /\ UNCHANGED retry
      /\ UNCHANGED <<family, occupant, online, wire, depth, pending, queued, drained, counted,
                     unread, sighted, swallowed, filled>>
  BY DEF Settle, receiverVars, passVars
<1>2. SnapshotTypes /\ sighted.found \subseteq Slots /\ sighted.up \subseteq Slots
      /\ online \subseteq Occupied /\ family \in {"bolt", "unifying"}
  BY PartsOfSnapshot DEF SnapshotTypes, ReceiverTypes
<1>3. SnapshotTypes'
  BY <1>1, <1>2 DEF SnapshotTypes
<1>4. PassShape'
  BY <1>1, PartsOfSnapshot DEF PassShape, Listening
<1>5. CausesAreKnown' /\ QueueIsFresh' /\ FoundAreCounted' /\ (online \subseteq Occupied)'
  BY <1>1, <1>2, PartsOfSnapshot DEF CausesAreKnown, QueueIsFresh, Listening, FoundAreCounted, Occupied
<1>6. WireIsFresh'
  BY <1>1, PartsOfSnapshot DEF WireIsFresh
<1>7. PassIsRight'
  <2> SUFFICES ASSUME NEW s \in Slots, s \notin silent', s \notin swallowed, ~InWire(s),
                      ~pending, ~retry'
               PROVE  s \in known' <=> s \in online
    BY <1>1 DEF PassIsRight, InWire
  <2>1. /\ family = "bolt" => counted = Cardinality(sighted.found)
        /\ known' = sighted.up /\ s \notin silent /\ (filled => s \in sighted.found)
    BY <1>1
  <2>2. CASE family = "unifying"
    BY <1>1, <2>1, <2>2, PartsOfSnapshot DEF PassIsRight
  <2>3. CASE family = "bolt" /\ s \in sighted.found
    BY <1>1, <2>1, <2>3, PartsOfSnapshot DEF PassIsRight
  <2>4. CASE family = "bolt" /\ s \notin sighted.found
    <3>1. IsFiniteSet(sighted.found) /\ counted \in Nat
      BY <1>2, <2>1, <2>4, SlotsAreFinite, FS_Subset, FS_CardinalityType
    <3>2. counted # None /\ ~filled
      BY <2>1, <2>4, <3>1, NoneIsNothing
    <3>3. PICK C \in SUBSET Slots : /\ Cardinality(C) = counted
                                    /\ Occupied \cup sighted.found \subseteq C
      BY <1>1, <2>4, <3>2, PartsOfSnapshot DEF FoundAreCounted
    <3>4. C = sighted.found
      <4>1. IsFiniteSet(C)
        BY SlotsAreFinite, FS_Subset
      <4> QED
        BY <2>1, <2>4, <3>3, <4>1, FS_Subset
    <3>5. s \notin online /\ s \notin sighted.up
      BY <1>1, <1>2, <2>4, <3>3, <3>4, PartsOfSnapshot DEF PassShape
    <3> QED
      BY <2>1, <3>5
  <2> QED
    BY <1>2, <2>2, <2>3, <2>4
<1> QED
  BY <1>3, <1>4, <1>5, <1>6, <1>7 DEF SnapshotInv

LEMMA TriggerKeepsSnapshot ==
    ASSUME SnapshotInv, ReceiverTypes, NEW outcome \in Outcomes, Trigger(outcome)
    PROVE  SnapshotInv'
<1>1. /\ scan \in {"trigger", "retrigger"}
      /\ UNCHANGED <<family, occupant, online, pending, counted, sighted, known, swallowed, filled>>
      /\ \/ /\ outcome = "answered"
            /\ scan' \in {"drain", "redrain"} /\ (scan' = "redrain" => scan = "retrigger")
            /\ drained' = queued /\ queued' = Nothing /\ UNCHANGED <<depth, retry, unread>>
         \/ /\ outcome # "answered" /\ UNCHANGED <<drained, queued>>
            /\ depth' = depth - 1
            /\ \/ scan' = "idle" /\ retry' = TRUE /\ UNCHANGED unread
               \/ family # "unifying" /\ scan' = "slots" /\ unread' = Slots /\ UNCHANGED retry
  BY DEF Trigger, FailPass, Abandon
<1>2. /\ depth = 1 /\ SnapshotTypes /\ sighted = [found |-> {}, up |-> {}]
      /\ scan = "retrigger" => family = "unifying"
      /\ scan = "trigger" => drained = Nothing
      /\ family \in {"bolt", "unifying"} /\ wire \in Seq(Reports) /\ online \subseteq Slots
  BY <1>1, PartsOfSnapshot DEF PassShape, Listening, ReceiverTypes
<1>3. (online \subseteq Occupied)' /\ Occupied' = Occupied
  BY <1>1, PartsOfSnapshot DEF Occupied
\* What is on its way: what was, and a report of each slot online; or what was.
<1>4. PICK reports \in Seq(Reports) :
          /\ wire' = wire \o reports
          /\ \/ AgainReports(reports, outcome) /\ UNCHANGED silent
             \/ /\ reports = << >>
                /\ silent' = silent \/ silent' = silent \cup online
                /\ outcome = "answered" => silent' = silent \cup online
  <2>1. CASE Applied(outcome) /\ Announces({"wireless"})
    BY <2>1, TriggerSays
  <2>2. CASE ~(Applied(outcome) /\ Announces({"wireless"}))
    <3>1. /\ wire' = wire
          /\ silent' = IF Announces({"wireless"}) THEN silent ELSE silent \cup online
      BY <2>2, TriggerSays
    <3>2. << >> \in Seq(Reports) /\ wire \o << >> = wire
      BY <1>2
    <3>3. outcome = "answered" => ~Announces({"wireless"})
      BY <2>2 DEF Applied
    <3> QED
      BY <3>1, <3>2, <3>3
  <2> QED
    BY <2>1, <2>2
<1>5. /\ Len(wire) \in Nat /\ Len(reports) \in Nat /\ Len(wire') = Len(wire) + Len(reports)
      /\ \A i \in 1..Len(wire) : wire'[i] = wire[i] /\ i \in 1..Len(wire')
      /\ \A i \in 1..Len(wire') : i > Len(wire) =>
            wire'[i] = reports[i - Len(wire)] /\ i - Len(wire) \in 1..Len(reports)
      /\ \A j \in 1..Len(reports) : wire'[Len(wire) + j] = reports[j]
                                    /\ Len(wire) + j \in 1..Len(wire')
  <2>1. Len(wire) \in Nat /\ Len(reports) \in Nat
    BY <1>2, <1>4, LenProperties
  <2>2. /\ Len(wire') = Len(wire) + Len(reports)
        /\ \A i \in 1..(Len(wire) + Len(reports)) :
              wire'[i] = IF i <= Len(wire) THEN wire[i] ELSE reports[i - Len(wire)]
    BY <1>2, <1>4, ConcatProperties
  <2> QED
    BY <2>1, <2>2
<1>6. /\ \A i \in 1..Len(reports) :
            /\ reports[i].slot \in online /\ reports[i].up = TRUE
            /\ reports[i].cause = (IF outcome = "answered" THEN "echo" ELSE "stray")
      /\ \A s \in Slots : s \in online /\ s \notin silent' /\ (outcome = "answered" \/ reports # << >>) =>
            \E j \in 1..Len(reports) : reports[j].slot = s
      /\ silent \subseteq silent' /\ silent' \subseteq silent \cup online
  <2>1. CASE AgainReports(reports, outcome) /\ UNCHANGED silent
    BY <2>1 DEF AgainReports
  <2>2. CASE ~(AgainReports(reports, outcome) /\ UNCHANGED silent)
    BY <1>4, <2>2
  <2> QED
    BY <2>1, <2>2
<1>7. SnapshotTypes'
  <2>1. /\ depth' \in 0..1 /\ retry' \in BOOLEAN
        /\ unread' \subseteq Slots /\ silent' \subseteq Slots
    <3>1. unread \subseteq Slots /\ silent \subseteq Slots /\ retry \in BOOLEAN
      BY <1>2 DEF SnapshotTypes
    <3>2. depth' \in 0..1
      BY <1>1, <1>2
    <3>3. retry' \in BOOLEAN
      BY <1>1, <3>1
    <3>4. unread' \subseteq Slots
      BY <1>1, <3>1
    <3>5. silent' \subseteq Slots
      BY <1>2, <1>6, <3>1
    <3> QED
      BY <3>2, <3>3, <3>4, <3>5
  <2>2. queued' \in [Slots -> {"none", "up", "down"}] /\ drained' \in [Slots -> {"none", "up", "down"}]
    BY <1>1, <1>2 DEF SnapshotTypes, Nothing
  <2>3. scan' \in {"drain", "redrain", "idle", "slots"}
    BY <1>1
  <2> QED
    BY <1>1, <1>2, <2>1, <2>2, <2>3 DEF SnapshotTypes
<1>8. PassShape'
  <2>1. depth' = IF Listening' THEN 1 ELSE 0
    BY <1>1, <1>2 DEF Listening
  <2>2. scan' \in {"redrain"} => family = "unifying"
    BY <1>1, <1>2
  <2>3. /\ scan' \in {"drain", "redrain"} => queued' = Nothing
        /\ scan' = "slots" => family # "unifying"
        /\ scan' \in {"drain", "redrain", "idle", "slots"}
    BY <1>1
  <2>4. sighted' = [found |-> {}, up |-> {}]
    BY <1>1, <1>2
  <2> QED
    BY <1>1, <2>1, <2>2, <2>3, <2>4 DEF PassShape
<1>9. CausesAreKnown'
  <2> SUFFICES ASSUME NEW i \in 1..Len(wire'), wire'[i].cause = "echo"
               PROVE  scan' \in {"drain", "redrain"}
    BY <1>1 DEF CausesAreKnown
  <2>1. CASE i \in 1..Len(wire)
    BY <1>1, <1>5, <2>1, PartsOfSnapshot DEF CausesAreKnown
  <2>2. CASE i > Len(wire)
    BY <1>1, <1>5, <1>6, <2>2
  <2> QED
    BY <1>5, <2>1, <2>2
<1>10. WireIsFresh'
  <2> SUFFICES ASSUME NEW i \in 1..Len(wire'), wire'[i].slot \notin silent',
                      \A j \in 1..Len(wire') : wire'[j].slot = wire'[i].slot => j <= i
               PROVE  wire'[i].up <=> wire'[i].slot \in online
    BY <1>1 DEF WireIsFresh
  <2>1. CASE i > Len(wire)
    BY <1>5, <1>6, <2>1
  <2>2. CASE i \in 1..Len(wire)
    <3>1. wire'[i] = wire[i] /\ wire[i].slot \notin silent
      BY <1>5, <1>6, <2>2
    <3>2. \A j \in 1..Len(wire) : wire[j].slot = wire[i].slot => j <= i
      BY <1>5, <2>2
    <3> QED
      BY <2>2, <3>1, <3>2, PartsOfSnapshot DEF WireIsFresh
  <2> QED
    BY <1>5, <2>1, <2>2
<1>11. QueueIsFresh'
  BY <1>1 DEF QueueIsFresh, Listening, Nothing
<1>12. PassIsRight'
  <2> SUFFICES ASSUME NEW s \in Slots, s \notin silent', s \notin swallowed, ~InWire(s)'
               PROVE  /\ scan' \in {"drain", "redrain"} => (drained'[s] = "up" <=> s \in online)
                      /\ scan' = "slots" =>
                             /\ family # "unifying"
                             /\ drained'[s] = "none" /\ s \notin sighted'.found
    BY <1>1 DEF PassIsRight
  <2>1. s \notin silent /\ ~InWire(s)
    BY <1>5, <1>6 DEF InWire
  <2>2. ASSUME scan' \in {"drain", "redrain"} PROVE drained'[s] = "up" <=> s \in online
    <3>1. outcome = "answered" /\ drained'[s] = queued[s]
      BY <1>1, <2>2
    <3>2. drained'[s] = "up" => s \in online
      BY <1>1, <2>1, <3>1, PartsOfSnapshot DEF QueueIsFresh, Listening
    <3>3. s \notin online
      <4>1. SUFFICES ASSUME s \in online PROVE FALSE
        OBVIOUS
      <4>2. PICK j \in 1..Len(reports) : reports[j].slot = s
        BY <1>6, <3>1, <4>1
      <4> QED
        BY <1>5, <4>2 DEF InWire
    <3> QED
      BY <3>2, <3>3
  <2>3. ASSUME scan' = "slots"
        PROVE  family # "unifying" /\ drained'[s] = "none" /\ s \notin sighted'.found
    <3>1. family # "unifying" /\ drained' = drained /\ scan = "trigger"
      BY <1>1, <1>2, <2>3
    <3> QED
      BY <1>1, <1>2, <3>1 DEF Nothing
  <2> QED
    BY <2>2, <2>3
<1>13. FoundAreCounted'
  BY <1>1, <1>3, PartsOfSnapshot DEF FoundAreCounted
<1> QED
  BY <1>3, <1>7, <1>8, <1>9, <1>10, <1>11, <1>12, <1>13 DEF SnapshotInv

LEMMA PassKeepsSnapshot == ASSUME SnapshotInv, ReceiverTypes, Inventory PROVE SnapshotInv'
  BY StartKeepsSnapshot, DeliverKeepsSnapshot, CountKeepsSnapshot, EnablesKeepSnapshot,
     TriggerKeepsSnapshot, DrainKeepsSnapshot, ReleaseKeepsSnapshot, ReadKeepsSnapshot,
     SettleKeepsSnapshot DEF Inventory, PassSteps

LEMMA SnapshotStarts == ASSUME UsersInit PROVE SnapshotInv
<1>1. ReceiverInit /\ SnapshotInit
  BY DEF UsersInit
<1>2. online \subseteq Occupied /\ wire = << >>
  BY <1>1 DEF ReceiverInit, Occupied
<1>3. SnapshotTypes
  <2>1. counted = None /\ sighted \in [found : SUBSET Slots, up : SUBSET Slots]
    BY <1>1 DEF SnapshotInit
  <2>2. queued \in [Slots -> {"none", "up", "down"}] /\ drained \in [Slots -> {"none", "up", "down"}]
    BY <1>1 DEF SnapshotInit, Nothing
  <2>3. /\ scan = "idle" /\ depth = 0 /\ pending = FALSE /\ retry = TRUE /\ unread = {}
        /\ known = {} /\ silent = {} /\ swallowed = {} /\ filled = FALSE
    BY <1>1 DEF SnapshotInit
  <2>4. depth \in 0..1
    BY <2>3
  <2> QED
    BY <2>1, <2>2, <2>3, <2>4 DEF SnapshotTypes
<1>4. PassShape
  BY <1>1 DEF SnapshotInit, PassShape, Listening
<1>5. Len(wire) = 0
  BY <1>2
<1>6. CausesAreKnown /\ WireIsFresh
  BY <1>5 DEF CausesAreKnown, WireIsFresh
<1>7. QueueIsFresh /\ PassIsRight /\ FoundAreCounted
  BY <1>1 DEF SnapshotInit, QueueIsFresh, Listening, PassIsRight, FoundAreCounted
<1> QED
  BY <1>2, <1>3, <1>4, <1>6, <1>7 DEF SnapshotInv

LEMMA StutterKeepsSnapshot == ASSUME SnapshotInv, UNCHANGED usersVars PROVE SnapshotInv'
<1>1. UNCHANGED <<family, occupant, online, wire, scan, depth, pending, queued, drained, counted,
                  unread, sighted, known, retry, silent, swallowed, filled>>
  BY DEF usersVars, receiverVars, snapshotVars
<1>2. SnapshotTypes' /\ PassShape' /\ CausesAreKnown'
  BY <1>1, PartsOfSnapshot DEF SnapshotTypes, PassShape, Listening, Nothing, CausesAreKnown
<1>3. QueueIsFresh' /\ PassIsRight' /\ FoundAreCounted'
  BY <1>1, QuietStepKeeps, PartsOfSnapshot DEF QueueIsFresh, Listening, PassIsRight, FoundAreCounted
<1> QED
  BY <1>1, <1>2, <1>3, QuietStepKeeps DEF SnapshotInv

(* The invariant of inventory's view of a receiver, whatever the receiver,  *)
(* a pairing session and a caller who removes devices do beside it.         *)
THEOREM SnapshotInvHolds == UsersSpec => []SnapshotInv
<1>1. UsersInit => SnapshotInv
  BY SnapshotStarts
<1>2. SnapshotInv /\ SessionInv /\ [UsersNext]_usersVars => SnapshotInv'
  <2> SUFFICES ASSUME SnapshotInv, SessionInv, [UsersNext]_usersVars PROVE SnapshotInv'
    OBVIOUS
  <2>1. ReceiverTypes
    BY DEF SessionInv
  <2> QED
    BY <2>1, OthersKeepSnapshot, PassKeepsSnapshot, StutterKeepsSnapshot DEF UsersNext
<1> QED
  BY <1>1, <1>2, SessionInvHolds, PTL DEF UsersSpec

(* At rest, what inventory publishes of a receiver is what is online, but   *)
(* for the slots whose change the code cannot have seen (the conditions are *)
(* the property's): EventNotifier, ReceiverSnapshotGuard and                *)
(* assemble_bolt_probe, for any number of slots and devices.                *)
THEOREM RestIsCurrent == UsersSpec => []ChangesAreCovered
<1>1. SnapshotInv => ChangesAreCovered
  <2> SUFFICES ASSUME SnapshotInv, Quiet, NEW s \in Slots \ (silent \cup swallowed)
               PROVE  s \in known <=> s \in online
    BY DEF ChangesAreCovered
  <2>1. ~InWire(s)
    BY DEF Quiet, InWire
  <2> QED
    BY <2>1, PartsOfSnapshot DEF PassIsRight, Quiet
<1> QED
  BY <1>1, SnapshotInvHolds, PTL

(* No pass asks for the next one by the reports it provokes itself          *)
(* (SubscriptionState::decode and the guard's depth).                       *)
THEOREM PassesDoNotEcho == UsersSpec => NoEcho
<1>1. SnapshotInv /\ SessionInv /\ [UsersNext]_usersVars
        => [~pending /\ pending' => Head(wire).cause # "echo"]_snapshotVars
  <2> SUFFICES ASSUME SnapshotInv, SessionInv, UsersNext, ~pending, pending'
               PROVE  Head(wire).cause # "echo"
    BY DEF usersVars, snapshotVars
  <2>1. Deliver
    <3>1. ~(Session \/ User \/ Expires \/ Device \/ RemoveDevice)
      BY DEF Session, User, Expires, Device, RemoveDevice, Unseen
    <3>2. ~StartPass /\ ~DrainEnds /\ ~Release /\ ~Settle
      BY DEF StartPass, DrainEnds, Release, Settle
    <3>3. \A o \in Outcomes : ~Count(o) /\ ~EnableBolt(o) /\ ~Trigger(o)
      BY DEF Count, EnableBolt, Trigger
    <3>4. \A o \in Outcomes, r \in BOOLEAN : ~EnableUnifying(o, r)
      BY DEF EnableUnifying
    <3>5. \A s \in Slots, o \in Outcomes : ~ReadSlot(s, o)
      BY DEF ReadSlot
    <3> QED
      BY <3>1, <3>2, <3>3, <3>4, <3>5 DEF UsersNext, Inventory, PassSteps
  <2>2. ~Hidden /\ wire # << >>
    BY <2>1 DEF Deliver
  <2>3. scan \notin {"drain", "redrain"}
    BY <2>2, PartsOfSnapshot DEF PassShape, Listening, Hidden
  <2>4. Head(wire) = wire[1] /\ 1 \in 1..Len(wire)
    <3>1. wire \in Seq(Reports)
      BY DEF SessionInv, ReceiverTypes
    <3> QED
      BY <2>2, <3>1, HeadTailProperties, LenProperties, EmptySeq
  <2> QED
    BY <2>3, <2>4, PartsOfSnapshot DEF CausesAreKnown
<1> QED
  BY <1>1, SnapshotInvHolds, SessionInvHolds, PTL DEF UsersSpec, NoEcho
=============================================================================
