----------------------------- MODULE DeviceNames ------------------------------
(***************************************************************************)
(* Names kept by a device (crates/openlogi-hidpp/src/feature/              *)
(* device_friendly_name.rs and the name of device_type_and_name.rs): they  *)
(* are read and written in parts of fixed size, over several calls that    *)
(* others may come between.                                                *)
(*                                                                         *)
(* A byte is an ASCII character, or the head or tail of a character of two *)
(* bytes; 0 fills a part up.                                               *)
(***************************************************************************)
EXTENDS Naturals, Sequences

CONSTANTS PartSize,      \* bytes of one part of a friendly name (15)
          MarketSizes,   \* and of the marketing name: short and long answers
          MaxName,       \* name_max_length
          NewNames       \* what set_whole_device_name is called with

VARIABLES
    friendly,     \* friendly name, in the device
    market,       \* marketing name, in the device
    reading,      \* a whole name being read
    writing,      \* set_whole_device_name
    disturbed     \* ghost: the name changed while it was read

nameVars == <<friendly, market, reading, writing, disturbed>>

Ascii == "a"
Lead == "h"      \* first byte of a character of two
Trail == "t"     \* its second byte
Pad == "0"
Letters == {Ascii, Lead, Trail, Pad}

ASSUME SizesArePositive ==
    PartSize \in Nat \ {0} /\ MarketSizes \subseteq Nat \ {0} /\ MaxName \in Nat
ASSUME NamesAreText == NewNames \subseteq Seq(Letters)

\* String::from_utf8 of a part by itself.
WellFormed(part) ==
    \A i \in DOMAIN part :
        /\ part[i] = Lead => i < Len(part) /\ part[i + 1] = Trail
        /\ part[i] = Trail => i > 1 /\ part[i - 1] = Lead

NotReading == [of |-> "none", was |-> <<>>, size |-> 0, text |-> <<>>, result |-> "idle"]
NotWriting == [at |-> "idle", rest |-> <<>>, index |-> 0, asked |-> <<>>]

NameInit ==
    /\ friendly \in NewNames /\ market \in NewNames
    /\ Len(friendly) <= MaxName
    /\ reading = NotReading /\ writing = NotWriting /\ disturbed = FALSE
-----------------------------------------------------------------------------
NameOf(kind) == IF kind = "market" THEN market ELSE friendly
KeptBytes(text) == {i \in DOMAIN text : text[i] # Pad}
LastOf(places) == IF places = {} THEN 0 ELSE CHOOSE i \in places : \A j \in places : j <= i
Trimmed(text) == SubSeq(text, 1, LastOf(KeptBytes(text)))
Ready == reading.result # "busy"

\* The count is asked for first; a name of none is read at once.
StartReading(kind, size) ==
    /\ Ready
    /\ size \in IF kind = "market" THEN MarketSizes ELSE {PartSize}
    /\ reading' = [of |-> kind, was |-> NameOf(kind), size |-> size, text |-> <<>>,
                   result |-> IF NameOf(kind) = <<>> THEN "whole" ELSE "busy"]
    /\ disturbed' = FALSE
    /\ UNCHANGED <<friendly, market, writing>>

\* Mutant: the byte that echoes the index is taken for the first of the part.
PartWithEcho(name, index, size) ==
    [i \in 1..size |-> IF i = 1 THEN Ascii
                       ELSE IF index + i - 1 <= Len(name) THEN name[index + i - 1] ELSE Pad]

\* The device's part from an index, filled up with zeroes.
PartFrom(name, index, size) ==
    [i \in 1..size |-> IF index + i <= Len(name) THEN name[index + i] ELSE Pad]

\* Where the next part starts: as far as the text has come, in bytes.
NextIndex(text) == Len(text)

\* One part more; one that is not text by itself ends the call.
ReadPart ==
    /\ reading.result = "busy"
    /\ LET part == PartFrom(NameOf(reading.of), NextIndex(reading.text), reading.size)
           text == reading.text \o part
       IN  reading' =
             IF ~WellFormed(part) THEN [reading EXCEPT !.result = "refused"]
             ELSE IF Len(text) < Len(reading.was) THEN [reading EXCEPT !.text = text]
             ELSE [reading EXCEPT !.text = Trimmed(text), !.result = "whole"]
    /\ UNCHANGED <<friendly, market, writing, disturbed>>

ReadFails ==
    /\ reading.result = "busy"
    /\ reading' = [reading EXCEPT !.result = "failed"]
    /\ UNCHANGED <<friendly, market, writing, disturbed>>
-----------------------------------------------------------------------------
\* The name is cut to what the device holds, and goes in parts, the last one
\* filled up.
StartWriting(new) ==
    /\ writing.at # "busy"
    /\ LET bytes == SubSeq(new, 1, IF Len(new) < MaxName THEN Len(new) ELSE MaxName)
       IN  writing' = [at |-> IF bytes = <<>> THEN "written" ELSE "busy",
                       rest |-> bytes, index |-> 0, asked |-> bytes]
    /\ UNCHANGED <<friendly, market, reading, disturbed>>

\* The device keeps what was before the part and the part up to its zeroes,
\* and answers with the name's length.
Stored(index, part) ==
    LET before == [i \in 1..index |-> IF i <= Len(friendly) THEN friendly[i] ELSE Pad]
        whole == before \o Trimmed(part)
    IN  SubSeq(whole, 1, IF Len(whole) < MaxName THEN Len(whole) ELSE MaxName)

\* Each part goes to the sum of the lengths answered so far.
WritePart ==
    /\ writing.at = "busy"
    /\ LET part == PartFrom(writing.rest, 0, PartSize)
           left == SubSeq(writing.rest, PartSize + 1, Len(writing.rest))
       IN  /\ friendly' = Stored(writing.index, part)
           /\ writing' = [writing EXCEPT !.rest = left,
                             !.index = @ + Len(friendly'),
                             !.at = IF left = <<>> THEN "written" ELSE "busy"]
    /\ disturbed' = (disturbed \/ reading.result = "busy")
    /\ UNCHANGED <<market, reading>>

WritingFails ==
    /\ writing.at = "busy"
    /\ writing' = [writing EXCEPT !.at = "failed"]
    /\ UNCHANGED <<friendly, market, reading, disturbed>>

NameNext ==
    \/ \E kind \in {"friendly", "market"}, size \in MarketSizes \cup {PartSize} :
          StartReading(kind, size)
    \/ ReadPart \/ ReadFails
    \/ \E new \in NewNames : StartWriting(new)
    \/ WritePart \/ WritingFails

NameSpec == NameInit /\ [][NameNext]_nameVars
-----------------------------------------------------------------------------
(***************************************************************************)
(* Properties.                                                             *)
(***************************************************************************)
\* A name that was read while nobody wrote it is the device's, wherever its
\* parts begin and end.
NamesReadWhole ==
    reading.result = "whole" /\ ~disturbed => reading.text = Trimmed(reading.was)

\* The doc of set_whole_device_name: the length it returns is the name's, and
\* the name is what was asked for.
NameIsSet ==
    writing.at = "written" /\ writing.asked # <<>> =>
        friendly = writing.asked /\ writing.index = Len(friendly)
-----------------------------------------------------------------------------
(***************************************************************************)
(* The inductive invariant the proofs use (TLC checks it too).             *)
(***************************************************************************)
NameTypes ==
    /\ friendly \in Seq(Letters) /\ market \in Seq(Letters) /\ disturbed \in BOOLEAN
    /\ reading \in [of : {"none", "friendly", "market"}, was : Seq(Letters), size : Nat,
                    text : Seq(Letters), result : {"idle", "busy", "whole", "refused", "failed"}]
    /\ writing \in [at : {"idle", "busy", "written", "failed"}, rest : Seq(Letters),
                    index : Nat, asked : Seq(Letters)]

\* A read that goes on has less than the name, and what it has is its beginning
\* while nobody writes it.
ReadSoFar ==
    reading.result = "busy" =>
        /\ Len(reading.text) < Len(reading.was)
        /\ ~disturbed => /\ reading.was = NameOf(reading.of)
                         /\ \A i \in 1..Len(reading.text) : reading.text[i] = reading.was[i]

NameInv == NameTypes /\ ReadSoFar /\ NamesReadWhole
=============================================================================
