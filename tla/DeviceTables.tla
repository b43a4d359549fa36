----------------------------- MODULE DeviceTables -----------------------------
(***************************************************************************)
(* Tables that a device gives out page by page and that are read into what *)
(* it supports: the DPI values of a sensor, in one answer (AdjustableDpi)  *)
(* or in pages (ExtendedDpi), and the gestures among which an older mouse  *)
(* has its thumb wheel (Gestures2).                                        *)
(***************************************************************************)
EXTENDS Naturals, Sequences, FiniteSets

CONSTANTS
    Base,            \* how many values a byte has (256)
    AnswerSize,      \* bytes of a list in one answer (15)
    PageSize,        \* bytes of a list on a page (13)
    MaxPages,        \* how many pages are asked for (16)
    Tables,          \* what a device may have: a list of DPI words, and the
                     \* fields of a gesture table
    FieldsPerPage,   \* (8)
    MaxFields        \* how many fields are asked for (1024)

VARIABLES
    dpiList,         \* the words the sensor gives out
    gestures,        \* the fields the device gives out
    diverted,        \* the divertable gestures that are diverted, by their number
    scanning,        \* what is being read
    page,            \* how many pages of it have been read
    stream,          \* the bytes read so far
    seenDivertable,  \* divertable gestures read so far
    dpiResult,       \* the values understood
    thumbwheel       \* the wheel's number among the divertable gestures

tableVars == <<dpiList, gestures, diverted, scanning, page, stream, seenDivertable,
               dpiResult, thumbwheel>>

\* A word is two bytes and not zero, which ends a list.
ASSUME TablesAreTables ==
    \A table \in Tables : /\ table.dpis \in Seq(1..(Base * Base - 1))
                          /\ table.gestures \in Seq(STRING)
ASSUME SizesAreNatural ==
    /\ Base \in Nat \ {0} /\ AnswerSize \in Nat /\ PageSize \in Nat
    /\ MaxPages \in Nat \ {0} /\ FieldsPerPage \in Nat \ {0} /\ MaxFields \in Nat \ {0}

\* No sensor has zero DPI: a result with zero is a refusal.  A page of
\* another table is refused for itself.
NoResult == {}
Refusal == {0}
LostPage == {0, 1}
\* The wheel is not known yet, there is none, it cannot be diverted, or the
\* table does not end.
Unknown == MaxFields + FieldsPerPage
NoWheel == Unknown + 1
FixedWheel == Unknown + 2
EndlessTable == Unknown + 3

TableInit ==
    /\ \E table \in Tables : dpiList = table.dpis /\ gestures = table.gestures
    /\ diverted = {} /\ scanning = "nothing" /\ page = 0 /\ stream = <<>>
    /\ seenDivertable = 0 /\ dpiResult = NoResult /\ thumbwheel = Unknown
-----------------------------------------------------------------------------
\* A word is two bytes, the high one first; the top three bits tag a step.
\* Zero ends a list.
HyphenTag == 7 * ((Base * Base) \div 8)
Tagged(word) == word >= HyphenTag
Step(word) == word - HyphenTag

\* What the device has in a stretch of its list: what follows the list is zero.
WordAt(i) == IF i <= Len(dpiList) THEN dpiList[i] ELSE 0
ByteAt(i) == IF i % 2 = 1 THEN WordAt((i + 1) \div 2) \div Base ELSE WordAt(i \div 2) % Base
BytesFrom(first, count) == [i \in 1..count |-> ByteAt(first + i - 1)]

\* The words that are complete in these bytes.
Words(bytes) == [i \in 1..(Len(bytes) \div 2) |-> Base * bytes[2 * i - 1] + bytes[2 * i]]
Terminators(words) == {i \in DOMAIN words : words[i] = 0}
Until(words) ==
    IF Terminators(words) = {} THEN words
    ELSE SubSeq(words, 1, (CHOOSE i \in Terminators(words) : \A j \in Terminators(words) : i <= j) - 1)

\* The values from one to the other by steps, the last one always.
Stepped(from, to, step) == {v \in from..to : (v - from) % step = 0} \cup {to}

\* A step that has no start, no end or no size, or that leads down; the pages
\* of a list refuse an end that is a step as well.
Broken(words, i, paged) ==
    \/ Step(words[i]) = 0 \/ i = Len(words) \/ i = 1
    \/ paged /\ Tagged(words[i + 1])
    \/ words[i + 1] < words[i - 1]

\* Values and steps, to the zero or to the end of the answer.
DpiValues(words, paged) ==
    LET From[i \in 1..(Len(words) + 1)] ==
            IF i > Len(words) THEN {}
            ELSE IF ~Tagged(words[i]) THEN {words[i]} \cup From[i + 1]
            ELSE IF Broken(words, i, paged) THEN Refusal
            ELSE Stepped(words[i - 1], words[i + 1], Step(words[i])) \cup From[i + 2]
    IN  IF From[1] = {} \/ 0 \in From[1] THEN Refusal ELSE From[1]

\* parse_dpi_list_payload; parse_dpi_ranges and expand_dpi_ranges.
AdjustableValues(words) == DpiValues(words, FALSE)
ExtendedValues(words) == DpiValues(words, TRUE)
-----------------------------------------------------------------------------
NothingIsRead == scanning = "nothing" /\ dpiResult = NoResult /\ thumbwheel = Unknown

\* AdjustableDpiFeature::get_sensor_dpi_list: a single answer.
ReadAdjustable ==
    /\ NothingIsRead /\ Len(dpiList) <= AnswerSize \div 2
    /\ dpiResult' = AdjustableValues(Until(Words(BytesFrom(1, AnswerSize))))
    /\ UNCHANGED <<dpiList, gestures, diverted, scanning, page, stream,
                   seenDivertable, thumbwheel>>

StartRanges ==
    /\ NothingIsRead /\ scanning' = "ranges" /\ page' = 0 /\ stream' = <<>>
    /\ UNCHANGED <<dpiList, gestures, diverted, seenDivertable, dpiResult, thumbwheel>>

\* What get_sensor_dpi_ranges adds to the stream.
NextPage == stream \o BytesFrom(page * PageSize + 1, PageSize)

\* get_sensor_dpi_ranges: the next page, until a zero word is in the stream.
RangesPage ==
    /\ scanning = "ranges"
    /\ LET more == NextPage
           words == Words(more)
       IN  /\ stream' = more /\ page' = page + 1
           /\ IF Terminators(words) # {}
              THEN dpiResult' = ExtendedValues(Until(words)) /\ scanning' = "nothing"
              ELSE IF page + 1 = MaxPages THEN dpiResult' = Refusal /\ scanning' = "nothing"
              ELSE UNCHANGED <<dpiResult, scanning>>
    /\ UNCHANGED <<dpiList, gestures, diverted, seenDivertable, thumbwheel>>

\* An answer that is for another page is refused.
OtherPage ==
    /\ scanning = "ranges" /\ scanning' = "nothing" /\ dpiResult' = LostPage
    /\ UNCHANGED <<dpiList, gestures, diverted, page, stream, seenDivertable, thumbwheel>>
-----------------------------------------------------------------------------
\* A field of the table: a gesture, the wheel's or another, which may be
\* divertable, something else (a parameter), or the end.
GestureField(i) == IF i <= Len(gestures) THEN gestures[i] ELSE "end"
IsDivertable(f) == f \in {"divertable wheel", "divertable"}
IsWheel(f) == f \in {"divertable wheel", "fixed wheel"}

StartGestures ==
    /\ NothingIsRead /\ scanning' = "gestures" /\ page' = 0 /\ seenDivertable' = 0
    /\ UNCHANGED <<dpiList, gestures, diverted, stream, dpiResult, thumbwheel>>

\* Mutant: the divertable gestures are counted from zero on every page.
CountOfPage(upto) ==
    Cardinality({i \in (page * FieldsPerPage + 1)..(upto - 1) : IsDivertable(GestureField(i))})

\* The divertable gestures before this one of the page.
CountBefore(upto) ==
    seenDivertable
        + Cardinality({i \in (page * FieldsPerPage + 1)..(upto - 1) :
                          IsDivertable(GestureField(i))})

\* Gestures2Feature::thumbwheel with scan_descriptor_page: the first field of
\* the page that is the wheel or the end decides.
GesturesPage ==
    /\ scanning = "gestures"
    /\ LET on == (page * FieldsPerPage + 1)..((page + 1) * FieldsPerPage)
           deciding == {i \in on : IsWheel(GestureField(i)) \/ GestureField(i) = "end"}
           first == CHOOSE i \in deciding : \A j \in deciding : i <= j
       IN  IF deciding = {}
           THEN /\ page' = page + 1
                /\ seenDivertable' = CountBefore((page + 1) * FieldsPerPage + 1)
                /\ IF (page + 1) * FieldsPerPage >= MaxFields
                   THEN scanning' = "nothing" /\ thumbwheel' = EndlessTable
                   ELSE UNCHANGED <<scanning, thumbwheel>>
           ELSE /\ scanning' = "nothing"
                /\ thumbwheel' = CASE GestureField(first) = "end" -> NoWheel
                                   [] GestureField(first) = "fixed wheel" -> FixedWheel
                                   [] OTHER -> CountBefore(first)
                /\ UNCHANGED <<page, seenDivertable>>
    /\ UNCHANGED <<dpiList, gestures, diverted, stream, dpiResult>>

Wheels == {i \in DOMAIN gestures : IsWheel(gestures[i])}

\* set_thumbwheel_diverted: the byte and the bit of it that the wheel has
\* (diversion_address, with as many bits as are on a page), and what the
\* device makes of them.
DivertWheel ==
    /\ scanning = "nothing" /\ thumbwheel < Unknown
    /\ LET offset == thumbwheel \div FieldsPerPage
           bit == thumbwheel % FieldsPerPage
       IN  \E on \in BOOLEAN :
              diverted' = IF on THEN diverted \cup {offset * FieldsPerPage + bit}
                          ELSE diverted \ {offset * FieldsPerPage + bit}
    /\ UNCHANGED <<dpiList, gestures, scanning, page, stream, seenDivertable,
                   dpiResult, thumbwheel>>

TableNext ==
    \/ ReadAdjustable \/ StartRanges \/ RangesPage \/ OtherPage
    \/ StartGestures \/ GesturesPage \/ DivertWheel

TableSpec == TableInit /\ [][TableNext]_tableVars
-----------------------------------------------------------------------------
(***************************************************************************)
(* Properties.                                                             *)
(***************************************************************************)
\* What a list says: every range has two ends that are values.
WellFormedList(list) ==
    /\ list # <<>>
    /\ \A i \in DOMAIN list : Tagged(list[i]) =>
          /\ i > 1 /\ i < Len(list) /\ Step(list[i]) > 0
          /\ ~Tagged(list[i - 1]) /\ ~Tagged(list[i + 1])
          /\ list[i - 1] <= list[i + 1]
Supports(list) ==
    {list[i] : i \in {j \in DOMAIN list : ~Tagged(list[j])}}
    \cup UNION {{v \in list[i - 1]..list[i + 1] : \E n \in 0..v : v = list[i - 1] + n * Step(list[i])} :
                    i \in {j \in DOMAIN list : Tagged(list[j])}}
FitsPages == 2 * (Len(dpiList) + 1) <= MaxPages * PageSize

\* Both readers of a sensor's list come to the values the sensor supports, no
\* matter how the list falls on pages.  A well-formed list is refused only when
\* it does not end within the pages, and pages of a malformed one always are.
DpiTableIsRight ==
    dpiResult \notin {NoResult, LostPage} =>
        IF WellFormedList(dpiList)
        THEN \/ dpiResult = Supports(dpiList)
             \/ dpiResult = Refusal /\ page = MaxPages /\ ~FitsPages
        ELSE page > 0 => dpiResult = Refusal

\* What is diverted is the wheel: the number it is addressed by is the number
\* of divertable gestures before it, on whatever pages they are.
OnlyTheWheelIsDiverted ==
    \A n \in diverted : \E w \in Wheels :
        n = Cardinality({i \in 1..(w - 1) : IsDivertable(gestures[i])})

\* The inductive invariant the proofs use: the stream is the beginning of the
\* list, the count is of the divertable gestures on the pages read, and nothing
\* is read twice.
NumberOf(w) == Cardinality({i \in 1..(w - 1) : IsDivertable(GestureField(i))})
TableTypes ==
    /\ dpiList \in Seq(1..(Base * Base - 1)) /\ gestures \in Seq(STRING)
    /\ scanning \in {"nothing", "ranges", "gestures"} /\ page \in Nat
    /\ thumbwheel \in Nat
TableInv ==
    /\ TableTypes
    /\ NothingIsRead => page = 0
    /\ scanning # "nothing" => dpiResult = NoResult /\ thumbwheel = Unknown
    /\ scanning = "ranges" => page < MaxPages /\ stream = BytesFrom(1, page * PageSize)
    /\ scanning = "gestures" => /\ page * FieldsPerPage < MaxFields
                                /\ seenDivertable = NumberOf(page * FieldsPerPage + 1)
    /\ thumbwheel < Unknown => \E w \in Wheels : thumbwheel = NumberOf(w)
    /\ \A n \in diverted : \E w \in Wheels : n = NumberOf(w)
    /\ DpiTableIsRight

\* Tables that are read in pieces are put together right.
TablesAreRight == DpiTableIsRight /\ OnlyTheWheelIsDiverted
=============================================================================
