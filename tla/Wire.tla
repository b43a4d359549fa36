--------------------------------- MODULE Wire ---------------------------------
(***************************************************************************)
(* What the wrappers of HID++ 2.0 features put into their requests and     *)
(* make of answers and events (crates/openlogi-hidpp/src/feature/): the    *)
(* fields of a payload, and a wrapper talking to a device.                 *)
(*                                                                         *)
(* A value is the set of its bits that are one, a payload the set of the   *)
(* places that are one, byte i having the places 8i to 8i+7.  A field says *)
(* where a wrapper puts, or looks for, each bit of a value.  The device    *)
(* knows nothing of fields: it keeps the bytes of its answers and events,  *)
(* and Registers says which bytes of a request go to which of them, and    *)
(* which bytes of two of them are the same.                                *)
(***************************************************************************)
EXTENDS Integers, Sequences, FiniteSets, TLC

CONSTANTS
    Wrappers,     \* name of a feature -> its calls and events
    Registers,    \* name of a feature -> what its devices do with bytes
    MaxCalls      \* bound: calls in a behaviour

ASSUME CallBound == MaxCalls \in Nat

BitsOf(number) == {k \in 0..15 : (number \div 2^k) % 2 = 1}

\* Zero, one, the highest bit alone, and all ones stand for the values of a
\* number.
Samples(width) == {{}, {0}, {width - 1}, 0..(width - 1)}

Field(name, places, takes) ==
    [name |-> name, places |-> places, takes |-> takes, kind |-> "any",
     keeps |-> {}, reads |-> <<>>]

\* A number in these bytes, the most significant one first.
Number(name, bytes) ==
    LET n == Len(bytes)
    IN  Field(name, [k \in 0..(8 * n - 1) |-> 8 * bytes[n - (k \div 8)] + (k % 8)], Samples(8 * n))
Run(first, count) == [i \in 1..count |-> first + i - 1]
U8(name, byte) == Number(name, <<byte>>)
Be16(name, byte) == Number(name, Run(byte, 2))
Le16(name, byte) == Number(name, <<byte + 1, byte>>)
Bytes(name, first, count) == Number(name, Run(first, count))

Bits(name, byte, high, low) ==
    Field(name, [k \in 0..(high - low) |-> 8 * byte + low + k], Samples(high - low + 1))
Flag(name, byte, bit) == Bits(name, byte, bit, bit)
Flags(byte, bits) == {Flag(name, byte, bits[name]) : name \in DOMAIN bits}

\* As many numbers of this many bytes, one after another.
Series(name, first, width, count) ==
    {Bytes(name \o ToString(k), first + width * k, width) : k \in 0..(count - 1)}

\* An enumeration: other values cannot be written, and are refused when read.
OneOf(field, numbers) ==
    [field EXCEPT !.takes = {BitsOf(v) : v \in numbers}, !.kind = "code"]
Code(name, byte, numbers) == OneOf(U8(name, byte), numbers)
\* What can be written is less than what can be read.
Only(field, numbers) == [field EXCEPT !.takes = {BitsOf(v) : v \in numbers}]
\* Zero, for None, leaves what the device has.
OrKeep(field) == [field EXCEPT !.takes = @ \cup {{}}, !.keeps = {{}}]
\* A bit that the device takes only together with the one that marks it changed.
Masked(name, byte, bit, maskByte, maskBit) ==
    [Field(name, (0 :> 8 * byte + bit) @@ (1 :> 8 * maskByte + maskBit), {{}, {1}, {0, 1}})
        EXCEPT !.keeps = {{}, {0}}]
\* Several patterns of bits are read as the same.
ReadAs(field, patterns, meaning(_)) ==
    [field EXCEPT !.takes = patterns,
                  !.reads = [p \in SUBSET DOMAIN field.places |-> meaning(p)]]

\* packed_bcd_u8, packed_bcd_u16: a digit to a nibble; zero, nines, and nines
\* in one of the places.
Decimal(field) ==
    [field EXCEPT !.takes = {v \in {BitsOf(n) : n \in {0, 9, 144, 2304, 36864, 153, 39321}} :
                                 v \subseteq DOMAIN field.places},
                  !.kind = "decimal"]
\* str::from_utf8: among these, only bytes without a high bit are text.
Text(name, first, count) ==
    [Bytes(name, first, count) EXCEPT !.takes = {{}, {0}, {8 * count - 2}}, !.kind = "text"]

\* A byte that is yes unless it is zero.
AnyBit(name, byte) ==
    ReadAs(U8(name, byte), {{}, {0}}, LAMBDA pattern : IF pattern = {} THEN "no" ELSE "yes")

\* A function's number, the bytes its request has room for, and the fields.
Short(function, request, answer) ==
    [function |-> function, room |-> 3, request |-> request, answer |-> answer]
Long(function, request, answer) ==
    [function |-> function, room |-> 16, request |-> request, answer |-> answer]
\* What the first bytes make of a function that does several things.
Variant(kind, call) == [call EXCEPT !.function = @ + 16 * kind]
NoEvents == [e \in {} |-> {}]      \* a feature without events
Event(function, fields) == [function |-> function, fields |-> fields]
-----------------------------------------------------------------------------
Encode(fields, values, room) ==
    {place \in UNION {{f.places[k] : k \in values[f.name] \cap DOMAIN f.places} : f \in fields} :
        place < 8 * room}

Names(fields) == {f.name : f \in fields}
Named(fields, name) == CHOOSE f \in fields : f.name = name
Pattern(field, payload) == {k \in DOMAIN field.places : field.places[k] \in payload}

\* The i-th digit, from the last.
Digit(pattern, i) ==
    CHOOSE d \in 0..15 : BitsOf(d) = {k \in 0..3 : 4 * i + k \in pattern}
Digits(field) == 0..(Cardinality(DOMAIN field.places) \div 4 - 1)

Refuses(field, pattern) ==
    CASE field.kind = "code" -> pattern \notin field.takes
      [] field.kind = "decimal" -> \E i \in Digits(field) : Digit(pattern, i) > 9
      [] field.kind = "text" -> \E k \in pattern : k % 8 = 7
      [] OTHER -> FALSE

\* What a field is read as.
Reading(field, pattern) ==
    CASE field.kind = "decimal" ->
           LET upTo[i \in Nat] == IF i = 0 THEN 0
                                  ELSE upTo[i - 1] + 10^(i - 1) * Digit(pattern, i - 1)
           IN  upTo[Cardinality(Digits(field))]
      [] field.reads # <<>> -> field.reads[pattern]
      [] OTHER -> pattern

\* What a request changes of a value; the marks of changes are no part of it.
Kept(field, value) == IF Cardinality(field.keeps) = 2 THEN value \ {1} ELSE value
-----------------------------------------------------------------------------
(***************************************************************************)
(* The device: requests, answers and events by function or sub-id.         *)
(***************************************************************************)
Q(function) == <<"request", function>>
A(function) == <<"answer", function>>
E(subId) == <<"event", subId>>

\* Places of one payload that go to, or are, places of another; a request does
\* not touch them when the places of the group have just the spared bits.
Row(from, to, move, group, spares) ==
    [from |-> from, to |-> to, move |-> move, group |-> group, spares |-> spares]
PlacesOf(bytes) == UNION {(8 * b)..(8 * b + 7) : b \in bytes}
Move(from, to, bytes, by) ==
    {Row(from, to, [p \in PlacesOf(bytes) |-> p + 8 * by], {}, {0})}
MoveBits(from, to, bits, by) == {Row(from, to, [p \in bits |-> p + by], {}, {0})}
Same(froms, to, bytes) == UNION {Move(from, to, bytes, 0) : from \in froms}
SameBits(froms, to, bits) == UNION {MoveBits(from, to, bits, 0) : from \in froms}
\* Zero leaves what the device has.
UnlessZero(from, to, bytes) ==
    {Row(from, to, [p \in PlacesOf(bytes) |-> p], PlacesOf(bytes), {})}
EachUnlessZero(from, to, bytes) == UNION {UnlessZero(from, to, {b}) : b \in bytes}
\* A bit is taken only when the one that marks it is set.
Marked(from, to, bit, mark, by) == {Row(from, to, [p \in {bit} |-> p + by], {mark}, {})}
-----------------------------------------------------------------------------
(***************************************************************************)
(* What the wrappers have in common.                                       *)
(***************************************************************************)
CallsOf(wrapper) == {wrapper.calls[c] : c \in DOMAIN wrapper.calls}
EventsOf(wrapper) == {wrapper.events[e] : e \in DOMAIN wrapper.events}

\* The fields of what a device tells, and all fields.
Told(wrapper) == {A(c.function) : c \in CallsOf(wrapper)}
                        \cup {E(e.function) : e \in EventsOf(wrapper)}
FieldsOf(wrapper, report) ==
    (UNION {c.answer : c \in {d \in CallsOf(wrapper) : report = A(d.function)}})
        \cup (UNION {e.fields : e \in {d \in EventsOf(wrapper) : report = E(d.function)}})
AllFields(wrapper) ==
    (UNION {FieldsOf(wrapper, x) : x \in Told(wrapper)})
        \cup (UNION {c.request : c \in CallsOf(wrapper)})

\* Of the values that every field of a name takes, the ones with the fewest
\* and with the most bits: all fields but one have these.
Common(fields) == {v \in UNION {g.takes : g \in fields} : \A g \in fields : v \in g.takes}
Fewest(values) == CHOOSE v \in values : \A u \in values : Cardinality(v) <= Cardinality(u)
Most(values) == CHOOSE v \in values : \A u \in values : Cardinality(v) >= Cardinality(u)
Extremes(values) == <<Fewest(values), Most(values)>>
ShadesOf(fields) ==
    [name \in Names(fields) |-> Extremes(Common({g \in fields : g.name = name}))]
Shades == [f \in DOMAIN Wrappers |-> ShadesOf(AllFields(Wrappers[f]))]
Shaded(name, names, full) == [n \in names |-> Shades[name][n][IF full THEN 2 ELSE 1]]
-----------------------------------------------------------------------------
VARIABLES
    feature,     \* the feature at work in this behaviour
    held,        \* the bytes the device has for its answers and events
    calling,     \* the function that waits for its answer
    calls,       \* calls made
    learned,     \* ghost: by name, what a wrapper has set or was told
    meant,       \* ghost: what was learned of the fields of the last payload,
    heard        \* and what was made of them

wireVars == <<feature, held, calling, calls, learned, meant, heard>>

NoCall == "no call"
Unnamed == [n \in {} |-> {}]
-----------------------------------------------------------------------------
(***************************************************************************)
(* Bytes in the device.                                                    *)
(***************************************************************************)
RowsFrom(x) == {row \in Registers[feature] : row.from = x}
Elsewhere(x) == UNION {DOMAIN row.move : row \in RowsFrom(x)}

\* The bytes when these places of a payload are as in this one.
Put(bytes, x, places, payload) ==
    LET taken == {row \in RowsFrom(x) : payload \cap row.group # row.spares}
        own == IF x \in DOMAIN bytes THEN {x} ELSE {}
        into(report, among) ==
            (IF report \in own THEN among \ Elsewhere(x) ELSE {})
                \cup UNION {{row.move[p] : p \in among \cap DOMAIN row.move} :
                               row \in {w \in taken : w.to = report}}
    IN  [report \in own \cup {row.to : row \in taken} |->
            (bytes[report] \ into(report, places)) \cup into(report, payload \cap places)] @@ bytes

\* What the device has to tell in a report.
Payload(x) ==
    (held[x] \ Elsewhere(x))
        \cup UNION {{p \in DOMAIN row.move : row.move[p] \in held[row.to]} : row \in RowsFrom(x)}

\* A device as it may be found: every field has few bits, or every one many,
\* but at most one has something else, or what the wrapper refuses.
Odd(field) == CASE field.kind \in {"code", "text"} -> {DOMAIN field.places}
                [] field.kind = "decimal" -> {{1, 3}}
                [] OTHER -> {}
Plain ==
    [f \in DOMAIN Wrappers |->
        [full \in BOOLEAN |->
            [x \in Told(Wrappers[f]) |->
                LET fields == FieldsOf(Wrappers[f], x)
                IN  Encode(fields, Shaded(f, Names(fields), full), 16)]]]
Found(wrapper, plain) ==
    {plain}
        \cup UNION {UNION {{Put(plain, x, {f.places[k] : k \in DOMAIN f.places},
                               {f.places[k] : k \in v}) : v \in f.takes \cup Odd(f)} :
                            f \in FieldsOf(wrapper, x)} : x \in Told(wrapper)}

WireInit ==
    /\ feature \in DOMAIN Wrappers
    /\ \E full \in BOOLEAN : held \in Found(Wrappers[feature], Plain[feature][full])
    /\ calling = NoCall /\ calls = 0 /\ learned = Unnamed /\ meant = Unnamed /\ heard = Unnamed
-----------------------------------------------------------------------------
\* What a wrapper is called with: at most one value that is not the shade's, and
\* none of a device that has one itself; later, what is known.
Varied(fields, plain) ==
    {plain} \cup UNION {{[plain EXCEPT ![f.name] = v] : v \in f.takes} : f \in fields}
Wanted(fields) ==
    IF learned = Unnamed
    THEN IF \E full \in BOOLEAN : held = Plain[feature][full]
         THEN UNION {Varied(fields, Shaded(feature, Names(fields), full)) : full \in BOOLEAN}
         ELSE {Shaded(feature, Names(fields), FALSE)}
    ELSE {[n \in Names(fields) |->
              IF n \in DOMAIN learned /\ learned[n] \in Named(fields, n).takes THEN learned[n]
              ELSE Shades[feature][n][1]]}

\* What follows speaks of something that is known.
Related(fields) == learned = Unnamed \/ DOMAIN learned \cap Names(fields) # {}

\* A wrapper is called and writes its request: FeatureEndpoint::call,
\* call_long, notify.  The device takes of it what its registers say.
Request(name, call) ==
    /\ calling = NoCall /\ calling' = name
    /\ calls < MaxCalls /\ calls' = calls + 1
    /\ Related(call.answer)
    /\ \E values \in Wanted(call.request) :
          LET set == {n \in Names(call.request) : values[n] \notin Named(call.request, n).keeps}
          IN  /\ held' = Put(held, Q(call.function), 0..127,
                             Encode(call.request, values, call.room))
              /\ learned' = [n \in set |-> Kept(Named(call.request, n), values[n])] @@ learned
    /\ meant' = Unnamed /\ heard' = Unnamed
    /\ UNCHANGED feature

\* A payload from the device, with the fields that the wrapper reads: one that
\* it refuses makes the call fail, and nothing is read.
Receive(fields, payload) ==
    LET pattern(n) == Pattern(Named(fields, n), payload)
        refused == {n \in Names(fields) : Refuses(Named(fields, n), pattern(n))}
    IN  /\ meant' = [n \in Names(fields) \cap DOMAIN learned |->
                        <<Reading(Named(fields, n), learned[n])>>]
        /\ heard' = IF refused # {} THEN [n \in refused |-> <<>>]
                    ELSE [n \in Names(fields) |-> <<Reading(Named(fields, n), pattern(n))>>]
        /\ learned' = learned @@ IF refused # {} THEN Unnamed
                             ELSE [n \in Names(fields) |-> pattern(n)]

Respond(call) ==
    /\ calling' = NoCall
    /\ Receive(call.answer, Payload(A(call.function)))
    /\ UNCHANGED <<feature, held, calls>>

\* DecodeEvent::decode tells events apart by their sub-id.
Notify(wrapper) ==
    /\ calling = NoCall
    /\ \E event \in EventsOf(wrapper) :
          Related(event.fields) /\ Receive(event.fields, Payload(E(event.function)))
    /\ UNCHANGED <<feature, held, calling, calls>>

WireStep(wrapper) ==
    \/ Notify(wrapper)
    \/ \E name \in DOMAIN wrapper.calls : Request(name, wrapper.calls[name])
    \/ calling # NoCall /\ Respond(wrapper.calls[calling])
WireNext == WireStep(Wrappers[feature])

WireSpec == WireInit /\ [][WireNext]_wireVars
-----------------------------------------------------------------------------
(***************************************************************************)
(* Properties.                                                             *)
(***************************************************************************)
(* What a wrapper has set, or was told before, it is told again under the  *)
(* same name, by whichever answer or event has it, and with whatever else  *)
(* was in the device: the layouts with which a request is written, its own *)
(* answer, the answer of the function that reads and the event agree with  *)
(* where the device has the bytes, a value is not cut off by a short       *)
(* request, does not spill into another field, nor is refused when it is   *)
(* read although it could be set.  (feature/*: the to-bytes and from-bytes *)
(* halves of each wrapper, which are written separately.)                  *)
ReadAsMeant == \A n \in DOMAIN heard \cap DOMAIN meant : heard[n] = meant[n]
=============================================================================
