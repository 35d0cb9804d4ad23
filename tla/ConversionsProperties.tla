----------------------- MODULE ConversionsProperties -----------------------
(***************************************************************************)
(* What the conversions promise of any text.  A text is put together byte  *)
(* by byte, so every text of at most MaxLength bytes is a state.           *)
(***************************************************************************)
EXTENDS Conversions

CONSTANTS
    Bytes,       \* the bytes a text may have; 0 ends one
    MaxLength    \* bound: length of the texts

ASSUME TextsAssumption == Bytes \subseteq 1 .. 255 /\ MaxLength \in Nat

VARIABLE text

TextsInit == text = <<>>
TextsNext == Len(text) < MaxLength /\ \E c \in Bytes : text' = Append(text, c)
TextsSpec == TextsInit /\ [][TextsNext]_text

-----------------------------------------------------------------------------
\* a dot that has an empty label before or behind it; Domain has taken one
\* final dot away, so a dot that is last is one too many
Closing(d, i) == d[i] = Dot /\ (i = 1 \/ i = Len(d) \/ (i < Len(d) /\ d[i + 1] = Dot))

\* the domain up to its first empty label
UpToEmptyLabel(d) ==
    SubSeq(d, 1, Least({i \in 1 .. Len(d) : Closing(d, i)} \cup {Len(d) + 1}) - 1)

\* no label is as long as 256 bytes
LabelsFit(d) == \A i \in 1 .. Len(d) - 255 : \E j \in i .. i + 255 : d[j] = Dot

\* A name that goes to the wire and back is itself, in lower case and without
\* a final dot; an empty label, which stringToWire does not reject
\* (Vector.hpp:79-80), ends it there, and so may one whose length is no byte.
NamesSurvive ==
    LET d == Domain(text) IN
    LabelsFit(d) => WireToDomain(StringToWire(text)) = UpToEmptyLabel(d)

\* how many of the first i bytes are dots
DotsIn(d, i) == Cardinality({j \in 1 .. i : d[j] = Dot})

\* the domain behind its n-th dot
BehindDot(d, n) == SubSeq(d, Least({i \in 1 .. Len(d) : DotsIn(d, i) = n}) + 1, Len(d))

\* The zone that is asked for is the last two labels of the name, or all of a
\* shorter one; of a name with more labels than label_indices holds
\* (Vector.hpp:21) it is as much longer as the name has labels too many.
ZoneOfName ==
    LET d == UpToEmptyLabel(Domain(text))
        labels == IF d = <<>> THEN 0 ELSE DotsIn(d, Len(d)) + 1
        counted == AtMost(labels, MaxLabels)
        zone == WireToDomain(HostWire(StringToWire(text)))
    IN  LabelsFit(Domain(text)) =>
            zone = IF counted <= 2 THEN d ELSE BehindDot(d, counted - 2)

AtLeast(a, b) == IF a > b THEN a ELSE b

\* a reader of character-strings: those from i on
Strings(wire) ==
    LET from[i \in 1 .. Len(wire) + 1] ==
            IF i > Len(wire) \/ i + wire[i] > Len(wire) THEN <<>>
            ELSE <<SubSeq(wire, i + 1, i + wire[i])>> \o from[i + wire[i] + 1]
    IN  from

\* The rdata of a TXT record is at least one character-string; the i-th one
\* holds the i-th MaxChunk bytes of the text, the last one what is left of it,
\* and nothing follows them (Vector.hpp:104-132).
TxtWhole ==
    LET wire == TxtToWire(text)
        parts == Strings(wire)[1]
        begin(i) == (i - 1) * MaxChunk + 1
    IN  /\ parts # <<>>
        /\ \A i \in 1 .. Len(parts) :
               parts[i] = SubSeq(text, begin(i), AtMost(begin(i + 1) - 1, Len(text)))
        /\ begin(Len(parts)) <= AtLeast(Len(text), 1) /\ Len(text) < begin(Len(parts) + 1)
        /\ Len(wire) = Len(text) + Len(parts)

\* where parameters named Key begin
Params ==
    {i \in Occurrences(text) :
        /\ i = 1 \/ (i > 1 /\ text[i - 1] = Ampersand)
        /\ i + Len(Key) <= Len(text) /\ text[i + Len(Key)] = Equals}

\* A parameter of a Sync request is found, with its value cut to the caller's
\* buffer, if its name does not occur anywhere before it; where a parameter is
\* found under a name no parameter has, the name is the end of a longer one or
\* stands in a value (String.hpp:29-31).
ParamUnlessShadowed ==
    LET first == Least(Occurrences(text)) IN
    /\ Params # {} => (GetParam(text) = ValueAt(text, Least(Params) + Len(Key) + 1)
                         \/ first < Least(Params))
    /\ Params = {} /\ GetParam(text) # NotFound =>
           first > 1 /\ text[first - 1] # Ampersand
=============================================================================
