---------------------------- MODULE Conversions ----------------------------
(***************************************************************************)
(* The conversions of names and texts between the forms they have in the   *)
(* database, in a Sync request and on the wire (Utils::Vector,             *)
(* Utils::String).  Texts and wires are sequences of bytes; positions      *)
(* count from 1.  A loop over a text is a function of the position.        *)
(***************************************************************************)
EXTENDS Integers, Sequences, FiniteSets

CONSTANTS
    MaxLabels,   \* entries of label_indices
    MaxChunk,    \* bytes of a character-string
    MaxValue,    \* maxLen - 1
    Key          \* a parameter's name

Dot == 46
Equals == 61
Ampersand == 38

ASSUME ConversionsAssumption ==
    /\ MaxLabels \in Nat \ {0, 1} /\ MaxChunk \in 1 .. 255 /\ MaxValue \in Nat
    /\ Key \in Seq(1 .. 255) /\ Key # <<>>

Least(S) == CHOOSE i \in S : \A j \in S : i <= j
AtMost(a, b) == IF a < b THEN a ELSE b

-----------------------------------------------------------------------------
(* Names *)

ToLower(c) == IF c \in 65 .. 90 THEN c + 32 ELSE c

\* lower case, without one trailing dot
Domain(text) ==
    LET n == Len(text) IN
    [i \in 1 .. IF n > 0 /\ text[n] = Dot THEN n - 1 ELSE n |-> ToLower(text[i])]

\* the dot behind the label at pos, or the end
LabelEnd(d, pos) == Least({i \in pos .. Len(d) : d[i] = Dot} \cup {Len(d) + 1})

\* labels of no bytes and of too many are not rejected
Labels(d) ==
    LET from[pos \in 1 .. Len(d) + 2] ==
            IF pos > Len(d) THEN <<>>
            ELSE <<(LabelEnd(d, pos) - pos) % 256>> \o SubSeq(d, pos, LabelEnd(d, pos) - 1)
                     \o from[LabelEnd(d, pos) + 1]
    IN  from

StringToWire(input) == Labels(Domain(input))[1] \o <<0>>

\* mutant: the dot is left out behind a label of one byte
WireToDomainDropsDot(wire) ==
    LET ends(i) == i > Len(wire) \/ wire[i] = 0
        from[i \in 1 .. Len(wire) + 1] ==
            LET next == i + wire[i] + 1 IN
            SubSeq(wire, i + 1, next - 1)
              \o (IF ends(next) THEN <<>>
                  ELSE (IF wire[i] = 1 THEN <<>> ELSE <<Dot>>) \o from[next])
    IN  IF ends(1) THEN <<>> ELSE from[1]

Ends(wire, i) == i > Len(wire) \/ wire[i] = 0

\* the labels from the one at i on, with dots between them
Dotted(wire) ==
    LET from[i \in 1 .. Len(wire)] ==
            LET next == i + wire[i] + 1
                label == SubSeq(wire, i + 1, next - 1) IN
            IF Ends(wire, next) THEN label ELSE label \o <<Dot>> \o from[next]
    IN  from

WireToDomain(wire) == IF Ends(wire, 1) THEN <<>> ELSE Dotted(wire)[1]

\* where the labels of a wire begin, from the one at i on
Starts(wire) ==
    LET from[i \in 1 .. Len(wire) + 1] ==
            IF Ends(wire, i) THEN <<>>
            ELSE <<i>> \o from[AtMost(i + wire[i], Len(wire)) + 1]
    IN  from

LabelStarts(wire) == Starts(wire)[1]

\* mutant: the last label is counted too when all are
HostWireOfThree(wire) ==
    LET starts == LabelStarts(wire)
        counted == AtMost(Len(starts), MaxLabels) IN
    IF counted = 0 THEN <<>>
    ELSE SubSeq(wire, IF counted > 3 THEN starts[counted - 2] ELSE 1, Len(wire))

\* getHostWireFromWireNoAlloc and getHostWireFromWire: label_indices is full
\* after MaxLabels labels
HostWire(wire) ==
    LET starts == LabelStarts(wire)
        counted == AtMost(Len(starts), MaxLabels) IN
    IF counted = 0 THEN <<>>
    ELSE SubSeq(wire, IF counted > 2 THEN starts[counted - 1] ELSE 1, Len(wire))

-----------------------------------------------------------------------------
(* TXT rdata *)

\* mutant: an empty text has no character-string
TxtToWireSkipsEmpty(txt) ==
    LET from[pos \in 1 .. Len(txt) + 1] ==
            LET n == AtMost(MaxChunk, Len(txt) - pos + 1) IN
            IF n = 0 THEN <<>>
            ELSE <<n>> \o SubSeq(txt, pos, pos + n - 1) \o from[pos + n]
    IN  from[1]

\* the character-strings from pos on
Chunks(txt) ==
    LET from[pos \in 1 .. Len(txt) + 1] ==
            LET n == AtMost(MaxChunk, Len(txt) - pos + 1) IN
            IF n = 0 THEN <<>>
            ELSE <<n>> \o SubSeq(txt, pos, pos + n - 1) \o from[pos + n]
    IN  from

TxtToWire(txt) == IF txt = <<>> THEN <<0>> ELSE Chunks(txt)[1]

-----------------------------------------------------------------------------
(* The parameters of a Sync request *)

NotFound == <<-1>>

\* strstr
Occurrences(buffer) ==
    {i \in 1 .. Len(buffer) - Len(Key) + 1 : SubSeq(buffer, i, i + Len(Key) - 1) = Key}

\* the value that begins at i
ValueAt(buffer, i) ==
    SubSeq(buffer, i, AtMost(i + MaxValue - 1,
        Least({j \in i .. Len(buffer) : buffer[j] = Ampersand} \cup {Len(buffer) + 1}) - 1))

\* mutant: the last occurrence is looked at
GetLastParam(buffer) ==
    LET Sign(i) == i + Len(Key) IN
    IF Occurrences(buffer) = {} THEN NotFound
    ELSE LET i == CHOOSE i \in Occurrences(buffer) : \A j \in Occurrences(buffer) : j <= i IN
         IF Sign(i) <= Len(buffer) /\ buffer[Sign(i)] = Equals THEN ValueAt(buffer, Sign(i) + 1)
         ELSE NotFound

\* getParamFromCharBuffer: only the first occurrence is looked at
GetParam(buffer) ==
    LET sign == Least(Occurrences(buffer)) + Len(Key) IN
    IF Occurrences(buffer) = {} THEN NotFound
    ELSE IF sign > Len(buffer) THEN NotFound
    ELSE IF buffer[sign] = Equals THEN ValueAt(buffer, sign + 1)
    ELSE NotFound
=============================================================================
