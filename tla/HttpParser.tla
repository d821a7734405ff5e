----------------------------- MODULE HttpParser -----------------------------
(***************************************************************************)
(* The HTTP parser of `stewart-http` (parser.rs) as operators on its state *)
(* and on the bytes it is given, and a definition of requests and their    *)
(* fields that knows nothing of it: in terms of positions in the text of a *)
(* request, where the parser accumulates bytes and counts line lengths.    *)
(***************************************************************************)
EXTENDS Naturals, SequencesExt

CONSTANTS
    CR, LF, Colon, Space, \* the bytes that are treated specially or put in
    Letters               \* any others

Bytes == {CR, LF, Colon, Space} \cup Letters

ASSUME BytesAssumption == CR # LF

\* HttpParser::default; last_line and lines count bytes of data.
Clean == [data |-> <<>>, has_cr |-> FALSE, last_line |-> 0, lines |-> <<>>]

Line(p) == SubSeq(p.data, p.last_line + 1, Len(p.data))

\* Mutant of HandleLine: the length is that of all data.
HandleLineAll(p) ==
    [p EXCEPT !.lines = Append(@, Len(p.data)), !.last_line = Len(p.data), !.has_cr = FALSE]

\* handle_line, for a line that is not empty, and the reset after it
HandleLine(p) ==
    [p EXCEPT !.lines = Append(@, Len(Line(p))), !.last_line = Len(p.data), !.has_cr = FALSE]

\* Mutant of PutByte: the CR is not forgotten.
PutByteKeepCr(p, b) ==
    [p EXCEPT !.data = @ \o IF p.has_cr THEN <<Space, b>> ELSE <<b>>]

\* A byte of a line, after a space if a CR was held back before it.
PutByte(p, b) ==
    [p EXCEPT !.data = @ \o IF p.has_cr THEN <<Space, b>> ELSE <<b>>, !.has_cr = FALSE]

\* consume, its loop's body for a byte that does not end the header
ConsumeByte(p, b) ==
    CASE b = CR -> [p EXCEPT !.has_cr = TRUE]
      [] b = LF -> HandleLine(p)
      [] OTHER  -> PutByte(p, b)

ParseField(line) ==
    LET split == SelectInSeq(line, LAMBDA b : b = Colon) IN
    IF split = 0
    THEN [key |-> <<>>, value |-> <<>>]
    ELSE [key |-> SubSeq(line, 1, split - 1), value |-> SubSeq(line, split + 1, Len(line))]

\* Where the lines of these lengths end in the data.
LineEnds(lines) ==
    LET end[i \in 0..Len(lines)] == IF i = 0 THEN 0 ELSE end[i - 1] + lines[i]
    IN  end

\* take_header: the lines are split off the data one after the other, and the
\* first one is left out.
TakeHeader(p) ==
    LET end  == LineEnds(p.lines)
        line == [i \in DOMAIN p.lines |-> SubSeq(p.data, end[i - 1] + 1, end[i])]
    IN  IF line = <<>> THEN <<>> ELSE Tail([i \in DOMAIN line |-> ParseField(line[i])])

\* An LF ends the header where the line before it is empty.
EndsHeader(p, b) == b = LF /\ Line(p) = <<>>

-----------------------------------------------------------------------------
(* The reference: texts of requests.                                       *)

LineFeeds(text) == {i \in DOMAIN text : text[i] = LF}

\* The position of the k-th LF, if k > 0.
LineFeed(text, k) ==
    IF k = 0
    THEN 0
    ELSE CHOOSE i \in LineFeeds(text) : Cardinality({j \in LineFeeds(text) : j <= i}) = k

\* The lines of a text that ends with an LF.
LinesOf(text) ==
    [k \in 1..Cardinality(LineFeeds(text)) |->
        SubSeq(text, LineFeed(text, k - 1) + 1, LineFeed(text, k) - 1)]

\* "CR with no NL needs to be counted as a space" (parser.rs): the one right
\* before the LF belongs to it, and each of the others is a space.
WithSpaces(line) ==
    LET last    == Len(line)
        content == IF line # <<>> /\ line[last] = CR THEN SubSeq(line, 1, last - 1) ELSE line
    IN  [i \in DOMAIN content |-> IF content[i] = CR THEN Space ELSE content[i]]

\* A text with one CR in the place of each run of them.
SingleCrs(text) ==
    FlattenSeq([i \in DOMAIN text |->
        IF i > 1 /\ text[i] = CR /\ text[i - 1] = CR THEN <<>> ELSE <<text[i]>>])

\* A request is the text up to and with its first empty line.
IsRequest(text) ==
    /\ text # <<>> /\ Last(text) = LF
    /\ LET lines == LinesOf(text) IN
       \A k \in DOMAIN lines : WithSpaces(lines[k]) = <<>> <=> k = Len(lines)

\* Its fields, one per line without the first and the empty one: what is before
\* the first colon, and what is after it.
IsFieldOf(field, line) ==
    IF Colon \in ToSet(line)
    THEN field.key \o <<Colon>> \o field.value = line /\ Colon \notin ToSet(field.key)
    ELSE field.key = <<>> /\ field.value = <<>>

IsHeaderOf(header, text) ==
    LET lines == LinesOf(text) IN
    /\ Len(header) = IF Len(lines) < 3 THEN 0 ELSE Len(lines) - 2
    /\ \A k \in DOMAIN header : IsFieldOf(header[k], WithSpaces(lines[k + 1]))

=============================================================================
