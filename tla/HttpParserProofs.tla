-------------------------- MODULE HttpParserProofs --------------------------
(***************************************************************************)
(* What the parser makes of a text, byte by byte: its lines, with spaces   *)
(* for the CRs in them, and in the end the header.                         *)
(***************************************************************************)
EXTENDS HttpParser, SequenceLemmas, FiniteSetTheorems

\* The states of the parser, and the headers that it returns.
Parsers == [data : Seq(Bytes), has_cr : BOOLEAN, last_line : Nat, lines : Seq(Nat)]
Headers == {TakeHeader(p) : p \in Parsers}

\* The lengths of the lines are those of data, one after the other.
Fits(p) ==
    /\ p.last_line <= Len(p.data)
    /\ LineEnds(p.lines)[Len(p.lines)] = p.last_line
    /\ \A k \in 0..Len(p.lines) : LineEnds(p.lines)[k] \in 0..p.last_line

-----------------------------------------------------------------------------
(* The ends of the lines.                                                  *)

\* Where the first n lines end.
EndsUpTo(lines, n, f) ==
    /\ f[0] = 0
    /\ \A k \in 1..n : f[k] = f[k - 1] + lines[k]

\* There are such ends.
LEMMA EndsExist ==
    ASSUME NEW lines \in Seq(Nat), NEW n \in 0..Len(lines)
    PROVE  \E f \in [0..n -> Nat] : EndsUpTo(lines, n, f)
<1> DEFINE Bad == {k \in 0..Len(lines) : ~\E f \in [0..k -> Nat] : EndsUpTo(lines, k, f)}
<1> SUFFICES ASSUME Bad # {} PROVE FALSE
    OBVIOUS
<1>1. PICK k \in Bad : \A j \in Bad : k <= j
    <2>1. Bad \in SUBSET Nat
        OBVIOUS
    <2> QED
        BY <2>1, LeastNat
<1>2. CASE k = 0
    <2>1. [i \in 0..0 |-> 0] \in [0..0 -> Nat]
        OBVIOUS
    <2>2. EndsUpTo(lines, 0, [i \in 0..0 |-> 0])
        BY DEF EndsUpTo
    <2> QED
        BY <1>2, <2>1, <2>2
<1>3. CASE k # 0
    <2>1. k \in 1..Len(lines) /\ k - 1 \in 0..Len(lines) /\ ~(k <= k - 1) /\ lines[k] \in Nat
        BY <1>3
    <2>2. k - 1 \notin Bad
        BY <2>1, <1>1, Zenon
    <2>3. PICK f \in [0..(k - 1) -> Nat] : EndsUpTo(lines, k - 1, f)
        BY <2>1, <2>2
    <2> DEFINE g == [i \in 0..k |-> IF i < k THEN f[i] ELSE f[k - 1] + lines[k]]
    <2>4. g \in [0..k -> Nat]
        BY <2>1
    <2>5. ASSUME NEW j \in 1..k
          PROVE  g[j] = g[j - 1] + lines[j]
        <3>1. /\ j \in 0..k /\ j - 1 \in 0..k /\ j - 1 < k
              /\ j < k => j \in 1..(k - 1)
              /\ ~(j < k) => j = k
            BY <2>1
        <3> QED
            BY <3>1, <2>3 DEF EndsUpTo
    <2>6. g[0] = 0
        BY <2>1, <2>3 DEF EndsUpTo
    <2> QED
        BY <2>4, <2>5, <2>6, Zenon DEF EndsUpTo
<1> QED
    BY <1>2, <1>3

\* And LineEnds gives them.
LEMMA LineEndsAre ==
    ASSUME NEW lines \in Seq(Nat),
           NEW f \in [0..Len(lines) -> Nat], EndsUpTo(lines, Len(lines), f)
    PROVE  \A i \in 0..Len(lines) : LineEnds(lines)[i] = f[i]
<1> DEFINE Body(g) == [i \in 0..Len(lines) |-> IF i = 0 THEN 0 ELSE g[i - 1] + lines[i]]
           ends == CHOOSE g : g = Body(g)
<1>1. ASSUME NEW i \in 0..Len(lines) PROVE f[i] = Body(f)[i]
    <2>1. i = 0 \/ i \in 1..Len(lines)
        OBVIOUS
    <2> QED
        BY <2>1 DEF EndsUpTo
<1>2. f = Body(f)
    BY <1>1
<1>3. ends = Body(ends)
    <2> HIDE DEF Body
    <2> QED
        BY <1>2, Zenon
<1>4. LineEnds(lines) = ends
    BY Zenon DEF LineEnds
<1> HIDE DEF ends
<1> DEFINE Bad == {i \in 0..Len(lines) : ends[i] # f[i]}
<1>5. Bad = {}
    <2> SUFFICES ASSUME Bad # {} PROVE FALSE
        OBVIOUS
    <2>1. PICK i \in Bad : \A j \in Bad : i <= j
        <3>1. Bad \in SUBSET Nat
            OBVIOUS
        <3> QED
            BY <3>1, LeastNat
    <2>2. ends[i] = IF i = 0 THEN 0 ELSE ends[i - 1] + lines[i]
        <3>1. ends[i] = Body(ends)[i]
            <4> HIDE DEF Body
            <4> QED
                BY <1>3, Zenon
        <3> QED
            BY <2>1, <3>1
    <2>3. f[i] = IF i = 0 THEN 0 ELSE f[i - 1] + lines[i]
        BY <1>1
    <2>4. i # 0
        BY <2>2, <2>3
    <2>5. i - 1 \in 0..Len(lines) /\ ~(i <= i - 1)
        BY <2>4
    <2>6. i - 1 \notin Bad
        BY <2>5, <2>1, Zenon
    <2>7. ends[i - 1] = f[i - 1]
        BY <2>5, <2>6
    <2> QED
        BY <2>1, <2>2, <2>3, <2>4, <2>7
<1> QED
    BY <1>4, <1>5

\* One more line ends where its length says, after the others.
LEMMA LineEndsAppend ==
    /\ LineEnds(<<>>)[0] = 0
    /\ \A lines \in Seq(Nat), n \in Nat :
          /\ LineEnds(Append(lines, n))[Len(lines) + 1] = LineEnds(lines)[Len(lines)] + n
          /\ \A k \in 0..Len(lines) : LineEnds(Append(lines, n))[k] = LineEnds(lines)[k]
<1>1. LineEnds(<<>>)[0] = 0
    <2>1. <<>> \in Seq(Nat) /\ Len(<<>>) = 0
        OBVIOUS
    <2>2. [i \in 0..0 |-> 0] \in [0..0 -> Nat] /\ 0 \in 0..0
        OBVIOUS
    <2>3. EndsUpTo(<<>>, 0, [i \in 0..0 |-> 0])
        BY DEF EndsUpTo
    <2> QED
        BY <2>1, <2>2, <2>3, LineEndsAre
<1>2. ASSUME NEW lines \in Seq(Nat), NEW n \in Nat
      PROVE  /\ LineEnds(Append(lines, n))[Len(lines) + 1] = LineEnds(lines)[Len(lines)] + n
             /\ \A k \in 0..Len(lines) : LineEnds(Append(lines, n))[k] = LineEnds(lines)[k]
    <2> DEFINE more == Append(lines, n)
    <2>1. /\ more \in Seq(Nat) /\ Len(more) = Len(lines) + 1 /\ Len(lines) \in Nat
          /\ more[Len(lines) + 1] = n
          /\ \A i \in 1..Len(lines) : more[i] = lines[i]
        BY AppendProperties
    <2> HIDE DEF more
    <2>2. Len(more) \in 0..Len(more)
        BY <2>1
    <2>3. PICK f \in [0..Len(more) -> Nat] : EndsUpTo(more, Len(more), f)
        BY <2>1, <2>2, EndsExist
    <2> DEFINE g == [i \in 0..Len(lines) |-> f[i]]
    <2>4. g \in [0..Len(lines) -> Nat]
        BY <2>1
    <2>5. ASSUME NEW k \in 1..Len(lines) PROVE g[k] = g[k - 1] + lines[k]
        <3>1. k \in 0..Len(lines) /\ k - 1 \in 0..Len(lines) /\ k \in 1..Len(more)
            BY <2>1
        <3>2. f[k] = f[k - 1] + more[k]
            BY <3>1, <2>3 DEF EndsUpTo
        <3> QED
            BY <3>1, <3>2, <2>1
    <2>6. g[0] = 0
        BY <2>1, <2>3 DEF EndsUpTo
    <2>7. EndsUpTo(lines, Len(lines), g)
        BY <2>5, <2>6, Zenon DEF EndsUpTo
    <2>8. LineEnds(more)[Len(lines) + 1] = f[Len(lines) + 1]
        BY <2>1, <2>2, <2>3, LineEndsAre
    <2>9. ASSUME NEW k \in 0..Len(lines)
          PROVE  LineEnds(lines)[k] = f[k] /\ LineEnds(more)[k] = f[k]
        <3>1. k \in 0..Len(more)
            BY <2>1
        <3>2. LineEnds(lines)[k] = g[k]
            BY <2>4, <2>7, LineEndsAre
        <3>3. LineEnds(more)[k] = f[k]
            BY <3>1, <2>1, <2>3, LineEndsAre
        <3> QED
            BY <3>2, <3>3
    <2>10. f[Len(lines) + 1] = f[Len(lines)] + n
        <3>1. Len(lines) + 1 \in 1..Len(more) /\ (Len(lines) + 1) - 1 = Len(lines)
            BY <2>1
        <3> QED
            BY <3>1, <2>1, <2>3 DEF EndsUpTo
    <2>11. Len(lines) \in 0..Len(lines)
        BY <2>1
    <2> QED
        BY <2>8, <2>9, <2>10, <2>11 DEF more
<1> QED
    BY <1>1, <1>2

\* The parser begins, and begins again, without any lines.
LEMMA CleanFits == Clean \in Parsers /\ Fits(Clean)
<1>1. <<>> \in Seq(Bytes) /\ <<>> \in Seq(Nat) /\ Len(<<>>) = 0 /\ 0..0 = {0}
    OBVIOUS
<1> QED
    BY <1>1, LineEndsAppend DEF Clean, Parsers, Fits

\* Whatever byte it takes, its lengths fit its data.
LEMMA ConsumeByteFits ==
    ASSUME NEW p \in Parsers, Fits(p), NEW b \in Bytes
    PROVE  ConsumeByte(p, b) \in Parsers /\ Fits(ConsumeByte(p, b))
<1>1. /\ p.data \in Seq(Bytes) /\ p.has_cr \in BOOLEAN /\ p.last_line \in Nat
      /\ p.lines \in Seq(Nat) /\ p.last_line <= Len(p.data)
      /\ LineEnds(p.lines)[Len(p.lines)] = p.last_line
      /\ Len(p.data) \in Nat /\ Len(p.lines) \in Nat
      /\ \A k \in 0..Len(p.lines) : LineEnds(p.lines)[k] \in 0..p.last_line
    BY DEF Parsers, Fits
<1>2. [p EXCEPT !.has_cr = TRUE] \in Parsers /\ Fits([p EXCEPT !.has_cr = TRUE])
    BY <1>1 DEF Parsers, Fits
<1>3. HandleLine(p) \in Parsers /\ Fits(HandleLine(p))
    <2> DEFINE n == Len(Line(p))
    <2>1. n = Len(p.data) - p.last_line /\ n \in Nat
        <3>1. p.last_line + 1 \in 1..(Len(p.data) + 1) /\ Len(p.data) \in 0..Len(p.data)
            BY <1>1
        <3>2. Len(Line(p)) = IF p.last_line + 1 <= Len(p.data)
                             THEN Len(p.data) - (p.last_line + 1) + 1 ELSE 0
            BY <1>1, <3>1, PartOf, SMTT(30) DEF Line
        <3> QED
            BY <3>2, <1>1, SMTT(30)
    <2> HIDE DEF n
    <2>2. /\ Append(p.lines, n) \in Seq(Nat)
          /\ Len(Append(p.lines, n)) = Len(p.lines) + 1
        BY <1>1, <2>1, AppendProperties
    <2>3. LineEnds(Append(p.lines, n))[Len(p.lines) + 1] = Len(p.data)
        <3>1. LineEnds(Append(p.lines, n))[Len(p.lines) + 1] = LineEnds(p.lines)[Len(p.lines)] + n
            BY <1>1, <2>1, LineEndsAppend
        <3> QED
            BY <1>1, <2>1, <3>1
    <2>8. ASSUME NEW k \in 0..(Len(p.lines) + 1)
          PROVE  LineEnds(Append(p.lines, n))[k] \in 0..Len(p.data)
        <3>1. k \in 0..Len(p.lines) \/ k = Len(p.lines) + 1
            BY <1>1
        <3>2. \A j \in 0..Len(p.lines) : LineEnds(Append(p.lines, n))[j] = LineEnds(p.lines)[j]
            BY <1>1, <2>1, LineEndsAppend
        <3> QED
            BY <3>1, <3>2, <1>1, <2>3
    <2> DEFINE q == [p EXCEPT !.lines = Append(p.lines, n), !.last_line = Len(p.data),
                              !.has_cr = FALSE]
    <2>4. HandleLine(p) = q
        BY DEF HandleLine, n
    <2>5. q \in Parsers
        BY <1>1, <2>2 DEF Parsers
    <2>6. /\ q.data = p.data /\ q.last_line = Len(p.data)
          /\ q.lines = Append(p.lines, n)
        BY DEF Parsers
    <2>7. Fits(q)
        <3> HIDE DEF q
        <3> QED
            BY <1>1, <2>2, <2>3, <2>6, <2>8 DEF Fits
    <2> QED
        BY <2>4, <2>5, <2>7
<1>4. PutByte(p, b) \in Parsers /\ Fits(PutByte(p, b))
    <2> DEFINE more == IF p.has_cr THEN <<Space, b>> ELSE <<b>>
    <2>1. more \in Seq(Bytes)
        <3>1. Space \in Bytes
            BY DEF Bytes
        <3>2. <<Space, b>> \in Seq(Bytes) /\ <<b>> \in Seq(Bytes)
            BY <3>1
        <3> QED
            BY <3>2
    <2> HIDE DEF more
    <2>2. /\ p.data \o more \in Seq(Bytes) /\ Len(p.data \o more) \in Nat
          /\ Len(p.data) <= Len(p.data \o more)
        <3>1. Len(p.data \o more) = Len(p.data) + Len(more) /\ Len(more) \in Nat
            BY <1>1, <2>1, ConcatProperties
        <3> QED
            BY <3>1, <1>1, <2>1, ConcatProperties
    <2> DEFINE q == [p EXCEPT !.data = p.data \o more, !.has_cr = FALSE]
    <2>3. PutByte(p, b) = q
        BY DEF PutByte, more
    <2>4. q \in Parsers
        BY <1>1, <2>2 DEF Parsers
    <2>5. /\ q.data = p.data \o more /\ q.last_line = p.last_line
          /\ q.lines = p.lines
        BY DEF Parsers
    <2>6. Fits(q)
        <3> HIDE DEF q
        <3> QED
            BY <1>1, <2>2, <2>5 DEF Fits
    <2> QED
        BY <2>3, <2>4, <2>6
<1> QED
    BY <1>2, <1>3, <1>4 DEF ConsumeByte


-----------------------------------------------------------------------------
(* The lines in the parser's data.                                         *)

\* The lines that have ended.
DataLines(p) ==
    [i \in 1..Len(p.lines) |->
        SubSeq(p.data, LineEnds(p.lines)[i - 1] + 1, LineEnds(p.lines)[i])]

\* They and the one that has not are sequences of bytes.
LEMMA LinesType ==
    ASSUME NEW p \in Parsers, Fits(p)
    PROVE  /\ DataLines(p) \in Seq(Seq(Bytes)) /\ Len(DataLines(p)) = Len(p.lines)
           /\ Line(p) \in Seq(Bytes)
<1>1. /\ p.data \in Seq(Bytes) /\ p.last_line \in Nat /\ p.last_line <= Len(p.data)
      /\ Len(p.data) \in Nat /\ Len(p.lines) \in Nat
      /\ \A k \in 0..Len(p.lines) : LineEnds(p.lines)[k] \in 0..p.last_line
    BY LenProperties DEF Parsers, Fits
<1>2. ASSUME NEW i \in 1..Len(p.lines)
      PROVE  SubSeq(p.data, LineEnds(p.lines)[i - 1] + 1, LineEnds(p.lines)[i]) \in Seq(Bytes)
    <2>1. i \in 0..Len(p.lines) /\ i - 1 \in 0..Len(p.lines)
        BY <1>1
    <2>2. /\ LineEnds(p.lines)[i - 1] + 1 \in 1..(Len(p.data) + 1)
          /\ LineEnds(p.lines)[i] \in 0..Len(p.data)
        BY <2>1, <1>1, SMTT(30)
    <2> DEFINE first == LineEnds(p.lines)[i - 1] + 1
               last  == LineEnds(p.lines)[i]
    <2> HIDE DEF first, last
    <2>3. first \in 1..(Len(p.data) + 1) /\ last \in 0..Len(p.data)
        BY <2>2 DEF first, last
    <2>4. SubSeq(p.data, first, last) \in Seq(Bytes)
        BY <2>3, <1>1, PartOf
    <2> QED
        BY <2>4 DEF first, last
<1>3. Line(p) \in Seq(Bytes)
    <2>1. p.last_line + 1 \in 1..(Len(p.data) + 1) /\ Len(p.data) \in 0..Len(p.data)
        BY <1>1
    <2> QED
        BY <2>1, <1>1, PartOf DEF Line
<1>4. DataLines(p) \in [1..Len(p.lines) -> Seq(Bytes)]
    BY <1>2 DEF DataLines
<1>5. DataLines(p) \in Seq(Seq(Bytes)) /\ Len(DataLines(p)) = Len(p.lines)
    BY <1>1, <1>4, FunctionIsSeq
<1> QED
    BY <1>3, <1>5

\* What is put at the end of the data belongs to the line that has not ended.
LEMMA DataGrows ==
    ASSUME NEW p \in Parsers, Fits(p), NEW more \in Seq(Bytes),
           NEW q \in Parsers, q.data = p.data \o more,
           q.last_line = p.last_line, q.lines = p.lines
    PROVE  DataLines(q) = DataLines(p) /\ Line(q) = Line(p) \o more
<1>1. /\ p.data \in Seq(Bytes) /\ p.last_line \in Nat /\ p.last_line <= Len(p.data)
      /\ Len(p.data) \in Nat /\ Len(p.lines) \in Nat
      /\ \A k \in 0..Len(p.lines) : LineEnds(p.lines)[k] \in 0..p.last_line
    BY LenProperties DEF Parsers, Fits
<1>2. ASSUME NEW i \in 1..Len(p.lines)
      PROVE  SubSeq(q.data, LineEnds(p.lines)[i - 1] + 1, LineEnds(p.lines)[i])
                 = SubSeq(p.data, LineEnds(p.lines)[i - 1] + 1, LineEnds(p.lines)[i])
    <2>1. i \in 0..Len(p.lines) /\ i - 1 \in 0..Len(p.lines)
        BY <1>1
    <2>2. LineEnds(p.lines)[i - 1] \in 0..p.last_line /\ LineEnds(p.lines)[i] \in 0..p.last_line
        BY <2>1, <1>1
    <2>3. /\ LineEnds(p.lines)[i - 1] + 1 \in 1..(Len(p.data) + 1)
          /\ LineEnds(p.lines)[i] \in 0..Len(p.data)
        BY <2>2, <1>1, SMTT(30)
    <2> DEFINE first == LineEnds(p.lines)[i - 1] + 1
               last  == LineEnds(p.lines)[i]
    <2> HIDE DEF first, last
    <2>4. first \in 1..(Len(p.data) + 1) /\ last \in 0..Len(p.data)
        BY <2>3 DEF first, last
    <2>5. SubSeq(p.data \o more, first, last) = SubSeq(p.data, first, last)
        BY <2>4, <1>1, PartOfConcat
    <2> QED
        BY <2>5 DEF first, last
<1>3. DataLines(q) = DataLines(p)
    BY <1>2 DEF DataLines
<1>4. Line(q) = Line(p) \o more
    <2>1. p.last_line + 1 \in 1..(Len(p.data) + 1)
        BY <1>1
    <2> QED
        BY <2>1, <1>1, RestOfConcat DEF Line
<1> QED
    BY <1>3, <1>4

\* An LF ends it.
LEMMA LineIsAdded ==
    ASSUME NEW p \in Parsers, Fits(p)
    PROVE  LET q == HandleLine(p) IN
           /\ DataLines(q) = Append(DataLines(p), Line(p))
           /\ Line(q) = <<>> /\ ~q.has_cr
<1> DEFINE n == Len(Line(p))
<1>1. /\ p.data \in Seq(Bytes) /\ p.last_line \in Nat /\ p.last_line <= Len(p.data)
      /\ p.lines \in Seq(Nat) /\ Len(p.data) \in Nat /\ Len(p.lines) \in Nat
      /\ \A k \in 0..Len(p.lines) : LineEnds(p.lines)[k] \in 0..p.last_line
      /\ LineEnds(p.lines)[Len(p.lines)] = p.last_line
    BY LenProperties DEF Parsers, Fits
<1>2. n = Len(p.data) - p.last_line /\ n \in Nat
    <2>1. p.last_line + 1 \in 1..(Len(p.data) + 1) /\ Len(p.data) \in 0..Len(p.data)
        BY <1>1
    <2>2. Len(Line(p)) = IF p.last_line + 1 <= Len(p.data)
                         THEN Len(p.data) - (p.last_line + 1) + 1 ELSE 0
        BY <2>1, <1>1, PartOf DEF Line
    <2> QED
        BY <2>2, <1>1
<1> HIDE DEF n
<1> DEFINE more == Append(p.lines, n)
           q == [p EXCEPT !.lines = more, !.last_line = Len(p.data), !.has_cr = FALSE]
<1>3. HandleLine(p) = q
    BY DEF HandleLine, n
<1>4. /\ q.data = p.data /\ q.last_line = Len(p.data)
      /\ q.lines = more /\ q.has_cr = FALSE
    BY DEF Parsers
<1>5. more \in Seq(Nat) /\ Len(more) = Len(p.lines) + 1
    BY <1>1, <1>2, AppendProperties
<1>6. /\ LineEnds(more)[Len(p.lines) + 1] = Len(p.data)
      /\ \A k \in 0..Len(p.lines) : LineEnds(more)[k] = LineEnds(p.lines)[k]
    <2>1. LineEnds(more)[Len(p.lines) + 1] = LineEnds(p.lines)[Len(p.lines)] + n
        BY <1>1, <1>2, LineEndsAppend
    <2>2. \A k \in 0..Len(p.lines) : LineEnds(more)[k] = LineEnds(p.lines)[k]
        BY <1>1, <1>2, LineEndsAppend
    <2> QED
        BY <2>1, <2>2, <1>1, <1>2
<1> HIDE DEF more, q
<1>7. Line(q) = <<>>
    <2>1. SubSeq(p.data, Len(p.data) + 1, Len(p.data)) = <<>>
        BY <1>1, SubSeqEmpty
    <2> QED
        BY <2>1, <1>4 DEF Line
<1>8. DataLines(q) = Append(DataLines(p), Line(p))
    <2> DEFINE as == DataLines(p)
               bs == DataLines(q)
               e == Line(p)
    <2>1. as \in Seq(Seq(Bytes)) /\ Len(as) = Len(p.lines) /\ e \in Seq(Bytes)
        BY LinesType
    <2>2. \A i \in 1..Len(p.lines) :
              as[i] = SubSeq(p.data, LineEnds(p.lines)[i - 1] + 1, LineEnds(p.lines)[i])
        BY DEF DataLines
    <2>3. bs = [i \in 1..(Len(p.lines) + 1) |->
                   SubSeq(p.data, LineEnds(more)[i - 1] + 1, LineEnds(more)[i])]
        BY <1>4, <1>5 DEF DataLines
    <2>4. e = SubSeq(p.data, p.last_line + 1, Len(p.data))
        BY DEF Line
    <2> HIDE DEF as, bs, e
    <2>5. /\ Append(as, e) \in Seq(Seq(Bytes)) /\ Len(Append(as, e)) = Len(p.lines) + 1
          /\ \A i \in 1..Len(p.lines) : Append(as, e)[i] = as[i]
          /\ Append(as, e)[Len(p.lines) + 1] = e
        <3> DEFINE S == Seq(Bytes)
        <3>1. as \in Seq(S) /\ e \in S
            BY <2>1
        <3> HIDE DEF S
        <3>2. /\ Append(as, e) \in Seq(S) /\ Len(Append(as, e)) = Len(as) + 1
              /\ \A i \in 1..Len(as) : Append(as, e)[i] = as[i]
              /\ Append(as, e)[Len(as) + 1] = e
            BY <3>1, OneMore, Zenon
        <3> QED
            BY <2>1, <3>2 DEF S
    <2>6. ASSUME NEW i \in 1..(Len(p.lines) + 1)
          PROVE  bs[i] = Append(as, e)[i]
        <3>1. CASE i = Len(p.lines) + 1
            <4>1. i - 1 = Len(p.lines) /\ i - 1 \in 0..Len(p.lines)
                BY <3>1, <1>1
            <4>2. LineEnds(more)[i - 1] = p.last_line /\ LineEnds(more)[i] = Len(p.data)
                BY <3>1, <4>1, <1>1, <1>6
            <4> QED
                BY <3>1, <4>2, <2>3, <2>4, <2>5
        <3>2. CASE i # Len(p.lines) + 1
            <4>1. i \in 1..Len(p.lines) /\ i \in 0..Len(p.lines) /\ i - 1 \in 0..Len(p.lines)
                BY <3>2, <1>1
            <4> QED
                BY <4>1, <1>6, <2>2, <2>3, <2>5
        <3> QED
            BY <3>1, <3>2
    <2>7. bs \in Seq(Seq(Bytes)) /\ Len(bs) = Len(p.lines) + 1
        <3>1. \A i \in 1..(Len(p.lines) + 1) : Append(as, e)[i] \in Seq(Bytes)
            BY <2>5, ElementOfSeq
        <3>2. bs \in [1..(Len(p.lines) + 1) -> Seq(Bytes)]
            BY <3>1, <2>3, <2>6
        <3>3. Len(p.lines) + 1 \in Nat
            BY <1>1
        <3> HIDE DEF bs
        <3> QED
            BY <3>2, <3>3, FunctionIsSeq, ZenonT(60)
    <2>8. bs = Append(as, e)
        BY <2>5, <2>6, <2>7, SeqEqual
    <2> QED
        BY <2>8 DEF as, bs, e
<1> QED
    BY <1>3, <1>4, <1>7, <1>8

\* What is put into a line for a byte of it.
Put(has_cr, b) ==
    IF b = CR THEN <<>> ELSE IF has_cr THEN <<Space, b>> ELSE <<b>>

\* It is bytes.
LEMMA PutType == \A has_cr \in BOOLEAN, b \in Bytes : Put(has_cr, b) \in Seq(Bytes)
<1> SUFFICES ASSUME NEW has_cr \in BOOLEAN, NEW b \in Bytes
             PROVE  Put(has_cr, b) \in Seq(Bytes)
    OBVIOUS
<1>1. Space \in Bytes
    BY DEF Bytes
<1>2. <<Space, b>> \in Seq(Bytes) /\ <<b>> \in Seq(Bytes)
    BY <1>1
<1>3. <<>> \in Seq(Bytes)
    OBVIOUS
<1> QED
    BY <1>2, <1>3 DEF Put

\* What a byte does to the lines.
LEMMA ConsumeByteLines ==
    ASSUME NEW p \in Parsers, Fits(p), NEW b \in Bytes
    PROVE  LET q == ConsumeByte(p, b) IN
           /\ b = LF => /\ DataLines(q) = Append(DataLines(p), Line(p))
                        /\ Line(q) = <<>> /\ ~q.has_cr
           /\ b # LF => /\ DataLines(q) = DataLines(p)
                        /\ Line(q) = Line(p) \o Put(p.has_cr, b)
                        /\ q.has_cr = (b = CR)
<1>1. /\ p.data \in Seq(Bytes) /\ p.has_cr \in BOOLEAN /\ p.last_line \in Nat
      /\ p.lines \in Seq(Nat) /\ Put(p.has_cr, b) \in Seq(Bytes)
    BY PutType DEF Parsers
<1>2. CASE b = LF
    <2>1. ConsumeByte(p, b) = HandleLine(p)
        BY <1>2, BytesAssumption DEF ConsumeByte
    <2> QED
        BY <2>1, <1>2, LineIsAdded
<1>3. CASE b = CR
    <2> DEFINE q == [p EXCEPT !.has_cr = TRUE]
    <2>1. ConsumeByte(p, b) = q
        BY <1>3, BytesAssumption DEF ConsumeByte
    <2>2. /\ q \in Parsers /\ q.data = p.data /\ q.last_line = p.last_line
          /\ q.lines = p.lines /\ q.has_cr = TRUE
        BY DEF Parsers
    <2> HIDE DEF q
    <2>3. Put(p.has_cr, b) = <<>>
        BY <1>3 DEF Put
    <2>4. p.data \o <<>> = p.data
        BY <1>1, ConcatEmptySeq
    <2>5. DataLines(q) = DataLines(p) /\ Line(q) = Line(p) \o <<>>
        BY <1>1, <2>2, <2>3, <2>4, DataGrows, ZenonT(60)
    <2> QED
        BY <1>3, <2>1, <2>2, <2>3, <2>5, BytesAssumption
<1>4. CASE b # LF /\ b # CR
    <2> DEFINE more == Put(p.has_cr, b)
               q == [p EXCEPT !.data = p.data \o more, !.has_cr = FALSE]
    <2>1. ConsumeByte(p, b) = q
        <3>1. ConsumeByte(p, b) = PutByte(p, b)
            BY <1>4 DEF ConsumeByte
        <3> QED
            BY <3>1, <1>4 DEF PutByte, Put
    <2> HIDE DEF more
    <2>2. more \in Seq(Bytes) /\ p.data \o more \in Seq(Bytes)
        BY <1>1, ConcatProperties DEF more
    <2>3. /\ q \in Parsers /\ q.data = p.data \o more /\ q.last_line = p.last_line
          /\ q.lines = p.lines /\ q.has_cr = FALSE
        BY <2>2 DEF Parsers
    <2> HIDE DEF q
    <2>4. DataLines(q) = DataLines(p) /\ Line(q) = Line(p) \o more
        BY <2>2, <2>3, DataGrows
    <2> QED
        BY <1>4, <2>1, <2>3, <2>4 DEF more
<1> QED
    BY <1>2, <1>3, <1>4

-----------------------------------------------------------------------------
(* Spaces in lines.                                                        *)

\* Whether a line ends with a CR so far.
EndsWithCr(line) == line # <<>> /\ line[Len(line)] = CR

\* What the reference makes of a line, by its positions.
LEMMA SpacesAre ==
    ASSUME NEW line \in Seq(Bytes)
    PROVE  /\ WithSpaces(line) \in Seq(Bytes)
           /\ Len(WithSpaces(line)) = IF EndsWithCr(line) THEN Len(line) - 1 ELSE Len(line)
           /\ \A i \in 1..Len(WithSpaces(line)) :
                 WithSpaces(line)[i] = IF line[i] = CR THEN Space ELSE line[i]
<1> DEFINE n       == Len(line)
           content == IF EndsWithCr(line) THEN SubSeq(line, 1, n - 1) ELSE line
           m       == IF EndsWithCr(line) THEN n - 1 ELSE n
           f       == [i \in 1..m |-> IF line[i] = CR THEN Space ELSE line[i]]
<1>1. n \in Nat /\ DOMAIN line = 1..n /\ \A i \in 1..n : line[i] \in Bytes
    BY LenProperties, ElementOfSeq
<1>2. EndsWithCr(line) => n - 1 \in 0..n /\ n - 1 \in Nat
    BY <1>1, EmptySeq DEF EndsWithCr
<1>3. m \in Nat /\ \A i \in 1..m : i \in 1..n
    BY <1>1, <1>2
<1>4. content \in Seq(Bytes) /\ Len(content) = m /\ \A i \in 1..m : content[i] = line[i]
    <2>1. CASE EndsWithCr(line)
        <3>1. 1 \in 1..(n + 1) /\ n - 1 \in 0..n /\ m = n - 1
            BY <1>1, <1>2, <2>1
        <3>2. /\ SubSeq(line, 1, n - 1) \in Seq(Bytes)
              /\ Len(SubSeq(line, 1, n - 1)) = IF 1 <= n - 1 THEN (n - 1) - 1 + 1 ELSE 0
              /\ \A i \in 1..((n - 1) - 1 + 1) : SubSeq(line, 1, n - 1)[i] = line[1 + i - 1]
            BY <3>1, PartOf
        <3>3. n - 1 \in Nat
            BY <1>2, <2>1
        <3>4. \A k \in Nat : /\ k - 1 + 1 = k /\ (IF 1 <= k THEN k - 1 + 1 ELSE 0) = k
                            /\ \A i \in 1..k : 1 + i - 1 = i
            OBVIOUS
        <3>5. /\ (n - 1) - 1 + 1 = n - 1 /\ (IF 1 <= n - 1 THEN (n - 1) - 1 + 1 ELSE 0) = n - 1
              /\ \A i \in 1..(n - 1) : 1 + i - 1 = i
            BY <3>3, <3>4
        <3>6. content = SubSeq(line, 1, n - 1) /\ m = n - 1
            BY <2>1
        <3> HIDE DEF content, m, n
        <3> QED
            BY <3>2, <3>5, <3>6
    <2>2. CASE ~EndsWithCr(line)
        BY <1>1, <2>2
    <2> QED
        BY <2>1, <2>2
<1>5. WithSpaces(line) = [i \in DOMAIN content |-> IF content[i] = CR THEN Space ELSE content[i]]
    BY DEF WithSpaces, EndsWithCr
<1> HIDE DEF m, content
<1>6. DOMAIN content = 1..m
    BY <1>4, LenProperties
<1>7. WithSpaces(line) = f
    BY <1>4, <1>5, <1>6
<1>8. f \in [1..m -> Bytes]
    <2>1. Space \in Bytes
        BY DEF Bytes
    <2> QED
        BY <2>1, <1>1, <1>3
<1>9. f \in Seq(Bytes) /\ Len(f) = m /\ \A i \in 1..m : f[i] = IF line[i] = CR THEN Space ELSE line[i]
    BY <1>3, <1>8, FunctionIsSeq
<1> HIDE DEF f
<1> QED
    BY <1>7, <1>9 DEF m

\* A byte more puts in what Put says, unless it is a CR after another.
LEMMA SpacesGrow ==
    /\ WithSpaces(<<>>) = <<>>
    /\ \A line \in Seq(Bytes) :
          /\ WithSpaces(line) \in Seq(Bytes)
          /\ \A b \in Bytes : ~(EndsWithCr(line) /\ b = CR) =>
                WithSpaces(Append(line, b)) = WithSpaces(line) \o Put(EndsWithCr(line), b)
<1>1. WithSpaces(<<>>) = <<>>
    <2>1. <<>> \in Seq(Bytes) /\ Len(<<>>) = 0 /\ ~EndsWithCr(<<>>)
        BY DEF EndsWithCr
    <2>2. WithSpaces(<<>>) \in Seq(Bytes) /\ Len(WithSpaces(<<>>)) = 0
        BY <2>1, SpacesAre
    <2> QED
        BY <2>2, EmptySeq
<1>2. ASSUME NEW line \in Seq(Bytes), NEW b \in Bytes, ~(EndsWithCr(line) /\ b = CR)
      PROVE  WithSpaces(Append(line, b)) = WithSpaces(line) \o Put(EndsWithCr(line), b)
    <2> DEFINE n    == Len(line)
               more == Append(line, b)
               as   == WithSpaces(line)
               e    == Put(EndsWithCr(line), b)
               bs   == WithSpaces(more)
               cs   == as \o e
    <2>1. /\ more \in Seq(Bytes) /\ Len(more) = n + 1 /\ n \in Nat
          /\ \A i \in 1..n : more[i] = line[i]
          /\ more[n + 1] = b
        BY AppendProperties, LenProperties
    <2>2. EndsWithCr(more) <=> b = CR
        <3>1. more # <<>>
            BY <2>1, EmptySeq
        <3> QED
            BY <2>1, <3>1 DEF EndsWithCr
    <2>3. EndsWithCr(line) => n \in 1..n /\ line[n] = CR
        <3>1. n = 0 => line = <<>>
            BY EmptySeq
        <3> QED
            BY <2>1, <3>1 DEF EndsWithCr
    <2>4. /\ as \in Seq(Bytes) /\ Len(as) = IF EndsWithCr(line) THEN n - 1 ELSE n
          /\ \A i \in 1..Len(as) : as[i] = IF line[i] = CR THEN Space ELSE line[i]
        BY SpacesAre
    <2> HIDE DEF more
    <2>5. /\ bs \in Seq(Bytes) /\ Len(bs) = IF b = CR THEN (n + 1) - 1 ELSE n + 1
          /\ \A i \in 1..Len(bs) : bs[i] = IF more[i] = CR THEN Space ELSE more[i]
        BY <2>1, <2>2, SpacesAre
    <2> HIDE DEF as, bs
    <2>6. e \in Seq(Bytes)
        BY PutType DEF EndsWithCr
    <2> HIDE DEF e
    <2>a. as \in Seq(Bytes)
        BY <2>4
    <2>7. /\ cs \in Seq(Bytes) /\ Len(cs) = Len(as) + Len(e)
          /\ \A i \in 1..(Len(as) + Len(e)) :
                cs[i] = IF i <= Len(as) THEN as[i] ELSE e[i - Len(as)]
        BY <2>a, <2>6, ConcatProperties
    <2> HIDE DEF cs, n
    <2>8. ASSUME b = CR PROVE bs = cs
        <3>1. e = <<>> /\ Len(e) = 0 /\ ~EndsWithCr(line)
            BY <1>2, <2>8 DEF Put, e
        <3>2. Len(bs) = n /\ Len(cs) = n /\ Len(as) = n
            BY <2>1, <2>4, <2>5, <2>7, <2>8, <3>1
        <3>3. ASSUME NEW i \in 1..n PROVE bs[i] = cs[i]
            <4>1. i \in 1..Len(bs) /\ i \in 1..(Len(as) + Len(e)) /\ i \in 1..Len(as) /\ i <= Len(as)
                BY <2>1, <3>1, <3>2
            <4>2. bs[i] = IF more[i] = CR THEN Space ELSE more[i]
                BY <4>1, <2>5
            <4>3. cs[i] = as[i] /\ as[i] = IF line[i] = CR THEN Space ELSE line[i]
                BY <4>1, <2>4, <2>7
            <4> QED
                BY <4>2, <4>3, <2>1
        <3> QED
            BY <2>5, <2>7, <3>2, <3>3, SeqEqual
    <2>9. ASSUME b # CR /\ ~EndsWithCr(line) PROVE bs = cs
        <3>1. e = <<b>> /\ Len(e) = 1 /\ e[1] = b
            BY <2>9 DEF Put, e
        <3>2. Len(bs) = n + 1 /\ Len(cs) = n + 1 /\ Len(as) = n
            BY <2>1, <2>4, <2>5, <2>7, <2>9, <3>1
        <3>3. ASSUME NEW i \in 1..(n + 1) PROVE bs[i] = cs[i]
            <4>1. CASE i = n + 1
                <5>1. ~(i <= Len(as)) /\ i - Len(as) = 1
                    BY <2>1, <3>2, <4>1
                <5> QED
                    BY <2>1, <2>5, <2>7, <2>9, <3>1, <3>2, <4>1, <5>1
            <4>2. CASE i # n + 1
                <5>1. i \in 1..n /\ i <= Len(as)
                    BY <2>1, <3>2, <4>2
                <5> QED
                    BY <2>1, <2>4, <2>5, <2>7, <3>1, <3>2, <5>1
            <4> QED
                BY <4>1, <4>2
        <3> QED
            BY <2>5, <2>7, <3>2, <3>3, SeqEqual
    <2>10. ASSUME b # CR /\ EndsWithCr(line) PROVE bs = cs
        <3>1. e = <<Space, b>> /\ Len(e) = 2 /\ e[1] = Space /\ e[2] = b
            BY <2>10 DEF Put, e
        <3>2. n \in 1..n /\ line[n] = CR
            BY <2>3, <2>10
        <3>3. Len(bs) = n + 1 /\ Len(cs) = n + 1 /\ Len(as) = n - 1
            BY <2>1, <2>4, <2>5, <2>7, <2>10, <3>1, <3>2
        <3>4. ASSUME NEW i \in 1..(n + 1) PROVE bs[i] = cs[i]
            <4>1. CASE i = n + 1
                <5>1. ~(i <= Len(as)) /\ i - Len(as) = 2
                    BY <2>1, <3>3, <4>1
                <5>2. i \in 1..Len(bs) /\ i \in 1..(Len(as) + Len(e))
                    BY <2>1, <3>1, <3>3
                <5>3. bs[i] = IF more[i] = CR THEN Space ELSE more[i]
                    BY <5>2, <2>5
                <5>4. cs[i] = e[2]
                    BY <5>1, <5>2, <2>7
                <5> QED
                    BY <5>3, <5>4, <2>1, <2>10, <3>1, <4>1
            <4>2. CASE i = n
                <5>1. ~(i <= Len(as)) /\ i - Len(as) = 1 /\ i \in 1..n
                    BY <2>1, <3>2, <3>3, <4>2
                <5>2. i \in 1..Len(bs) /\ i \in 1..(Len(as) + Len(e))
                    BY <2>1, <3>1, <3>3
                <5>3. bs[i] = IF more[i] = CR THEN Space ELSE more[i]
                    BY <5>2, <2>5
                <5>4. cs[i] = e[1]
                    BY <5>1, <5>2, <2>7
                <5>5. more[i] = CR
                    BY <5>1, <2>1, <3>2, <4>2
                <5> QED
                    BY <5>3, <5>4, <5>5, <3>1
            <4>3. CASE i # n + 1 /\ i # n
                <5>1. i \in 1..n /\ i \in 1..(n - 1) /\ i <= Len(as)
                    BY <2>1, <3>3, <4>3
                <5>2. i \in 1..Len(bs) /\ i \in 1..(Len(as) + Len(e)) /\ i \in 1..Len(as)
                    BY <2>1, <3>1, <3>3, <5>1
                <5>3. bs[i] = IF more[i] = CR THEN Space ELSE more[i]
                    BY <5>2, <2>5
                <5>4. cs[i] = as[i] /\ as[i] = IF line[i] = CR THEN Space ELSE line[i]
                    BY <5>1, <5>2, <2>4, <2>7
                <5> QED
                    BY <5>1, <5>3, <5>4, <2>1
            <4> QED
                BY <4>1, <4>2, <4>3
        <3> QED
            BY <2>5, <2>7, <3>3, <3>4, SeqEqual
    <2>11. bs = cs
        BY <2>8, <2>9, <2>10
    <2> QED
        BY <2>11 DEF bs, cs, as, e, more
<1>3. \A line \in Seq(Bytes) : WithSpaces(line) \in Seq(Bytes)
    BY SpacesAre
<1> QED
    BY <1>1, <1>2, <1>3

-----------------------------------------------------------------------------
(* Runs of CRs.                                                            *)

\* What is left of each byte of a text.
Singles(text) ==
    [i \in DOMAIN text |->
        IF i > 1 /\ text[i] = CR /\ text[i - 1] = CR THEN <<>> ELSE <<text[i]>>]

\* A byte more adds itself, unless it is a CR after another.
LEMMA SinglesGrow ==
    /\ Singles(<<>>) = <<>>
    /\ \A t \in Seq(Bytes) :
          /\ Singles(t) \in Seq(Seq(Bytes))
          /\ \A b \in Bytes :
                Singles(Append(t, b)) =
                    Append(Singles(t), IF EndsWithCr(t) /\ b = CR THEN <<>> ELSE <<b>>)
<1> DEFINE S == Seq(Bytes)
<1>1. ASSUME NEW t \in Seq(Bytes)
      PROVE  Singles(t) \in Seq(S) /\ Len(Singles(t)) = Len(t)
    <2>1. Len(t) \in Nat /\ DOMAIN t = 1..Len(t) /\ \A i \in 1..Len(t) : t[i] \in Bytes
        BY LenProperties, ElementOfSeq
    <2>2. <<>> \in S /\ \A b \in Bytes : <<b>> \in S
        BY EmptySeq
    <2> HIDE DEF S
    <2>3. Singles(t) \in [1..Len(t) -> S]
        BY <2>1, <2>2 DEF Singles
    <2> QED
        BY <2>1, <2>3, FunctionIsSeq
<1>2. ASSUME NEW t \in Seq(Bytes), NEW b \in Bytes
      PROVE  Singles(Append(t, b)) =
                 Append(Singles(t), IF EndsWithCr(t) /\ b = CR THEN <<>> ELSE <<b>>)
    <2> DEFINE n    == Len(t)
               more == Append(t, b)
               as   == Singles(t)
               bs   == Singles(more)
               e    == IF EndsWithCr(t) /\ b = CR THEN <<>> ELSE <<b>>
               cs   == Append(as, e)
    <2>1. /\ more \in Seq(Bytes) /\ Len(more) = n + 1 /\ n \in Nat
          /\ \A i \in 1..n : more[i] = t[i]
          /\ more[n + 1] = b /\ DOMAIN more = 1..(n + 1) /\ DOMAIN t = 1..n
        BY AppendProperties, LenProperties
    <2> HIDE DEF more
    <2>2. e \in S
        BY EmptySeq
    <2>3. as \in Seq(S) /\ Len(as) = n /\ bs \in Seq(S) /\ Len(bs) = n + 1
        BY <2>1, <1>1
    <2>4. ASSUME NEW i \in 1..n PROVE bs[i] = as[i]
        <3>1. i \in DOMAIN more /\ i \in DOMAIN t /\ (i > 1 => i - 1 \in 1..n)
            BY <2>1
        <3>2. more[i] = t[i] /\ (i > 1 => more[i - 1] = t[i - 1])
            BY <3>1, <2>1
        <3> QED
            BY <3>1, <3>2 DEF Singles
    <2>5. bs[n + 1] = e
        <3>1. n + 1 \in DOMAIN more /\ (n + 1) - 1 = n
            BY <2>1
        <3>2. n + 1 > 1 <=> t # <<>>
            BY <2>1, EmptySeq
        <3>3. t # <<>> => n \in 1..n /\ more[n] = t[n]
            BY <2>1, <3>2
        <3> QED
            BY <3>1, <3>2, <3>3, <2>1 DEF Singles, EndsWithCr
    <2> HIDE DEF as, bs, e, S
    <2>6. cs \in Seq(S) /\ Len(cs) = n + 1 /\ cs[n + 1] = e /\ \A i \in 1..n : cs[i] = as[i]
        <3>1. as \in Seq(S) /\ e \in S /\ Len(as) = n
            BY <2>2, <2>3
        <3>2. /\ cs \in Seq(S) /\ Len(cs) = Len(as) + 1
              /\ \A i \in 1..Len(as) : cs[i] = as[i]
              /\ cs[Len(as) + 1] = e
            BY <3>1, OneMore, Zenon
        <3> QED
            BY <3>1, <3>2
    <2> HIDE DEF cs
    <2>7. ASSUME NEW i \in 1..(n + 1) PROVE bs[i] = cs[i]
        <3>1. i \in 1..n \/ i = n + 1
            BY <2>1
        <3> QED
            BY <3>1, <2>4, <2>5, <2>6
    <2>8. bs = cs
        BY <2>3, <2>6, <2>7, SeqEqual
    <2> QED
        BY <2>8 DEF as, bs, cs, e, more
<1>3. Singles(<<>>) = <<>>
    BY DEF Singles
<1> QED
    BY <1>1, <1>2, <1>3 DEF S

\* So it is with the text as a whole.
LEMMA SingleCrsGrow ==
    /\ SingleCrs(<<>>) = <<>>
    /\ \A t \in Seq(Bytes) :
          /\ SingleCrs(t) \in Seq(Bytes)
          /\ \A b \in Bytes :
                SingleCrs(Append(t, b)) =
                    IF EndsWithCr(t) /\ b = CR THEN SingleCrs(t) ELSE Append(SingleCrs(t), b)
<1>1. \A t : SingleCrs(t) = FlattenSeq(Singles(t))
    BY Zenon DEF SingleCrs, Singles
<1>2. SingleCrs(<<>>) = <<>>
    BY <1>1, SinglesGrow, FlattenEmpty
<1>3. ASSUME NEW t \in Seq(Bytes) PROVE SingleCrs(t) \in Seq(Bytes)
    <2>1. Singles(t) \in Seq(Seq(Bytes))
        BY SinglesGrow
    <2> QED
        BY <1>1, <2>1, FlattenType
<1>4. ASSUME NEW t \in Seq(Bytes), NEW b \in Bytes
      PROVE  SingleCrs(Append(t, b)) =
                 IF EndsWithCr(t) /\ b = CR THEN SingleCrs(t) ELSE Append(SingleCrs(t), b)
    <2> DEFINE e == IF EndsWithCr(t) /\ b = CR THEN <<>> ELSE <<b>>
    <2>1. e \in Seq(Bytes) /\ Singles(t) \in Seq(Seq(Bytes))
        BY SinglesGrow, EmptySeq
    <2>2. Singles(Append(t, b)) = Append(Singles(t), e)
        BY SinglesGrow
    <2> HIDE DEF e
    <2>3. FlattenSeq(Append(Singles(t), e)) = FlattenSeq(Singles(t)) \o e
        BY <2>1, FlattenAppend
    <2>4. SingleCrs(Append(t, b)) = SingleCrs(t) \o e
        BY <1>1, <2>2, <2>3
    <2>5. SingleCrs(t) \o <<>> = SingleCrs(t) /\ SingleCrs(t) \o <<b>> = Append(SingleCrs(t), b)
        BY <1>3, ConcatEmptySeq, AppendIsConcat
    <2> QED
        BY <2>4, <2>5 DEF e
<1> QED
    BY <1>2, <1>3, <1>4

-----------------------------------------------------------------------------
(* The lines of a text.                                                    *)

\* The positions of the LFs, in their order.
Breaks(t, b) ==
    /\ \A k \in 1..Len(b) : b[k] \in 1..Len(t) /\ t[b[k]] = LF
    /\ \A i \in 1..Len(t) : t[i] = LF => \E k \in 1..Len(b) : b[k] = i
    /\ \A k, m \in 1..Len(b) : k < m => b[k] < b[m]

\* Where the lines begin, and the lines.
Begin(b, k) == IF k = 1 THEN 1 ELSE b[k - 1] + 1
Parts(t, b) == [k \in 1..Len(b) |-> SubSeq(t, Begin(b, k), b[k] - 1)]

\* A text consists of these lines, and of what comes after the last LF.
Cut(t, lines, line) ==
    \E b \in Seq(Nat) :
        /\ Breaks(t, b)
        /\ lines = Parts(t, b)
        /\ line = SubSeq(t, Begin(b, Len(b) + 1), Len(t))

\* Lines lie between two LFs.
LEMMA PartsAre ==
    ASSUME NEW t \in Seq(Bytes), NEW b \in Seq(Nat), Breaks(t, b)
    PROVE  /\ Len(t) \in Nat /\ Len(b) \in Nat
           /\ \A k \in 1..Len(b) : /\ b[k] \in 1..Len(t)
                                   /\ Begin(b, k) \in 1..(Len(t) + 1)
                                   /\ b[k] - 1 \in 0..Len(t)
           /\ Begin(b, Len(b) + 1) \in 1..(Len(t) + 1)
           /\ Parts(t, b) \in Seq(Seq(Bytes)) /\ Len(Parts(t, b)) = Len(b)
           /\ SubSeq(t, Begin(b, Len(b) + 1), Len(t)) \in Seq(Bytes)
<1>1. Len(t) \in Nat /\ Len(b) \in Nat /\ Len(t) \in 0..Len(t)
    BY LenProperties
<1>2. \A k \in 1..Len(b) : b[k] \in 1..Len(t)
    BY DEF Breaks
<1>3. ASSUME NEW k \in 1..(Len(b) + 1) PROVE Begin(b, k) \in 1..(Len(t) + 1)
    <2>1. k = 1 \/ k - 1 \in 1..Len(b)
        BY <1>1
    <2>2. CASE k = 1
        BY <2>2, <1>1 DEF Begin
    <2>3. CASE k # 1
        <3>1. b[k - 1] \in 1..Len(t)
            BY <2>1, <2>3, <1>2
        <3> QED
            BY <3>1, <2>3, <1>1 DEF Begin
    <2> QED
        BY <2>2, <2>3
<1>4. ASSUME NEW k \in 1..Len(b)
      PROVE  /\ b[k] \in 1..Len(t) /\ Begin(b, k) \in 1..(Len(t) + 1) /\ b[k] - 1 \in 0..Len(t)
             /\ SubSeq(t, Begin(b, k), b[k] - 1) \in Seq(Bytes)
    <2>1. k \in 1..(Len(b) + 1)
        BY <1>1
    <2>2. b[k] \in 1..Len(t) /\ Begin(b, k) \in 1..(Len(t) + 1) /\ b[k] - 1 \in 0..Len(t)
        BY <2>1, <1>1, <1>2, <1>3
    <2> QED
        BY <2>2, PartOf
<1>5. Parts(t, b) \in [1..Len(b) -> Seq(Bytes)]
    BY <1>4 DEF Parts
<1>6. Parts(t, b) \in Seq(Seq(Bytes)) /\ Len(Parts(t, b)) = Len(b)
    BY <1>1, <1>5, FunctionIsSeq
<1>7. Begin(b, Len(b) + 1) \in 1..(Len(t) + 1)
    BY <1>1, <1>3
<1>8. SubSeq(t, Begin(b, Len(b) + 1), Len(t)) \in Seq(Bytes)
    BY <1>1, <1>7, PartOf
<1> QED
    BY <1>1, <1>4, <1>6, <1>7, <1>8

\* They are sequences of bytes.
LEMMA CutType ==
    ASSUME NEW t \in Seq(Bytes), NEW lines, NEW line, Cut(t, lines, line)
    PROVE  lines \in Seq(Seq(Bytes)) /\ line \in Seq(Bytes)
BY PartsAre DEF Cut

\* An empty text has no lines.
LEMMA CutEmpty == Cut(<<>>, <<>>, <<>>)
<1>1. <<>> \in Seq(Nat) /\ Len(<<>>) = 0 /\ 1..0 = {}
    OBVIOUS
<1>2. Breaks(<<>>, <<>>)
    BY <1>1 DEF Breaks
<1>3. Parts(<<>>, <<>>) = <<>>
    BY <1>1 DEF Parts
<1>4. SubSeq(<<>>, Begin(<<>>, Len(<<>>) + 1), Len(<<>>)) = <<>>
    BY <1>1, SubSeqEmpty DEF Begin
<1> QED
    BY <1>1, <1>2, <1>3, <1>4, Zenon DEF Cut

\* A byte is put into the last line.
LEMMA CutByte ==
    ASSUME NEW t \in Seq(Bytes), NEW lines, NEW line, Cut(t, lines, line),
           NEW x \in Bytes, x # LF
    PROVE  Cut(Append(t, x), lines, Append(line, x))
<1>1. PICK b \in Seq(Nat) : /\ Breaks(t, b) /\ lines = Parts(t, b)
                            /\ line = SubSeq(t, Begin(b, Len(b) + 1), Len(t))
    BY DEF Cut
<1> DEFINE u == Append(t, x)
<1>2. /\ Len(t) \in Nat /\ Len(b) \in Nat
      /\ \A k \in 1..Len(b) : b[k] \in 1..Len(t) /\ Begin(b, k) \in 1..(Len(t) + 1)
                              /\ b[k] - 1 \in 0..Len(t)
      /\ Begin(b, Len(b) + 1) \in 1..(Len(t) + 1)
    BY <1>1, PartsAre
<1>3. /\ u \in Seq(Bytes) /\ Len(u) = Len(t) + 1 /\ u[Len(t) + 1] = x
      /\ \A i \in 1..Len(t) : u[i] = t[i]
      /\ u = t \o <<x>> /\ <<x>> \in Seq(Bytes)
    BY AppendProperties, AppendIsConcat
<1> HIDE DEF u
<1>4. Breaks(u, b)
    <2>1. \A k \in 1..Len(b) : b[k] \in 1..Len(u) /\ u[b[k]] = LF
        BY <1>1, <1>2, <1>3 DEF Breaks
    <2>2. ASSUME NEW i \in 1..Len(u), u[i] = LF
          PROVE  \E k \in 1..Len(b) : b[k] = i
        <3>1. i \in 1..Len(t) /\ t[i] = LF
            BY <2>2, <1>2, <1>3
        <3> QED
            BY <3>1, <1>1 DEF Breaks
    <2> QED
        BY <2>1, <2>2, <1>1 DEF Breaks
<1>5. Parts(u, b) = lines
    <2>1. ASSUME NEW k \in 1..Len(b)
          PROVE  SubSeq(u, Begin(b, k), b[k] - 1) = SubSeq(t, Begin(b, k), b[k] - 1)
        <3>1. Begin(b, k) \in 1..(Len(t) + 1) /\ b[k] - 1 \in 0..Len(t)
            BY <1>2
        <3>2. u = t \o <<x>> /\ <<x>> \in Seq(Bytes)
            BY <1>3
        <3> QED
            BY <3>1, <3>2, PartOfConcat
    <2> QED
        BY <2>1, <1>1 DEF Parts
<1>6. SubSeq(u, Begin(b, Len(b) + 1), Len(u)) = Append(line, x)
    <2>1. SubSeq(u, Begin(b, Len(b) + 1), Len(u)) = line \o <<x>>
        BY <1>1, <1>2, <1>3, RestOfConcat
    <2>2. line \in Seq(Bytes)
        BY <1>1, PartsAre
    <2> QED
        BY <2>1, <2>2, AppendIsConcat
<1> QED
    BY <1>4, <1>5, <1>6, Zenon DEF Cut, u

\* An LF ends it.
LEMMA CutLine ==
    ASSUME NEW t \in Seq(Bytes), NEW lines, NEW line, Cut(t, lines, line), LF \in Bytes
    PROVE  Cut(Append(t, LF), Append(lines, line), <<>>)
<1>1. PICK b \in Seq(Nat) : /\ Breaks(t, b) /\ lines = Parts(t, b)
                            /\ line = SubSeq(t, Begin(b, Len(b) + 1), Len(t))
    BY DEF Cut
<1> DEFINE u == Append(t, LF)
           c == Append(b, Len(t) + 1)
<1>2. /\ Len(t) \in Nat /\ Len(b) \in Nat
      /\ \A k \in 1..Len(b) : b[k] \in 1..Len(t) /\ Begin(b, k) \in 1..(Len(t) + 1)
                              /\ b[k] - 1 \in 0..Len(t)
      /\ Begin(b, Len(b) + 1) \in 1..(Len(t) + 1)
      /\ lines \in Seq(Seq(Bytes)) /\ Len(lines) = Len(b) /\ line \in Seq(Bytes)
    BY <1>1, PartsAre
<1>3. /\ u \in Seq(Bytes) /\ Len(u) = Len(t) + 1 /\ u[Len(t) + 1] = LF
      /\ \A i \in 1..Len(t) : u[i] = t[i]
      /\ u = t \o <<LF>> /\ <<LF>> \in Seq(Bytes)
    BY AppendProperties, AppendIsConcat
<1>4. /\ c \in Seq(Nat) /\ Len(c) = Len(b) + 1 /\ c[Len(b) + 1] = Len(t) + 1
      /\ \A k \in 1..Len(b) : c[k] = b[k]
    <2>1. Len(t) + 1 \in Nat
        BY <1>2
    <2> QED
        BY <2>1, AppendProperties
<1> HIDE DEF u, c
<1>5. Breaks(u, c)
    <2>1. ASSUME NEW k \in 1..Len(c) PROVE c[k] \in 1..Len(u) /\ u[c[k]] = LF
        <3>1. k \in 1..Len(b) \/ k = Len(b) + 1
            BY <1>2, <1>4
        <3>2. CASE k \in 1..Len(b)
            <4>1. c[k] = b[k] /\ b[k] \in 1..Len(t) /\ t[b[k]] = LF
                BY <3>2, <1>1, <1>4 DEF Breaks
            <4>2. b[k] \in 1..Len(u)
                <5>1. Len(t) \in Nat /\ Len(u) = Len(t) + 1
                    BY <1>2, <1>3
                <5> QED
                    BY <4>1, <5>1
            <4>3. u[b[k]] = t[b[k]]
                BY <4>1, <1>3
            <4> QED
                BY <4>1, <4>2, <4>3
        <3>3. CASE k = Len(b) + 1
            BY <3>3, <1>2, <1>3, <1>4
        <3> QED
            BY <3>1, <3>2, <3>3
    <2>2. ASSUME NEW i \in 1..Len(u), u[i] = LF
          PROVE  \E k \in 1..Len(c) : c[k] = i
        <3>1. i \in 1..Len(t) \/ i = Len(t) + 1
            BY <1>2, <1>3
        <3>2. CASE i \in 1..Len(t)
            <4>1. t[i] = LF
                BY <3>2, <2>2, <1>3
            <4>2. PICK k \in 1..Len(b) : b[k] = i
                BY <3>2, <4>1, <1>1 DEF Breaks
            <4>3. k \in 1..Len(c) /\ c[k] = i
                BY <4>2, <1>2, <1>4
            <4> QED
                BY <4>3
        <3>3. CASE i = Len(t) + 1
            <4>1. Len(b) + 1 \in 1..Len(c) /\ c[Len(b) + 1] = i
                BY <3>3, <1>2, <1>4
            <4> QED
                BY <4>1
        <3> QED
            BY <3>1, <3>2, <3>3
    <2>3. ASSUME NEW k \in 1..Len(c), NEW m \in 1..Len(c), k < m
          PROVE  c[k] < c[m]
        <3>1. k \in 1..Len(b) /\ (m \in 1..Len(b) \/ m = Len(b) + 1)
            <4>1. Len(b) \in Nat /\ k \in 1..(Len(b) + 1) /\ m \in 1..(Len(b) + 1)
                BY <1>2, <1>4
            <4> QED
                BY <4>1, <2>3
        <3>2. CASE m \in 1..Len(b)
            <4>1. b[k] < b[m]
                BY <3>1, <3>2, <2>3, <1>1 DEF Breaks
            <4> QED
                BY <4>1, <3>1, <3>2, <1>4
        <3>3. CASE m = Len(b) + 1
            <4>1. b[k] \in 1..Len(t) /\ c[k] = b[k] /\ c[m] = Len(t) + 1 /\ Len(t) \in Nat
                BY <3>1, <3>3, <1>2, <1>4
            <4> QED
                BY <4>1
        <3> QED
            BY <3>1, <3>2, <3>3
    <2> QED
        BY <2>1, <2>2, <2>3 DEF Breaks
<1>6. \A k \in 1..(Len(b) + 1) : Begin(c, k) = Begin(b, k)
    <2>1. ASSUME NEW k \in 1..(Len(b) + 1) PROVE k = 1 \/ k - 1 \in 1..Len(b)
        BY <1>2
    <2> QED
        BY <2>1, <1>4 DEF Begin
<1>7. Parts(u, c) = Append(lines, line)
    <2>1. /\ Append(lines, line) \in Seq(Seq(Bytes))
          /\ Len(Append(lines, line)) = Len(b) + 1
          /\ \A k \in 1..Len(b) : Append(lines, line)[k] = lines[k]
          /\ Append(lines, line)[Len(b) + 1] = line
        <3> DEFINE S == Seq(Bytes)
        <3>1. lines \in Seq(S) /\ line \in S /\ Len(lines) = Len(b)
            BY <1>2
        <3> HIDE DEF S
        <3>2. /\ Append(lines, line) \in Seq(S) /\ Len(Append(lines, line)) = Len(lines) + 1
              /\ \A i \in 1..Len(lines) : Append(lines, line)[i] = lines[i]
              /\ Append(lines, line)[Len(lines) + 1] = line
            BY <3>1, OneMore, Zenon
        <3> QED
            BY <3>1, <3>2 DEF S
    <2>2. ASSUME NEW k \in 1..(Len(b) + 1)
          PROVE  SubSeq(u, Begin(c, k), c[k] - 1) = Append(lines, line)[k]
        <3>1. CASE k = Len(b) + 1
            <4>1. c[k] - 1 = Len(t) /\ Begin(c, k) = Begin(b, Len(b) + 1) /\ Len(t) \in 0..Len(t)
                BY <3>1, <1>2, <1>4, <1>6
            <4>2. SubSeq(u, Begin(b, Len(b) + 1), Len(t)) = line
                <5>1. Begin(b, Len(b) + 1) \in 1..(Len(t) + 1)
                    BY <1>2
                <5>2. u = t \o <<LF>> /\ <<LF>> \in Seq(Bytes)
                    BY <1>3
                <5>3. SubSeq(u, Begin(b, Len(b) + 1), Len(t)) = SubSeq(t, Begin(b, Len(b) + 1), Len(t))
                    BY <4>1, <5>1, <5>2, PartOfConcat
                <5> QED
                    BY <5>3, <1>1
            <4> QED
                BY <3>1, <4>1, <4>2, <2>1
        <3>2. CASE k # Len(b) + 1
            <4>0. k \in 1..Len(b)
                <5>1. Len(b) \in Nat
                    BY <1>2
                <5> QED
                    BY <5>1, <3>2
            <4>1. k \in 1..Len(b) /\ c[k] = b[k] /\ Begin(c, k) = Begin(b, k)
                BY <4>0, <1>4, <1>6
            <4>2. SubSeq(u, Begin(b, k), b[k] - 1) = SubSeq(t, Begin(b, k), b[k] - 1)
                <5>1. Begin(b, k) \in 1..(Len(t) + 1) /\ b[k] - 1 \in 0..Len(t)
                    BY <4>0, <1>2
                <5>2. u = t \o <<LF>> /\ <<LF>> \in Seq(Bytes)
                    BY <1>3
                <5> QED
                    BY <5>1, <5>2, PartOfConcat
            <4>3. lines[k] = SubSeq(t, Begin(b, k), b[k] - 1)
                BY <4>1, <1>1 DEF Parts
            <4> QED
                BY <4>1, <4>2, <4>3, <2>1
        <3> QED
            BY <3>1, <3>2
    <2>3. Breaks(u, c) /\ u \in Seq(Bytes) /\ c \in Seq(Nat)
        BY <1>3, <1>4, <1>5
    <2>4. Parts(u, c) \in Seq(Seq(Bytes)) /\ Len(Parts(u, c)) = Len(b) + 1
        BY <2>3, <1>4, PartsAre
    <2>5. \A k \in 1..(Len(b) + 1) : Parts(u, c)[k] = Append(lines, line)[k]
        BY <2>2, <1>4 DEF Parts
    <2> QED
        BY <2>1, <2>4, <2>5, SeqEqual
<1>8. SubSeq(u, Begin(c, Len(c) + 1), Len(u)) = <<>>
    <2>1. Begin(c, Len(c) + 1) = Len(t) + 2
        <3>1. Len(c) + 1 # 1 /\ (Len(c) + 1) - 1 = Len(b) + 1
            BY <1>2, <1>4
        <3> QED
            BY <3>1, <1>2, <1>4 DEF Begin
    <2> QED
        BY <2>1, <1>2, <1>3, SubSeqEmpty
<1> QED
    BY <1>4, <1>5, <1>7, <1>8, Zenon DEF Cut, u


\* The k-th of increasing positions has k of them up to it.
LEMMA CountUpTo ==
    ASSUME NEW b \in Seq(Nat), \A k, m \in 1..Len(b) : k < m => b[k] < b[m],
           NEW n \in 0..Len(b)
    PROVE  \A U : (\A j : j \in U <=> \E k \in 1..n : b[k] = j) => Cardinality(U) = n
<1> SUFFICES ASSUME NEW U, \A j : j \in U <=> \E k \in 1..n : b[k] = j
             PROVE  Cardinality(U) = n
    OBVIOUS
<1>1. Len(b) \in Nat /\ n \in Nat /\ \A k \in 1..n : k \in 1..Len(b)
    BY LenProperties
<1> DEFINE f == [k \in 1..n |-> b[k]]
<1>2. f \in [1..n -> U] /\ DOMAIN f = 1..n /\ \A k \in 1..n : f[k] = b[k]
    OBVIOUS
<1>3. \A k, m \in 1..n : f[k] = f[m] => k = m
    <2> SUFFICES ASSUME NEW k \in 1..n, NEW m \in 1..n, b[k] = b[m], k # m
                 PROVE  FALSE
        OBVIOUS
    <2>1. k \in 1..Len(b) /\ m \in 1..Len(b) /\ (k < m \/ m < k)
        BY <1>1
    <2>2. b[k] \in Nat /\ b[m] \in Nat
        BY <2>1, ElementOfSeq
    <2> QED
        BY <2>1, <2>2
<1>4. \A j \in U : \E k \in 1..n : f[k] = j
    OBVIOUS
<1> HIDE DEF f
<1>5. f \in Bijection(1..n, U)
    BY <1>2, <1>3, <1>4, Zenon DEF Bijection, Injection, Surjection, IsInjective
<1>6. ExistsBijection(1..n, U)
    BY <1>5, Zenon DEF ExistsBijection
<1>7. IsFiniteSet(1..n) /\ Cardinality(1..n) = n
    BY <1>1, FS_Interval
<1> QED
    BY <1>6, <1>7, FS_Bijection

\* The lines of the reference are those that the LFs end.
LEMMA LinesAre ==
    ASSUME NEW t \in Seq(Bytes), NEW lines, NEW line, Cut(t, lines, line)
    PROVE  LinesOf(t) = lines
<1>1. PICK b \in Seq(Nat) : Breaks(t, b) /\ lines = Parts(t, b)
    BY DEF Cut
<1> DEFINE T == LineFeeds(t)
<1>2. Len(b) \in Nat /\ DOMAIN t = 1..Len(t) /\ Len(t) \in Nat
    BY LenProperties
<1>3. \A j : j \in T <=> \E k \in 1..Len(b) : b[k] = j
    BY <1>1, <1>2 DEF Breaks, LineFeeds
<1>4. \A k, m \in 1..Len(b) : k < m => b[k] < b[m]
    BY <1>1 DEF Breaks
<1>5. \A k \in 1..Len(b) : b[k] \in Nat
    BY ElementOfSeq
<1> HIDE DEF T
<1>6. Cardinality(T) = Len(b)
    <2>1. Len(b) \in 0..Len(b)
        BY <1>2
    <2> QED
        BY <1>3, <1>4, <2>1, CountUpTo
<1>7. ASSUME NEW m \in 1..Len(b)
      PROVE  Cardinality({j \in T : j <= b[m]}) = m
    <2>1. m \in 0..Len(b)
        OBVIOUS
    <2>2. ASSUME NEW k \in 1..Len(b) PROVE b[k] <= b[m] <=> k \in 1..m
        <3>1. k < m => b[k] < b[m]
            BY <1>4
        <3>2. m < k => b[m] < b[k]
            BY <1>4
        <3> QED
            BY <3>1, <3>2, <1>5
    <2> DEFINE U == {j \in T : j <= b[m]}
    <2>3. \A j : j \in U <=> \E k \in 1..m : b[k] = j
        <3>1. \A k \in 1..m : k \in 1..Len(b)
            OBVIOUS
        <3> QED
            BY <3>1, <2>2, <1>3
    <2> HIDE DEF U
    <2>4. Cardinality(U) = m
        BY <1>4, <2>1, <2>3, CountUpTo
    <2> QED
        BY <2>4 DEF U
<1>8. ASSUME NEW k \in 1..Len(b) PROVE LineFeed(t, k) = b[k]
    <2> DEFINE Count(i) == Cardinality({j \in T : j <= i})
    <2>1. k # 0
        OBVIOUS
    <2>2. LineFeed(t, k) = CHOOSE i \in T : Count(i) = k
        BY <2>1, Zenon DEF LineFeed, T
    <2>3. \A m \in 1..Len(b) : Count(b[m]) = m
        BY <1>7
    <2> HIDE DEF Count
    <2>4. b[k] \in T /\ Count(b[k]) = k
        BY <1>3, <2>3
    <2>5. ASSUME NEW i \in T, Count(i) = k PROVE i = b[k]
        <3>1. PICK m \in 1..Len(b) : b[m] = i
            BY <1>3
        <3> QED
            BY <3>1, <2>3, <2>5
    <2> QED
        BY <2>2, <2>4, <2>5, Zenon
<1>9. ASSUME NEW k \in 1..Len(b) PROVE LineFeed(t, k - 1) + 1 = Begin(b, k)
    <2>1. CASE k = 1
        BY <2>1 DEF LineFeed, Begin
    <2>2. CASE k # 1
        <3>1. k - 1 \in 1..Len(b)
            BY <2>2, <1>2
        <3> QED
            BY <3>1, <2>2, <1>8 DEF Begin
    <2> QED
        BY <2>1, <2>2
<1>10. LinesOf(t) = [k \in 1..Len(b) |-> SubSeq(t, LineFeed(t, k - 1) + 1, LineFeed(t, k) - 1)]
    BY <1>6 DEF LinesOf, T
<1> QED
    BY <1>1, <1>8, <1>9, <1>10 DEF Parts

-----------------------------------------------------------------------------
(* Fields.                                                                 *)

\* A line is split at its first colon.
LEMMA FieldOfLine ==
    ASSUME NEW line \in Seq(Bytes)
    PROVE  IsFieldOf(ParseField(line), line)
<1> DEFINE I     == {i \in 1..Len(line) : line[i] = Colon}
           split == SelectInSeq(line, LAMBDA b : b = Colon)
<1>1. /\ Len(line) \in Nat /\ DOMAIN line = 1..Len(line)
      /\ \A b : b \in ToSet(line) <=> \E i \in 1..Len(line) : line[i] = b
    BY LenProperties DEF ToSet
<1>2. split = IF I # {} THEN Min(I) ELSE 0
    BY Zenon DEF SelectInSeq
<1>3. Colon \in ToSet(line) <=> I # {}
    BY <1>1
<1>4. ParseField(line) =
          IF split = 0
          THEN [key |-> <<>>, value |-> <<>>]
          ELSE [key |-> SubSeq(line, 1, split - 1), value |-> SubSeq(line, split + 1, Len(line))]
    BY Zenon DEF ParseField
<1> HIDE DEF split
<1>5. CASE I = {}
    BY <1>2, <1>3, <1>4, <1>5 DEF IsFieldOf
<1>6. CASE I # {}
    <2>1. I \in SUBSET Nat
        OBVIOUS
    <2>2. \E x \in I : \A y \in I : x <= y
        BY <1>6, <2>1, LeastNat
    <2>3. split \in I /\ \A y \in I : split <= y
        BY <1>2, <1>6, <2>2, Zenon DEF Min
    <2> DEFINE n     == split - 1
               key   == SubSeq(line, 1, n)
               value == SubSeq(line, split + 1, Len(line))
    <2>4. /\ split \in 1..Len(line) /\ line[split] = Colon /\ split # 0
          /\ n \in 0..Len(line) /\ n < Len(line) /\ n + 1 = split /\ split \in 0..Len(line)
        BY <2>3, <1>1
    <2>5. /\ key \in Seq(Bytes) /\ Len(key) = n
          /\ SubSeq(line, 1, split) = Append(key, Colon)
        BY <2>4, PrefixGrows
    <2>6. \A i \in 1..n : key[i] = line[i]
        <3>1. 1 \in 1..(Len(line) + 1) /\ n - 1 + 1 = n /\ \A i \in 1..n : 1 + i - 1 = i
            BY <1>1, <2>4
        <3> QED
            BY <2>4, <3>1, PartOf
    <2>7. SubSeq(line, 1, split) \o value = line
        BY <2>4, SplitSeq
    <2>8. Append(key, Colon) = key \o <<Colon>>
        BY <2>5, AppendIsConcat DEF Bytes
    <2>9. Colon \notin ToSet(key)
        <3>1. \A b : b \in ToSet(key) <=> \E i \in 1..n : key[i] = b
            BY <2>5, LenProperties DEF ToSet
        <3>2. \A i \in 1..n : i \in 1..Len(line) /\ ~(split <= i)
            BY <2>4
        <3> QED
            BY <3>1, <3>2, <2>3, <2>6
    <2>10. ParseField(line) = [key |-> key, value |-> value]
        BY <1>4, <2>4
    <2> HIDE DEF key, value, n
    <2>11. key \o <<Colon>> \o value = line
        BY <2>5, <2>7, <2>8
    <2> QED
        BY <1>3, <1>6, <2>9, <2>10, <2>11 DEF IsFieldOf
<1> QED
    BY <1>5, <1>6

-----------------------------------------------------------------------------
(* The header.                                                             *)

\* What the parser holds of a text in which no header has ended.
Holds(p, lines, line) ==
    /\ DataLines(p) = [k \in DOMAIN lines |-> WithSpaces(lines[k])]
    /\ \A k \in DOMAIN lines : WithSpaces(lines[k]) # <<>>
    /\ Line(p) = WithSpaces(line)
    /\ p.has_cr = EndsWithCr(line)
Parsed(p, t) == \E lines, line : Cut(t, lines, line) /\ Holds(p, lines, line)

\* In the beginning it is nothing.
LEMMA NothingIsParsed == Parsed(Clean, <<>>)
<1>1. /\ Clean.data = <<>> /\ Clean.lines = <<>> /\ Clean.last_line = 0 /\ Clean.has_cr = FALSE
      /\ Len(<<>>) = 0 /\ 1..0 = {} /\ DOMAIN <<>> = {}
    BY DEF Clean
<1>2. DataLines(Clean) = [k \in DOMAIN <<>> |-> WithSpaces(<<>>[k])]
    BY <1>1 DEF DataLines
<1>3. Line(Clean) = <<>>
    BY <1>1, SubSeqEmpty DEF Line
<1>4. Clean.has_cr = EndsWithCr(<<>>)
    BY <1>1 DEF EndsWithCr
<1> QED
    BY <1>1, <1>2, <1>3, <1>4, CutEmpty, SpacesGrow, Zenon DEF Parsed, Holds

\* A byte that does not end the header is parsed as a part of its line, or
\* ends it, unless it is a CR after another.
LEMMA ParsedByte ==
    ASSUME NEW p \in Parsers, Fits(p), NEW t \in Seq(Bytes), Parsed(p, t),
           NEW b \in Bytes, ~EndsHeader(p, b), ~(p.has_cr /\ b = CR)
    PROVE  Parsed(ConsumeByte(p, b), Append(t, b))
<1> DEFINE q == ConsumeByte(p, b)
           u == Append(t, b)
<1>1. PICK lines, line :
        /\ Cut(t, lines, line)
        /\ DataLines(p) = [k \in DOMAIN lines |-> WithSpaces(lines[k])]
        /\ \A k \in DOMAIN lines : WithSpaces(lines[k]) # <<>>
        /\ Line(p) = WithSpaces(line)
        /\ p.has_cr = EndsWithCr(line)
    BY DEF Parsed, Holds
<1>2. /\ b = LF => /\ DataLines(q) = Append(DataLines(p), Line(p))
                   /\ Line(q) = <<>> /\ ~q.has_cr
      /\ b # LF => /\ DataLines(q) = DataLines(p)
                   /\ Line(q) = Line(p) \o Put(p.has_cr, b)
                   /\ q.has_cr = (b = CR)
    BY ConsumeByteLines
<1>3. lines \in Seq(Seq(Bytes)) /\ line \in Seq(Bytes)
    BY <1>1, CutType
<1> HIDE DEF q
<1>4. CASE b # LF
    <2>1. Cut(u, lines, Append(line, b))
        BY <1>1, <1>4, CutByte
    <2>2. Line(q) = WithSpaces(Append(line, b))
        BY <1>1, <1>2, <1>3, <1>4, SpacesGrow
    <2>3. q.has_cr = EndsWithCr(Append(line, b))
        <3>1. /\ Append(line, b) # <<>> /\ Len(Append(line, b)) = Len(line) + 1
              /\ Append(line, b)[Len(line) + 1] = b
            BY <1>3, AppendProperties
        <3> QED
            BY <3>1, <1>2, <1>4 DEF EndsWithCr
    <2>4. DataLines(q) = [k \in DOMAIN lines |-> WithSpaces(lines[k])]
        BY <1>1, <1>2, <1>4
    <2> QED
        <3>1. Holds(q, lines, Append(line, b))
            BY <1>1, <2>2, <2>3, <2>4, Zenon DEF Holds
        <3> QED
            BY <2>1, <3>1, Zenon DEF Parsed, q
<1>5. CASE b = LF
    <2> DEFINE more == Append(lines, line)
               S    == Seq(Bytes)
    <2>1. Cut(u, more, <<>>)
        BY <1>1, <1>5, CutLine
    <2>2. WithSpaces(line) # <<>>
        BY <1>1, <1>5 DEF EndsHeader
    <2>3. /\ more \in Seq(S) /\ Len(more) = Len(lines) + 1 /\ Len(lines) \in Nat
          /\ \A k \in 1..Len(lines) : more[k] = lines[k]
          /\ more[Len(lines) + 1] = line
        <3>1. lines \in Seq(S) /\ line \in S
            BY <1>3
        <3> HIDE DEF S
        <3>2. /\ more \in Seq(S) /\ Len(more) = Len(lines) + 1
              /\ \A k \in 1..Len(lines) : more[k] = lines[k]
              /\ more[Len(lines) + 1] = line
            BY <3>1, OneMore, Zenon
        <3> QED
            BY <3>1, <3>2, LenProperties
    <2> HIDE DEF more, S
    <2>4. DOMAIN lines = 1..Len(lines) /\ DOMAIN more = 1..(Len(lines) + 1)
        BY <1>3, <2>3, LenProperties
    <2>5. \A k \in DOMAIN more : k \in DOMAIN lines \/ k = Len(lines) + 1
        BY <2>3, <2>4
    <2>6. \A k \in DOMAIN more : WithSpaces(more[k]) # <<>>
        BY <1>1, <2>2, <2>3, <2>4, <2>5
    <2>7. DataLines(q) = [k \in DOMAIN more |-> WithSpaces(more[k])]
        <3> DEFINE as   == DataLines(p)
                   e    == Line(p)
                   bs   == Append(as, e)
                   cs   == [k \in DOMAIN more |-> WithSpaces(more[k])]
        <3>1. as \in Seq(S) /\ e \in S
            BY LinesType DEF S
        <3>2. \A k \in DOMAIN lines : as[k] = WithSpaces(lines[k])
            BY <1>1
        <3>3. DOMAIN as = 1..Len(lines) /\ e = WithSpaces(line)
            BY <1>1, <2>4
        <3> HIDE DEF as, e
        <3>4. Len(as) = Len(lines)
            <4>1. Len(as) \in Nat /\ DOMAIN as = 1..Len(as)
                BY <3>1, LenProperties
            <4>2. \A i \in Nat : i \in 1..Len(as) <=> i \in 1..Len(lines)
                BY <4>1, <3>3, Zenon
            <4>3. \A m, n \in Nat : (\A i \in Nat : i \in 1..m <=> i \in 1..n) => m <= n
                <5> SUFFICES ASSUME NEW m \in Nat, NEW n \in Nat,
                                    \A i \in Nat : i \in 1..m <=> i \in 1..n
                             PROVE  m <= n
                    OBVIOUS
                <5>1. m \in 1..m <=> m \in 1..n
                    OBVIOUS
                <5> QED
                    BY <5>1
            <4>4. Len(as) \in Nat
                BY <4>1, Zenon
            <4> DEFINE m == Len(as)
                       n == Len(lines)
            <4>5. m \in Nat /\ n \in Nat /\ \A i \in Nat : i \in 1..m <=> i \in 1..n
                BY <4>2, <4>4, <2>3, Zenon
            <4> HIDE DEF m, n
            <4>6. m <= n /\ n <= m
                BY <4>3, <4>5
            <4>7. m = n
                BY <4>5, <4>6
            <4> QED
                BY <4>7 DEF m, n
        <3>5. /\ bs \in Seq(S) /\ Len(bs) = Len(lines) + 1
              /\ \A k \in 1..Len(lines) : bs[k] = as[k]
              /\ bs[Len(lines) + 1] = e
            <4>1. /\ bs \in Seq(S) /\ Len(bs) = Len(as) + 1
                  /\ \A k \in 1..Len(as) : bs[k] = as[k]
                  /\ bs[Len(as) + 1] = e
                BY <3>1, OneMore, Zenon
            <4> QED
                BY <4>1, <3>4
        <3>6. cs \in Seq(S) /\ Len(cs) = Len(lines) + 1
            <4>1. \A s \in S : WithSpaces(s) \in S
                BY SpacesGrow DEF S
            <4>2. \A k \in DOMAIN more : more[k] \in S
                BY <2>3, <2>4, ElementOfSeq
            <4>3. cs \in [1..(Len(lines) + 1) -> S]
                BY <4>1, <4>2, <2>4
            <4>4. Len(lines) + 1 \in Nat
                BY <2>3
            <4> HIDE DEF cs
            <4> QED
                BY <4>3, <4>4, FunctionIsSeq
        <3>7. ASSUME NEW k \in 1..(Len(lines) + 1) PROVE bs[k] = cs[k]
            <4>1. k \in DOMAIN more /\ (k \in 1..Len(lines) \/ k = Len(lines) + 1)
                BY <2>3, <2>4
            <4>2. cs[k] = WithSpaces(more[k])
                BY <4>1
            <4> HIDE DEF bs, cs
            <4> QED
                BY <4>1, <4>2, <2>3, <2>4, <3>2, <3>3, <3>5
        <3> HIDE DEF bs, cs
        <3>8. bs = cs
            BY <3>5, <3>6, <3>7, SeqEqual
        <3>9. DataLines(q) = bs
            BY <1>2, <1>5 DEF bs, as, e
        <3> QED
            BY <3>8, <3>9 DEF cs
    <2>8. Line(q) = WithSpaces(<<>>)
        BY <1>2, <1>5, SpacesGrow
    <2>9. q.has_cr = EndsWithCr(<<>>)
        <3>1. q.has_cr \in BOOLEAN
            BY ConsumeByteFits DEF Parsers, q
        <3> QED
            BY <3>1, <1>2, <1>5 DEF EndsWithCr
    <2> QED
        <3>1. Holds(q, more, <<>>)
            BY <2>6, <2>7, <2>8, <2>9, Zenon DEF Holds
        <3> QED
            BY <2>1, <3>1, Zenon DEF Parsed, q
<1> QED
    BY <1>4, <1>5 DEF q

\* Where the line so far is empty, an LF ends a request, and the header that is
\* taken is its header.
LEMMA RequestIsParsed ==
    ASSUME NEW p \in Parsers, Fits(p), NEW t \in Seq(Bytes), Parsed(p, t), EndsHeader(p, LF)
    PROVE  /\ IsRequest(Append(t, LF))
           /\ IsHeaderOf(TakeHeader(p), Append(t, LF))
<1> DEFINE u  == Append(t, LF)
           S  == Seq(Bytes)
<1>1. PICK lines, line : Cut(t, lines, line) /\ Holds(p, lines, line)
    BY DEF Parsed
<1>2. LF \in Bytes
    BY DEF Bytes
<1> DEFINE ls == Append(lines, line)
           n  == Len(lines)
<1>3. lines \in Seq(S) /\ line \in S
    BY <1>1, CutType
<1>4. LinesOf(u) = ls
    <2>1. Cut(u, ls, <<>>)
        BY <1>1, <1>2, CutLine
    <2>2. u \in Seq(Bytes)
        BY <1>2, AppendProperties
    <2> HIDE DEF u, ls
    <2> QED
        BY <2>1, <2>2, LinesAre
<1>5. WithSpaces(line) = <<>>
    BY <1>1 DEF EndsHeader, Holds
<1>6. /\ DOMAIN lines = 1..n
      /\ \A k \in 1..n : WithSpaces(lines[k]) # <<>> /\ lines[k] \in Seq(Bytes)
      /\ DataLines(p) = [k \in 1..n |-> WithSpaces(lines[k])]
    <2>1. DOMAIN lines = 1..n /\ \A k \in 1..n : lines[k] \in S
        <3> HIDE DEF S
        <3> QED
            BY <1>3, LenProperties, ElementOfSeq
    <2> QED
        BY <2>1, <1>1 DEF Holds
<1>7. n \in Nat
    BY <1>3, LenProperties
<1>8. /\ ls \in Seq(S) /\ Len(ls) = n + 1
      /\ \A k \in 1..n : ls[k] = lines[k]
      /\ ls[n + 1] = line
    <2> HIDE DEF S
    <2> QED
        BY <1>3, OneMore, Zenon
<1>9. u # <<>> /\ Last(u) = LF
    BY <1>2, AppendElements
<1> HIDE DEF u, ls, n, S
<1>10. DOMAIN ls = 1..(n + 1)
    BY <1>8, LenProperties
<1>11. IsRequest(u)
    <2>1. ASSUME NEW k \in DOMAIN ls
          PROVE  WithSpaces(ls[k]) = <<>> <=> k = Len(ls)
        <3>1. (k \in 1..n /\ k # n + 1) \/ k = n + 1
            BY <1>7, <1>10
        <3> QED
            BY <3>1, <1>5, <1>6, <1>8
    <2> QED
        BY <2>1, <1>4, <1>9 DEF IsRequest
<1>12. IsHeaderOf(TakeHeader(p), u)
    <2> DEFINE data   == DataLines(p)
               fields == [i \in DOMAIN data |-> ParseField(data[i])]
               F      == {ParseField(s) : s \in Seq(Bytes)}
               header == IF data = <<>> THEN <<>> ELSE Tail(fields)
    <2>1. DOMAIN p.lines = 1..Len(p.lines)
        BY LenProperties DEF Parsers
    <2>2. data = [i \in DOMAIN p.lines |->
                     SubSeq(p.data, LineEnds(p.lines)[i - 1] + 1, LineEnds(p.lines)[i])]
        BY <2>1 DEF DataLines
    <2>3. TakeHeader(p) = header
        BY <2>2, Zenon DEF TakeHeader
    <2>4. data = [k \in 1..n |-> WithSpaces(lines[k])] /\ DOMAIN data = 1..n
        BY <1>6
    <2> HIDE DEF data
    <2>5. \A k \in 1..n : data[k] \in Seq(Bytes) /\ data[k] = WithSpaces(lines[k])
        BY <2>4, <1>6, SpacesGrow
    <2>6. fields \in [1..n -> F] /\ \A k \in 1..n : fields[k] = ParseField(WithSpaces(lines[k]))
        BY <2>4, <2>5
    <2>7. data = <<>> <=> n = 0
        <3>1. data \in Seq(S) /\ Len(data) = n
            <4>1. data \in [1..n -> S]
                BY <2>4, <2>5 DEF S
            <4> QED
                BY <4>1, <1>7, FunctionIsSeq
        <3> QED
            BY <3>1, EmptySeq
    <2> HIDE DEF fields, F
    <2>8. fields \in Seq(F) /\ Len(fields) = n
        BY <2>6, <1>7, FunctionIsSeq
    <2>9. CASE n = 0
        <3>1. header = <<>> /\ Len(ls) = 1 /\ Len(header) = 0 /\ DOMAIN header = {}
            BY <2>7, <2>9, <1>8
        <3> HIDE DEF header
        <3>2. Len(header) = IF Len(ls) < 3 THEN 0 ELSE Len(ls) - 2
            BY <3>1
        <3>3. \A k \in DOMAIN header : IsFieldOf(header[k], WithSpaces(ls[k + 1]))
            BY <3>1
        <3> QED
            BY <2>3, <3>2, <3>3, <1>4 DEF IsHeaderOf
    <2>10. CASE n # 0
        <3>1. header = Tail(fields) /\ fields # <<>>
            BY <2>7, <2>8, <2>10
        <3>2. /\ header \in Seq(F) /\ Len(header) = n - 1
              /\ \A k \in 1..(n - 1) : header[k] = fields[k + 1]
            <4>1. n \in Nat /\ n # 0
                BY <1>7, <2>10
            <4>2. /\ Tail(fields) \in Seq(F) /\ Len(Tail(fields)) = Len(fields) - 1
                  /\ \A k \in 1..(Len(fields) - 1) : Tail(fields)[k] = fields[k + 1]
                BY <2>8, <3>1, HeadTailProperties
            <4> QED
                BY <3>1, <4>2, <2>8
        <3> HIDE DEF header
        <3>3. DOMAIN header = 1..(n - 1)
            BY <3>2, LenProperties
        <3>4. Len(header) = IF Len(ls) < 3 THEN 0 ELSE Len(ls) - 2
            BY <3>2, <1>7, <1>8, <2>10
        <3>5. ASSUME NEW k \in DOMAIN header
              PROVE  IsFieldOf(header[k], WithSpaces(ls[k + 1]))
            <4>1. k \in 1..(n - 1) /\ k + 1 \in 1..n
                BY <3>3, <1>7
            <4>2. header[k] = ParseField(WithSpaces(lines[k + 1]))
                BY <4>1, <3>2, <2>6
            <4>3. ls[k + 1] = lines[k + 1] /\ WithSpaces(lines[k + 1]) \in Seq(Bytes)
                BY <4>1, <1>6, <1>8, SpacesGrow
            <4> QED
                BY <4>2, <4>3, FieldOfLine
        <3> QED
            BY <2>3, <3>4, <3>5, <1>4 DEF IsHeaderOf
    <2> QED
        BY <2>9, <2>10
<1> QED
    BY <1>11, <1>12 DEF u

-----------------------------------------------------------------------------
(* Lines that are not empty.                                               *)

\* In the first n bytes of s, the last line has something else than CRs.
Inked(s, n) == \E j \in 1..n : s[j] \notin {CR, LF} /\ \A k \in j..n : s[k] # LF

\* Each line that ends in the first n bytes of s has.
Filled(s, n) == \A i \in 1..n : s[i] = LF => Inked(s, i - 1)

\* How it changes with a byte.
LEMMA InkedByte ==
    ASSUME NEW s, NEW n \in Nat
    PROVE  /\ s[n + 1] = LF => ~Inked(s, n + 1)
           /\ s[n + 1] = CR => (Inked(s, n + 1) <=> Inked(s, n))
           /\ s[n + 1] \notin {CR, LF} => Inked(s, n + 1)
           /\ Filled(s, n) /\ (s[n + 1] = LF => Inked(s, n)) => Filled(s, n + 1)
<1>1. ASSUME s[n + 1] = LF PROVE ~Inked(s, n + 1)
    <2>1. \A j \in 1..(n + 1) : n + 1 \in j..(n + 1)
        OBVIOUS
    <2> QED
        BY <1>1, <2>1 DEF Inked
<1>2. ASSUME s[n + 1] = CR PROVE Inked(s, n + 1) <=> Inked(s, n)
    <2>1. ASSUME NEW j \in 1..(n + 1), s[j] \notin {CR, LF}, \A k \in j..(n + 1) : s[k] # LF
          PROVE  Inked(s, n)
        <3>1. j # n + 1
            BY <1>2, <2>1
        <3>2. j \in 1..n /\ \A k \in j..n : k \in j..(n + 1)
            BY <3>1
        <3> QED
            BY <2>1, <3>2 DEF Inked
    <2>2. ASSUME NEW j \in 1..n, s[j] \notin {CR, LF}, \A k \in j..n : s[k] # LF
          PROVE  Inked(s, n + 1)
        <3>1. j \in 1..(n + 1) /\ \A k \in j..(n + 1) : k \in j..n \/ k = n + 1
            OBVIOUS
        <3>2. \A k \in j..(n + 1) : s[k] # LF
            BY <3>1, <2>2, <1>2, BytesAssumption
        <3> QED
            BY <2>2, <3>1, <3>2 DEF Inked
    <2> QED
        BY <2>1, <2>2 DEF Inked
<1>3. ASSUME s[n + 1] \notin {CR, LF} PROVE Inked(s, n + 1)
    <2>1. n + 1 \in 1..(n + 1) /\ \A k \in (n + 1)..(n + 1) : k = n + 1
        OBVIOUS
    <2> QED
        BY <1>3, <2>1 DEF Inked
<1>4. ASSUME Filled(s, n), s[n + 1] = LF => Inked(s, n) PROVE Filled(s, n + 1)
    <2>1. \A i \in 1..(n + 1) : i \in 1..n \/ (i = n + 1 /\ i - 1 = n)
        OBVIOUS
    <2> QED
        BY <2>1, <1>4 DEF Filled
<1> QED
    BY <1>1, <1>2, <1>3, <1>4

\* The line of the parser is empty where that of the text is.
LEMMA LineOfByte ==
    ASSUME NEW p \in Parsers, Fits(p), NEW s \in Seq(Bytes), NEW n \in Nat, n < Len(s)
    PROVE  LET q == ConsumeByte(p, s[n + 1]) IN
           /\ (Inked(s, n) => Line(p) # <<>>) => (Inked(s, n + 1) => Line(q) # <<>>)
           /\ (Inked(s, n) <=> Line(p) # <<>>) => (Inked(s, n + 1) <=> Line(q) # <<>>)
<1> DEFINE b == s[n + 1]
           q == ConsumeByte(p, b)
<1>1. b \in Bytes
    <2>1. n + 1 \in 1..Len(s)
        BY LenProperties
    <2> QED
        BY <2>1, ElementOfSeq
<1> HIDE DEF b
<1>2. Line(p) \in Seq(Bytes) /\ p.has_cr \in BOOLEAN
    BY LinesType DEF Parsers
<1>3. /\ b = LF => Line(q) = <<>>
      /\ b # LF => Line(q) = Line(p) \o Put(p.has_cr, b)
    BY <1>1, ConsumeByteLines
<1> HIDE DEF q
<1>4. /\ b = LF => ~Inked(s, n + 1)
      /\ b = CR => (Inked(s, n + 1) <=> Inked(s, n))
      /\ b \notin {CR, LF} => Inked(s, n + 1)
    BY InkedByte DEF b
<1>5. CASE b = LF
    BY <1>3, <1>4, <1>5 DEF q, b
<1>6. CASE b = CR
    <2>1. Line(q) = Line(p)
        BY <1>2, <1>3, <1>6, BytesAssumption, ConcatEmptySeq DEF Put
    <2> QED
        BY <2>1, <1>4, <1>6 DEF q, b
<1>7. CASE b \notin {CR, LF}
    <2> DEFINE e == Put(p.has_cr, b)
    <2>1. e \in Seq(Bytes)
        BY <1>1, <1>2, PutType
    <2>2. Len(e) > 0
        BY <1>7 DEF Put
    <2> HIDE DEF e
    <2>3. Line(q) = Line(p) \o e
        BY <1>3, <1>7 DEF e
    <2>4. Len(Line(p) \o e) = Len(Line(p)) + Len(e) /\ Line(p) \o e \in Seq(Bytes)
        BY <1>2, <2>1, ConcatProperties
    <2>5. Len(Line(q)) > 0 /\ Line(q) \in Seq(Bytes)
        <3>1. Len(Line(p)) \in Nat /\ Len(e) \in Nat
            BY <1>2, <2>1, LenProperties
        <3> QED
            BY <3>1, <2>2, <2>3, <2>4
    <2>6. Line(q) # <<>>
        BY <2>5, EmptySeq
    <2> QED
        BY <2>6, <1>4, <1>7 DEF q, b
<1> QED
    BY <1>5, <1>6, <1>7

-----------------------------------------------------------------------------
(* The segments that the parser is given.                                  *)

\* The parser p has seen n bytes of s, since the last call of consume began.
\* As long as that is the first call for s, it holds what these bytes say.  Once
\* a call has come to the end of s there is no empty line in s, so that no
\* header will end there, whatever the parser still holds of earlier calls.
Reads(p, s, n) ==
    /\ s = <<>> => p = Clean
    /\ \/ /\ Filled(s, Len(s))
          /\ Inked(s, n) => Line(p) # <<>>
       \/ /\ Filled(s, n)
          /\ Inked(s, n) <=> Line(p) # <<>>
          /\ Parsed(p, SingleCrs(SubSeq(s, 1, n)))
          /\ p.has_cr = EndsWithCr(SubSeq(s, 1, n))

\* It begins with nothing.
LEMMA ReadAnew == ASSUME NEW s \in Seq(Bytes) PROVE Reads(Clean, s, 0)
<1>1. Filled(s, 0) /\ ~Inked(s, 0)
    BY DEF Filled, Inked
<1>2. Line(Clean) = <<>>
    <2>1. Clean.data = <<>> /\ Clean.last_line = 0 /\ Len(<<>>) = 0
        BY DEF Clean
    <2> QED
        BY <2>1, SubSeqEmpty DEF Line
<1>3. SubSeq(s, 1, 0) = <<>>
    BY SubSeqEmpty
<1>4. SingleCrs(SubSeq(s, 1, 0)) = <<>>
    BY <1>3, SingleCrsGrow
<1>5. Clean.has_cr = EndsWithCr(SubSeq(s, 1, 0))
    BY <1>3 DEF Clean, EndsWithCr
<1> QED
    BY <1>1, <1>2, <1>3, <1>4, <1>5, NothingIsParsed DEF Reads

\* A byte is read.
LEMMA ReadByte ==
    ASSUME NEW p \in Parsers, Fits(p), NEW s \in Seq(Bytes), NEW n \in Nat, n < Len(s),
           Reads(p, s, n), ~EndsHeader(p, s[n + 1])
    PROVE  Reads(ConsumeByte(p, s[n + 1]), s, n + 1)
<1> DEFINE b == s[n + 1]
           q == ConsumeByte(p, b)
<1>1. Len(s) \in Nat /\ n \in 0..Len(s) /\ n + 1 \in 1..Len(s)
    BY LenProperties
<1>2. b \in Bytes /\ s # <<>>
    BY <1>1, ElementOfSeq
<1>3. /\ (Inked(s, n) => Line(p) # <<>>) => (Inked(s, n + 1) => Line(q) # <<>>)
      /\ (Inked(s, n) <=> Line(p) # <<>>) => (Inked(s, n + 1) <=> Line(q) # <<>>)
    BY LineOfByte
<1> HIDE DEF q
<1>4. CASE Filled(s, Len(s)) /\ (Inked(s, n) => Line(p) # <<>>)
    BY <1>2, <1>3, <1>4 DEF Reads, q
<1>5. CASE /\ Filled(s, n) /\ (Inked(s, n) <=> Line(p) # <<>>)
           /\ Parsed(p, SingleCrs(SubSeq(s, 1, n)))
           /\ p.has_cr = EndsWithCr(SubSeq(s, 1, n))
    <2> DEFINE t == SubSeq(s, 1, n)
    <2>1. Filled(s, n + 1)
        <3>1. b = LF => Line(p) # <<>>
            BY DEF EndsHeader
        <3> QED
            BY <3>1, <1>5, InkedByte
    <2>2. SubSeq(s, 1, n) \in Seq(Bytes) /\ SubSeq(s, 1, n + 1) = Append(SubSeq(s, 1, n), b)
        BY <1>1, PrefixGrows
    <2>3. /\ SingleCrs(t) \in Seq(Bytes)
          /\ SingleCrs(Append(t, b)) =
                 IF EndsWithCr(t) /\ b = CR THEN SingleCrs(t) ELSE Append(SingleCrs(t), b)
        BY <1>2, <2>2, SingleCrsGrow
    <2>4. Parsed(q, SingleCrs(Append(t, b)))
        <3>1. CASE p.has_cr /\ b = CR
            <4>1. q = p
                BY <3>1, BytesAssumption DEF q, ConsumeByte, Parsers
            <4> QED
                BY <1>5, <2>3, <3>1, <4>1
        <3>2. CASE ~(p.has_cr /\ b = CR)
            <4>1. Parsed(q, Append(SingleCrs(t), b))
                BY <1>2, <1>5, <2>3, <3>2, ParsedByte DEF q
            <4> QED
                BY <1>5, <2>3, <3>2, <4>1
        <3> QED
            BY <3>1, <3>2
    <2>5. q.has_cr = EndsWithCr(Append(t, b))
        <3>1. EndsWithCr(Append(t, b)) <=> b = CR
            <4>1. /\ Append(t, b) # <<>> /\ Len(Append(t, b)) = Len(t) + 1
                  /\ Append(t, b)[Len(t) + 1] = b
                BY <1>2, <2>2, AppendProperties
            <4> QED
                BY <4>1 DEF EndsWithCr
        <3>2. q.has_cr \in BOOLEAN
            BY <1>2, ConsumeByteFits DEF Parsers, q
        <3>3. q.has_cr <=> b = CR
            BY <1>2, ConsumeByteLines, BytesAssumption DEF q
        <3> QED
            BY <3>1, <3>2, <3>3 DEF EndsWithCr
    <2> QED
        BY <1>2, <1>3, <1>5, <2>1, <2>2, <2>4, <2>5 DEF Reads, q
<1> QED
    BY <1>4, <1>5 DEF Reads

\* A header ends.
LEMMA ReadHeader ==
    ASSUME NEW p \in Parsers, Fits(p), NEW s \in Seq(Bytes), NEW n \in Nat, n < Len(s),
           Reads(p, s, n), EndsHeader(p, s[n + 1])
    PROVE  /\ IsRequest(SingleCrs(SubSeq(s, 1, n + 1)))
           /\ IsHeaderOf(TakeHeader(p), SingleCrs(SubSeq(s, 1, n + 1)))
<1>1. Len(s) \in Nat /\ n \in 0..Len(s) /\ n + 1 \in 1..Len(s)
    BY LenProperties
<1>2. s[n + 1] = LF /\ Line(p) = <<>>
    BY DEF EndsHeader
<1>3. Parsed(p, SingleCrs(SubSeq(s, 1, n)))
    <2>1. ASSUME Filled(s, Len(s)), Inked(s, n) => Line(p) # <<>> PROVE FALSE
        <3>1. Inked(s, (n + 1) - 1)
            BY <1>1, <1>2, <2>1 DEF Filled
        <3>2. (n + 1) - 1 = n
            OBVIOUS
        <3> QED
            BY <1>2, <2>1, <3>1, <3>2
    <2> QED
        BY <2>1 DEF Reads
<1>4. SubSeq(s, 1, n) \in Seq(Bytes) /\ SubSeq(s, 1, n + 1) = Append(SubSeq(s, 1, n), LF)
    BY <1>1, <1>2, PrefixGrows
<1>5. EndsHeader(p, LF)
    BY <1>2 DEF EndsHeader
<1>6. /\ SingleCrs(SubSeq(s, 1, n)) \in Seq(Bytes)
      /\ SingleCrs(SubSeq(s, 1, n + 1)) = Append(SingleCrs(SubSeq(s, 1, n)), LF)
    <2>1. LF \in Bytes
        BY DEF Bytes
    <2> QED
        BY <1>4, <2>1, SingleCrsGrow, BytesAssumption
<1> QED
    BY <1>3, <1>5, <1>6, RequestIsParsed

\* consume is called again for the same bytes, with what it has made of them.
LEMMA ReadAgain ==
    ASSUME NEW p, NEW s, Reads(p, s, Len(s))
    PROVE  Reads(p, s, 0)
<1>1. ~Inked(s, 0)
    BY DEF Inked
<1> QED
    BY <1>1 DEF Reads
=============================================================================
