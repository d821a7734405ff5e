--------------------------- MODULE SequenceLemmas ---------------------------
(***************************************************************************)
(* What the proofs need to know of sequences: their elements, their        *)
(* concatenation and FlattenSeq.  Induction over a length is done with the *)
(* least counterexample.                                                   *)
(***************************************************************************)
EXTENDS SequencesExt, SequenceTheorems, WellFoundedInduction, TLAPS

\* A nonempty set of naturals has a least element.
LEMMA LeastNat ==
    ASSUME NEW T \in SUBSET Nat, T # {}
    PROVE  \E x \in T : \A y \in T : x <= y
<1>1. \E x \in T : \A y \in T : ~(<<y, x>> \in OpToRel(<, Nat))
  BY NatLessThanWellFounded, WFMin
<1>2. OpToRel(<, Nat) = {ss \in Nat \X Nat : ss[1] < ss[2]}
  BY Zenon DEF OpToRel
<1>3. \A x, y \in Nat : <<y, x>> \in {ss \in Nat \X Nat : ss[1] < ss[2]} <=> y < x
  OBVIOUS
<1>4. \A x, y \in Nat : <<y, x>> \in OpToRel(<, Nat) <=> y < x
  BY <1>2, <1>3, Zenon
<1>5. \A x, y \in T : ~(y < x) => x <= y
  OBVIOUS
<1> QED
  BY <1>1, <1>4, <1>5, Zenon

-----------------------------------------------------------------------------
(* Elements                                                                *)

\* The elements of an empty sequence.
LEMMA EmptyElements ==
    /\ ToSet(<<>>) = {}
    /\ IsInjective(<<>>)
BY DEF ToSet, IsInjective

\* What is put at the end is one more element.
LEMMA AppendElements ==
    ASSUME NEW S, NEW s \in Seq(S), NEW e \in S
    PROVE  /\ Append(s, e) \in Seq(S) /\ Append(s, e) # <<>>
           /\ ToSet(Append(s, e)) = ToSet(s) \cup {e}
           /\ Last(Append(s, e)) = e
           /\ IsInjective(s) /\ e \notin ToSet(s) => IsInjective(Append(s, e))
<1>1. /\ Append(s, e) \in Seq(S) /\ Len(Append(s, e)) = Len(s) + 1
      /\ Append(s, e)[Len(s) + 1] = e
      /\ \A i \in 1..Len(s) : Append(s, e)[i] = s[i]
    OBVIOUS
<1>2. DOMAIN s = 1..Len(s) /\ DOMAIN Append(s, e) = 1..(Len(s) + 1) /\ Len(s) \in Nat
    BY <1>1
<1>3. ToSet(Append(s, e)) = ToSet(s) \cup {e}
    BY <1>1, <1>2 DEF ToSet
<1>4. Last(Append(s, e)) = e
    BY <1>1 DEF Last
<1>5. IsInjective(s) /\ e \notin ToSet(s) => IsInjective(Append(s, e))
    BY <1>1, <1>2 DEF IsInjective, ToSet
<1>6. Append(s, e) # <<>>
    <2>1. Len(Append(s, e)) # 0
        BY <1>1, <1>2
    <2> QED
        BY <2>1, EmptySeq
<1> QED
    BY <1>1, <1>3, <1>4, <1>5, <1>6

\* Without its first element a sequence has the others, each once if it had.
LEMMA TailElements ==
    ASSUME NEW S, NEW s \in Seq(S), s # <<>>
    PROVE  /\ Head(s) \in S /\ Head(s) \in ToSet(s)
           /\ Tail(s) \in Seq(S)
           /\ Tail(s) = <<>> <=> Len(s) = 1
           /\ IsInjective(s) => /\ IsInjective(Tail(s))
                                /\ ToSet(Tail(s)) = ToSet(s) \ {Head(s)}
<1>1. /\ Len(s) \in Nat \ {0} /\ DOMAIN s = 1..Len(s) /\ Head(s) = s[1]
      /\ Tail(s) \in Seq(S) /\ Len(Tail(s)) = Len(s) - 1
      /\ \A i \in 1..(Len(s) - 1) : Tail(s)[i] = s[i + 1]
    OBVIOUS
<1>2. DOMAIN Tail(s) = 1..(Len(s) - 1)
    BY <1>1
<1>3. Head(s) \in S /\ Head(s) \in ToSet(s)
    BY <1>1 DEF ToSet
<1>4. Tail(s) = <<>> <=> Len(s) = 1
    BY <1>1, SMTT(30)
<1>5. ASSUME IsInjective(s)
      PROVE  IsInjective(Tail(s))
    BY <1>1, <1>2, <1>5 DEF IsInjective
<1>6. ASSUME IsInjective(s)
      PROVE  ToSet(Tail(s)) = ToSet(s) \ {Head(s)}
    <2>1. ASSUME NEW x \in ToSet(Tail(s)) PROVE x \in ToSet(s) /\ x # Head(s)
        <3>1. PICK i \in 1..(Len(s) - 1) : x = s[i + 1]
            BY <2>1, <1>1, <1>2 DEF ToSet
        <3>2. i + 1 \in 1..Len(s) /\ 1 \in 1..Len(s) /\ i + 1 # 1
            BY <1>1
        <3> QED
            BY <3>1, <3>2, <1>1, <1>6 DEF ToSet, IsInjective
    <2>2. ASSUME NEW x \in ToSet(s), x # Head(s) PROVE x \in ToSet(Tail(s))
        <3>1. PICK i \in 1..Len(s) : x = s[i]
            BY <1>1 DEF ToSet
        <3>2. i - 1 \in 1..(Len(s) - 1) /\ Tail(s)[i - 1] = s[i]
            BY <3>1, <2>2, <1>1
        <3> QED
            BY <3>1, <3>2, <1>2 DEF ToSet
    <2> QED
        BY <2>1, <2>2
<1> QED
    BY <1>1, <1>3, <1>4, <1>5, <1>6

\* Concatenation may be bracketed as one likes.
LEMMA ConcatAssoc ==
    \A S : \A s, t, u \in Seq(S) : (s \o t) \o u = s \o (t \o u)
BY ConcatAssociative, SMT

\* What is put at the end of the second part is at the end of both.
LEMMA ConcatAppend ==
    ASSUME NEW S, NEW s \in Seq(S), NEW t \in Seq(S), NEW e \in S
    PROVE  s \o Append(t, e) = Append(s \o t, e)
<1>1. s \o t \in Seq(S)
  BY ConcatProperties
<1>2. Append(t, e) = t \o <<e>> /\ Append(s \o t, e) = (s \o t) \o <<e>>
  BY <1>1, AppendIsConcat
<1>3. <<e>> \in Seq(S)
  OBVIOUS
<1>4. s \o (t \o <<e>>) = (s \o t) \o <<e>>
  BY <1>3, ConcatAssociative
<1> QED
  BY <1>2, <1>4

\* The first element of the second part may as well be the last of the first.
LEMMA ConcatMoveHead ==
    ASSUME NEW S, NEW s \in Seq(S), NEW t \in Seq(S), t # <<>>
    PROVE  Append(s, Head(t)) \o Tail(t) = s \o t
<1> DEFINE u == Append(s, Head(t)) \o Tail(t)
           v == s \o t
<1>1. Head(t) \in S /\ Tail(t) \in Seq(S) /\ Len(t) \in Nat \ {0} /\ Len(s) \in Nat
      /\ Len(Tail(t)) = Len(t) - 1 /\ t[1] = Head(t)
      /\ \A i \in 1..(Len(t) - 1) : Tail(t)[i] = t[i + 1]
  BY HeadTailProperties
<1>2. /\ Append(s, Head(t)) \in Seq(S) /\ Len(Append(s, Head(t))) = Len(s) + 1
      /\ Append(s, Head(t))[Len(s) + 1] = Head(t)
      /\ \A i \in 1..Len(s) : Append(s, Head(t))[i] = s[i]
  BY <1>1, AppendProperties
<1>3. /\ u \in Seq(S) /\ Len(u) = Len(s) + Len(t)
      /\ \A i \in 1..(Len(s) + Len(t)) :
            u[i] = IF i <= Len(s) + 1 THEN Append(s, Head(t))[i]
                   ELSE Tail(t)[i - (Len(s) + 1)]
  BY <1>1, <1>2, ConcatProperties
<1>4. /\ v \in Seq(S) /\ Len(v) = Len(s) + Len(t)
      /\ \A i \in 1..(Len(s) + Len(t)) :
            v[i] = IF i <= Len(s) THEN s[i] ELSE t[i - Len(s)]
  BY ConcatProperties
<1> HIDE DEF u, v
<1>5. ASSUME NEW i \in 1..(Len(s) + Len(t)) PROVE u[i] = v[i]
  <2>1. CASE i <= Len(s)
    BY <2>1, <1>1, <1>2, <1>3, <1>4
  <2>2. CASE i = Len(s) + 1
    BY <2>2, <1>1, <1>2, <1>3, <1>4
  <2>3. CASE i > Len(s) + 1
    <3>1. i - (Len(s) + 1) \in 1..(Len(t) - 1) /\ (i - (Len(s) + 1)) + 1 = i - Len(s)
      BY <2>3, <1>1
    <3>2. Tail(t)[i - (Len(s) + 1)] = t[i - Len(s)]
      BY <3>1, <1>1
    <3>3. u[i] = Tail(t)[i - (Len(s) + 1)] /\ v[i] = t[i - Len(s)]
      BY <2>3, <1>1, <1>3, <1>4
    <3> QED
      BY <3>2, <3>3
  <2> QED
    BY <1>1, <2>1, <2>2, <2>3
<1>6. u = v
  BY <1>3, <1>4, <1>5, SeqEqual
<1> QED
  BY <1>6 DEF u, v

\* The first element of both parts is the first of the first part.
LEMMA ConcatTail ==
    ASSUME NEW S, NEW s \in Seq(S), NEW t \in Seq(S), s # <<>>
    PROVE  s \o t # <<>> /\ Tail(s \o t) = Tail(s) \o t
<1> DEFINE u == s \o t
           v == Tail(s) \o t
<1>1. Tail(s) \in Seq(S) /\ Len(s) \in Nat \ {0} /\ Len(t) \in Nat
      /\ Len(Tail(s)) = Len(s) - 1
      /\ \A i \in 1..(Len(s) - 1) : Tail(s)[i] = s[i + 1]
  BY HeadTailProperties
<1>2. /\ u \in Seq(S) /\ Len(u) = Len(s) + Len(t)
      /\ \A i \in 1..(Len(s) + Len(t)) :
            u[i] = IF i <= Len(s) THEN s[i] ELSE t[i - Len(s)]
  BY ConcatProperties
<1>3. /\ v \in Seq(S) /\ Len(v) = Len(s) + Len(t) - 1
      /\ \A i \in 1..(Len(s) + Len(t) - 1) :
            v[i] = IF i <= Len(s) - 1 THEN Tail(s)[i] ELSE t[i - (Len(s) - 1)]
  BY <1>1, ConcatProperties
<1> HIDE DEF u, v
<1>4. u # <<>>
  BY <1>1, <1>2
<1>5. /\ Tail(u) \in Seq(S) /\ Len(Tail(u)) = Len(s) + Len(t) - 1
      /\ \A i \in 1..(Len(s) + Len(t) - 1) : Tail(u)[i] = u[i + 1]
  BY <1>2, <1>4, HeadTailProperties
<1>6. ASSUME NEW i \in 1..(Len(s) + Len(t) - 1) PROVE Tail(u)[i] = v[i]
  <2>1. i + 1 \in 1..(Len(s) + Len(t)) /\ (i + 1) - Len(s) = i - (Len(s) - 1)
    BY <1>1
  <2>2. CASE i <= Len(s) - 1
    <3>1. i \in 1..(Len(s) - 1) /\ i + 1 <= Len(s)
      BY <2>2, <1>1
    <3>2. u[i + 1] = s[i + 1]
      BY <2>1, <3>1, <1>2
    <3>3. v[i] = Tail(s)[i]
      BY <2>2, <1>3
    <3> QED
      BY <3>1, <3>2, <3>3, <1>1, <1>5
  <2>3. CASE ~(i <= Len(s) - 1)
    <3>1. ~(i + 1 <= Len(s))
      BY <2>3, <1>1
    <3>2. u[i + 1] = t[(i + 1) - Len(s)]
      BY <2>1, <3>1, <1>2
    <3>3. v[i] = t[i - (Len(s) - 1)]
      BY <2>3, <1>3
    <3>4. u[i + 1] = v[i]
      BY <2>1, <3>2, <3>3
    <3> QED
      BY <3>4, <1>5
  <2> QED
    BY <2>2, <2>3
<1>7. Tail(u) = v
  BY <1>3, <1>5, <1>6, SeqEqual
<1> QED
  BY <1>4, <1>7 DEF u, v

\* The first part is a prefix of both.
LEMMA ConcatPrefix ==
    ASSUME NEW S, NEW s \in Seq(S), NEW t \in Seq(S)
    PROVE  Len(s) \in 0..Len(s \o t) /\ SubSeq(s \o t, 1, Len(s)) = s
<1> DEFINE u == s \o t
           v == SubSeq(u, 1, Len(s))
<1>1. /\ u \in Seq(S) /\ Len(u) = Len(s) + Len(t) /\ Len(s) \in Nat /\ Len(t) \in Nat
      /\ \A i \in 1..(Len(s) + Len(t)) :
            u[i] = IF i <= Len(s) THEN s[i] ELSE t[i - Len(s)]
  BY ConcatProperties
<1> HIDE DEF u
<1>2. \A i \in 1..Len(s) : u[i] = s[i] /\ s[i] \in S
  BY <1>1
<1>3. /\ v \in Seq(S) /\ Len(v) = Len(s)
      /\ \A i \in 1..Len(s) : v[i] = u[i]
  BY <1>1, <1>2, SubSeqProperties
<1> HIDE DEF v
<1>4. v = s
  BY <1>2, <1>3, SeqEqual
<1> QED
  BY <1>1, <1>4 DEF u, v

\* What follows the first part of both is the second part.
LEMMA ConcatDrop ==
    ASSUME NEW S, NEW s \in Seq(S), NEW t \in Seq(S)
    PROVE  SubSeq(s \o t, Len(s) + 1, Len(s \o t)) = t
<1> DEFINE u == s \o t
           v == SubSeq(u, Len(s) + 1, Len(u))
<1>1. /\ u \in Seq(S) /\ Len(u) = Len(s) + Len(t) /\ Len(s) \in Nat /\ Len(t) \in Nat
      /\ \A i \in 1..(Len(s) + Len(t)) :
            u[i] = IF i <= Len(s) THEN s[i] ELSE t[i - Len(s)]
  BY ConcatProperties
<1> HIDE DEF u
<1>2. \A i \in Len(s) + 1 .. Len(u) : u[i] \in S
  BY <1>1
<1>3. /\ v \in Seq(S) /\ Len(v) = Len(t)
      /\ \A i \in 1..Len(t) : v[i] = u[Len(s) + 1 + i - 1]
  <2>1. /\ v \in Seq(S)
        /\ Len(v) = IF Len(s) + 1 <= Len(u) THEN Len(u) - (Len(s) + 1) + 1 ELSE 0
        /\ \A i \in 1 .. Len(u) - (Len(s) + 1) + 1 : v[i] = u[Len(s) + 1 + i - 1]
    BY <1>1, <1>2, SubSeqProperties
  <2>2. Len(u) - (Len(s) + 1) + 1 = Len(t)
    BY <1>1
  <2> HIDE DEF v
  <2> QED
    BY <2>1, <2>2, <1>1
<1> HIDE DEF v
<1>4. ASSUME NEW i \in 1..Len(t) PROVE v[i] = t[i]
  <2>1. /\ Len(s) + 1 + i - 1 \in 1..(Len(s) + Len(t)) /\ ~(Len(s) + 1 + i - 1 <= Len(s))
        /\ Len(s) + 1 + i - 1 - Len(s) = i
    BY <1>1
  <2>2. u[Len(s) + 1 + i - 1] = t[Len(s) + 1 + i - 1 - Len(s)]
    BY <2>1, <1>1
  <2>3. u[Len(s) + 1 + i - 1] = t[i]
    BY <2>1, <2>2, Zenon
  <2> QED
    BY <2>3, <1>3
<1>5. v = t
  BY <1>3, <1>4, SeqEqual
<1> QED
  BY <1>5 DEF u, v

\* A sequence is its first n elements and those that follow.
LEMMA SplitSeq ==
    ASSUME NEW S, NEW s \in Seq(S), NEW n \in 0..Len(s)
    PROVE  /\ SubSeq(s, 1, n) \in Seq(S) /\ Len(SubSeq(s, 1, n)) = n
           /\ SubSeq(s, n + 1, Len(s)) \in Seq(S)
           /\ Len(SubSeq(s, n + 1, Len(s))) = Len(s) - n
           /\ SubSeq(s, 1, n) \o SubSeq(s, n + 1, Len(s)) = s
<1>1. Len(s) \in Nat /\ n \in Nat /\ n <= Len(s) /\ \A i \in 1..Len(s) : s[i] \in S
  OBVIOUS
<1>2. /\ SubSeq(s, 1, n) \in Seq(S) /\ Len(SubSeq(s, 1, n)) = n
  BY <1>1, SubSeqProperties
<1>3. /\ SubSeq(s, n + 1, Len(s)) \in Seq(S)
      /\ Len(SubSeq(s, n + 1, Len(s))) = Len(s) - n
  BY <1>1, SubSeqProperties
<1>4. SubSeq(s, 1, n) \o SubSeq(s, n + 1, Len(s)) = SubSeq(s, 1, Len(s))
  <2>1. 1 \in 1..Len(s) + 1 /\ n \in 1 - 1 .. Len(s) /\ Len(s) \in n..Len(s)
    BY <1>1
  <2> QED
    BY <2>1, ConcatAdjacentSubSeq
<1>5. SubSeq(s, 1, Len(s)) = s
  BY SubSeqFull
<1> QED
  BY <1>2, <1>3, <1>4, <1>5

\* An element that is put in front of a sequence.
LEMMA ConcatFront ==
    ASSUME NEW S, NEW x \in S, NEW t \in Seq(S)
    PROVE  /\ <<x>> \o t \in Seq(S) /\ <<x>> \o t # <<>>
           /\ Head(<<x>> \o t) = x /\ Tail(<<x>> \o t) = t
<1>1. <<x>> \in Seq(S) /\ <<x>> # <<>> /\ Len(<<x>>) = 1 /\ Head(<<x>>) = x
  OBVIOUS
<1>2. Tail(<<x>>) = <<>>
  OBVIOUS
<1>3. <<x>> \o t \in Seq(S) /\ <<x>> \o t # <<>> /\ Tail(<<x>> \o t) = <<>> \o t
  BY <1>1, <1>2, ConcatTail, ConcatProperties
<1>4. <<>> \o t = t
  BY ConcatEmptySeq
<1>5. (<<x>> \o t)[1] = x
  OBVIOUS
<1>6. Head(<<x>> \o t) = (<<x>> \o t)[1]
  BY <1>3
<1> QED
  BY <1>3, <1>4, <1>5, <1>6

\* Only one sequence has no element to take from.
LEMMA SeqOfNothing == \A s \in Seq({}) : s = <<>>
<1> SUFFICES ASSUME NEW s \in Seq({}) PROVE s = <<>>
  OBVIOUS
<1>1. \A i \in 1..Len(s) : s[i] \in {}
  BY ElementOfSeq
<1>2. Len(s) \in Nat /\ ~(1 <= Len(s))
  BY <1>1
<1>3. <<>> \in Seq({}) /\ Len(<<>>) = 0
  OBVIOUS
<1> QED
  BY <1>2, <1>3, SeqEqual

-----------------------------------------------------------------------------
(* FlattenSeq                                                              *)

\* f gives, for each k up to n, the first k sequences one after the other.
Flattens(ss, n, f) ==
    /\ f[0] = <<>>
    /\ \A k \in 1..n : f[k] = f[k - 1] \o ss[k]

\* There is such a function, for every n.
LEMMA FlattenExists ==
    ASSUME NEW S, NEW ss \in Seq(Seq(S)), NEW n \in 0..Len(ss)
    PROVE  \E f \in [0..n -> Seq(S)] : Flattens(ss, n, f)
<1> DEFINE Bad == {k \in 0..Len(ss) : ~\E f \in [0..k -> Seq(S)] : Flattens(ss, k, f)}
<1> SUFFICES ASSUME Bad # {} PROVE FALSE
  OBVIOUS
<1>1. PICK k \in Bad : \A j \in Bad : k <= j
  <2>1. Bad \in SUBSET Nat
    OBVIOUS
  <2> QED
    BY <2>1, LeastNat
<1>2. CASE k = 0
  <2>1. [i \in 0..0 |-> <<>>] \in [0..0 -> Seq(S)]
    OBVIOUS
  <2>2. Flattens(ss, 0, [i \in 0..0 |-> <<>>])
    BY DEF Flattens
  <2> QED
    BY <1>2, <2>1, <2>2
<1>3. CASE k # 0
  <2>1. k - 1 \in 0..Len(ss) /\ k - 1 \notin Bad
    <3>1. k \in 1..Len(ss)
      BY <1>3
    <3>2. k - 1 \in 0..Len(ss) /\ ~(k <= k - 1)
      BY <3>1
    <3> QED
      BY <3>2, <1>1, Zenon
  <2>2. PICK f \in [0..(k-1) -> Seq(S)] : Flattens(ss, k - 1, f)
    BY <2>1
  <2> DEFINE g == [i \in 0..k |-> IF i < k THEN f[i] ELSE f[k-1] \o ss[k]]
  <2>3. ss[k] \in Seq(S) /\ f[k-1] \in Seq(S)
    BY <1>1, <1>3
  <2>4. f[k-1] \o ss[k] \in Seq(S)
    BY <2>3, ConcatProperties
  <2>5. g \in [0..k -> Seq(S)]
    BY <2>4, <1>3, <1>1
  <2>6. g[0] = <<>>
    BY <2>2, <1>1, <1>3 DEF Flattens
  <2>7. ASSUME NEW j \in 1..k
        PROVE  g[j] = g[j - 1] \o ss[j]
    <3>0. j = k \/ j < k
      BY <1>1
    <3>1. CASE j = k
      <4>1. k \in 0..k /\ k - 1 \in 0..k /\ k - 1 < k /\ ~(k < k)
        BY <1>1, <1>3
      <4>2. g[k] = f[k-1] \o ss[k] /\ g[k-1] = f[k-1]
        BY <4>1
      <4> HIDE DEF g
      <4> QED
        BY <3>1, <4>2, Zenon
    <3>2. CASE j < k
      <4>1. j \in 1..(k-1) /\ j \in 0..k /\ j - 1 \in 0..k /\ j - 1 < k
        BY <3>2, <1>1, <1>3
      <4>2. g[j] = f[j] /\ g[j-1] = f[j-1]
        BY <4>1, <3>2
      <4> QED
        BY <4>1, <4>2, <2>2 DEF Flattens
    <3> QED
      BY <3>0, <3>1, <3>2, Zenon
  <2> QED
    BY <2>5, <2>6, <2>7, Zenon DEF Flattens
<1> QED
  BY <1>2, <1>3

\* The function by which FlattenSeq is defined gives the same results.
LEMMA FlattenIsFlatten ==
    ASSUME NEW S, NEW ss \in Seq(Seq(S)),
           NEW f \in [0..Len(ss) -> Seq(S)], Flattens(ss, Len(ss), f)
    PROVE  FlattenSeq(ss) = f[Len(ss)]
<1>1. CASE Len(ss) = 0
  <2>1. ss = <<>>
    BY <1>1, EmptySeq
  <2> QED
    BY <1>1, <2>1 DEF FlattenSeq, Flattens
<1>2. CASE Len(ss) # 0
  <2> DEFINE Body(g) == [i \in 1..Len(ss) |->
                            IF i = 1 THEN ss[i] ELSE g[i-1] \o ss[i]]
             flatten == CHOOSE g : g = Body(g)
             h == [i \in 1..Len(ss) |-> f[i]]
  <2>1. ASSUME NEW i \in 1..Len(ss)
        PROVE  h[i] = Body(h)[i]
    <3>1. CASE i = 1
      <4>1. f[1] = f[0] \o ss[1] /\ f[0] = <<>> /\ ss[1] \in Seq(S)
        <5>1. 1 \in 1..Len(ss) /\ 1 - 1 = 0 /\ ss[1] \in Seq(S)
          BY <3>1
        <5>2. f[1] = f[1 - 1] \o ss[1] /\ f[0] = <<>>
          BY <5>1, Zenon DEF Flattens
        <5> QED
          BY <5>1, <5>2, Zenon
      <4>2. <<>> \o ss[1] = ss[1]
        BY <4>1, ConcatEmptySeq
      <4> QED
        BY <3>1, <4>1, <4>2
    <3>2. CASE i # 1
      <4>1. i - 1 \in 1..Len(ss)
        BY <3>2
      <4> QED
        BY <3>2, <4>1 DEF Flattens
    <3> QED
      BY <3>1, <3>2
  <2>2. h = Body(h)
    BY <2>1
  <2>3. flatten = Body(flatten)
    <3> HIDE DEF Body, h
    <3> QED
      BY <2>2, Zenon
  <2>4. FlattenSeq(ss) = flatten[Len(ss)]
    BY <1>2, Zenon DEF FlattenSeq
  <2> HIDE DEF flatten
  <2> DEFINE Bad == {i \in 1..Len(ss) : flatten[i] # f[i]}
  <2>5. Bad = {}
    <3> SUFFICES ASSUME Bad # {} PROVE FALSE
      OBVIOUS
    <3>1. PICK i \in Bad : \A j \in Bad : i <= j
      <4>1. Bad \in SUBSET Nat
        OBVIOUS
      <4> QED
        BY <4>1, LeastNat
    <3>2. flatten[i] = IF i = 1 THEN ss[i] ELSE flatten[i-1] \o ss[i]
      <4>1. flatten[i] = Body(flatten)[i]
        <5> HIDE DEF Body
        <5> QED
          BY <2>3, Zenon
      <4> QED
        BY <3>1, <4>1
    <3>3. CASE i = 1
      <4>1. h[1] = Body(h)[1]
        BY <2>1, <1>2
      <4> QED
        BY <3>2, <3>3, <4>1, <1>2
    <3>4. CASE i # 1
      <4>1. i - 1 \in 1..Len(ss) /\ ~(i <= i - 1)
        BY <3>4
      <4>2. i - 1 \notin Bad
        BY <4>1, <3>1, Zenon
      <4>3. flatten[i-1] = f[i-1]
        BY <4>1, <4>2
      <4>4. f[i] = f[i-1] \o ss[i]
        BY DEF Flattens
      <4> QED
        BY <3>1, <3>2, <3>4, <4>3, <4>4
    <3> QED
      BY <3>3, <3>4
  <2>6. Len(ss) \in 1..Len(ss)
    BY <1>2
  <2> QED
    BY <2>4, <2>5, <2>6
<1> QED
  BY <1>1, <1>2

\* Flattening sequences gives a sequence of what they hold.
LEMMA FlattenType ==
    ASSUME NEW S, NEW ss \in Seq(Seq(S))
    PROVE  FlattenSeq(ss) \in Seq(S)
<1>1. Len(ss) \in 0..Len(ss)
  OBVIOUS
<1>2. PICK f \in [0..Len(ss) -> Seq(S)] : Flattens(ss, Len(ss), f)
  BY <1>1, FlattenExists
<1> QED
  BY <1>1, <1>2, FlattenIsFlatten

\* Nothing flattens to nothing.
LEMMA FlattenEmpty == FlattenSeq(<<>>) = <<>>
BY DEF FlattenSeq

\* A sequence at the end comes at the end.
LEMMA FlattenAppend ==
    ASSUME NEW S, NEW ss \in Seq(Seq(S)), NEW s \in Seq(S)
    PROVE  FlattenSeq(Append(ss, s)) = FlattenSeq(ss) \o s
<1> DEFINE tt == Append(ss, s)
           n == Len(ss)
<1>1. /\ tt \in Seq(Seq(S)) /\ n \in Nat /\ Len(tt) = n + 1
      /\ tt[n + 1] = s /\ \A i \in 1..n : tt[i] = ss[i]
  OBVIOUS
<1>2. n + 1 \in 0..Len(tt)
  BY <1>1
<1> HIDE DEF tt
<1>3. PICK f \in [0..(n + 1) -> Seq(S)] : Flattens(tt, n + 1, f)
  BY <1>1, <1>2, FlattenExists
<1>4. FlattenSeq(tt) = f[n + 1]
  BY <1>1, <1>3, FlattenIsFlatten
<1> DEFINE g == [i \in 0..n |-> f[i]]
<1>5. g \in [0..n -> Seq(S)]
  BY <1>1
<1>6. Flattens(ss, n, g)
  <2>1. g[0] = <<>>
    BY <1>1, <1>3 DEF Flattens
  <2>2. ASSUME NEW k \in 1..n PROVE g[k] = g[k - 1] \o ss[k]
    <3>1. k \in 0..n /\ k - 1 \in 0..n /\ k \in 1..(n + 1)
      BY <1>1
    <3>2. f[k] = f[k - 1] \o tt[k]
      BY <3>1, <1>3 DEF Flattens
    <3> QED
      BY <3>1, <3>2, <1>1
  <2> QED
    BY <2>1, <2>2, Zenon DEF Flattens
<1>7. FlattenSeq(ss) = g[n]
  BY <1>5, <1>6, FlattenIsFlatten
<1>8. f[n + 1] = f[n] \o s
  <2>1. n + 1 \in 1..(n + 1) /\ n + 1 - 1 = n
    BY <1>1
  <2> DEFINE m == n + 1
  <2>2. \A k \in 1..m : f[k] = f[k - 1] \o tt[k]
    BY <1>3, Zenon DEF Flattens
  <2> HIDE DEF m
  <2>3. m \in 1..m /\ m - 1 = n
    BY <2>1 DEF m
  <2>4. f[m] = f[m - 1] \o tt[m]
    BY <2>2, <2>3, Zenon
  <2> QED
    BY <2>3, <2>4, <1>1, Zenon DEF m
<1> QED
  BY <1>1, <1>4, <1>7, <1>8 DEF tt

\* What a sequence of sequences begins with comes first.
LEMMA FlattenHead ==
    ASSUME NEW S, NEW ss \in Seq(Seq(S)), ss # <<>>
    PROVE  FlattenSeq(ss) = Head(ss) \o FlattenSeq(Tail(ss))
<1> DEFINE tt == Tail(ss)
           n == Len(tt)
<1>1. /\ tt \in Seq(Seq(S)) /\ n \in Nat /\ Len(ss) = n + 1
      /\ ss[1] = Head(ss) /\ Head(ss) \in Seq(S)
      /\ \A i \in 1..n : tt[i] = ss[i + 1]
  BY HeadTailProperties
<1> HIDE DEF tt
<1>2. n \in 0..n
  BY <1>1
<1>3. PICK f \in [0..n -> Seq(S)] : Flattens(tt, n, f)
  BY <1>1, <1>2, FlattenExists
<1>4. FlattenSeq(tt) = f[n]
  BY <1>1, <1>3, FlattenIsFlatten
<1> DEFINE g == [i \in 0..(n + 1) |-> IF i = 0 THEN <<>> ELSE Head(ss) \o f[i - 1]]
<1>5. ASSUME NEW i \in 0..(n + 1) PROVE g[i] \in Seq(S)
  <2>1. CASE i = 0
    BY <2>1
  <2>2. CASE i # 0
    <3>1. i - 1 \in 0..n
      BY <2>2, <1>1
    <3>2. Head(ss) \o f[i - 1] \in Seq(S)
      BY <3>1, <1>1, ConcatProperties
    <3> QED
      BY <2>2, <3>2
  <2> QED
    BY <2>1, <2>2
<1>6. g \in [0..(n + 1) -> Seq(S)]
  BY <1>5
<1>7. Flattens(ss, n + 1, g)
  <2>1. g[0] = <<>>
    BY <1>1
  <2>2. ASSUME NEW k \in 1..(n + 1) PROVE g[k] = g[k - 1] \o ss[k]
    <3>1. CASE k = 1
      <4>1. g[1] = Head(ss) \o f[0] /\ g[0] = <<>> /\ f[0] = <<>>
        BY <1>1, <1>3 DEF Flattens
      <4>2. Head(ss) \o <<>> = Head(ss) /\ <<>> \o Head(ss) = Head(ss)
        BY <1>1, ConcatEmptySeq
      <4>3. g[1] = g[0] \o ss[1]
        BY <4>1, <4>2, <1>1
      <4>4. k - 1 = 0
        BY <3>1
      <4> HIDE DEF g
      <4> QED
        BY <3>1, <4>3, <4>4, Zenon
    <3>2. CASE k # 1
      <4>1. k - 1 \in 1..n /\ k \in 0..(n + 1) /\ k - 1 \in 0..(n + 1) /\ k # 0
            /\ k - 1 # 0 /\ k - 1 - 1 \in 0..n /\ (k - 1) + 1 = k
        BY <3>2, <1>1
      <4>2. f[k - 1] = f[k - 1 - 1] \o tt[k - 1]
        BY <4>1, <1>3 DEF Flattens
      <4>3. tt[k - 1] = ss[k] /\ ss[k] \in Seq(S)
        <5>1. tt[k - 1] = ss[(k - 1) + 1]
          BY <4>1, <1>1, Zenon
        <5>2. ss[k] \in Seq(S)
          BY <4>1, <1>1
        <5> QED
          BY <4>1, <5>1, <5>2, Zenon
      <4>4. f[k - 1 - 1] \in Seq(S)
        BY <4>1
      <4>5. Head(ss) \o (f[k - 1 - 1] \o ss[k]) = (Head(ss) \o f[k - 1 - 1]) \o ss[k]
        <5>1. PICK a \in Seq(S), b \in Seq(S), c \in Seq(S) :
                 a = Head(ss) /\ b = f[k - 1 - 1] /\ c = ss[k]
          BY <4>3, <4>4, <1>1, Zenon
        <5>2. (a \o b) \o c = a \o (b \o c)
          BY ConcatAssoc, SMTT(60)
        <5> QED
          BY <5>1, <5>2, Zenon
      <4>6. g[k] = Head(ss) \o f[k - 1] /\ g[k - 1] = Head(ss) \o f[k - 1 - 1]
        BY <4>1
      <4> QED
        BY <4>2, <4>3, <4>5, <4>6
    <3> QED
      BY <3>1, <3>2
  <2> QED
    BY <2>1, <2>2, Zenon DEF Flattens
<1>8. FlattenSeq(ss) = g[n + 1]
  <2> HIDE DEF g, n
  <2> QED
    BY <1>1, <1>6, <1>7, FlattenIsFlatten
<1>9. g[n + 1] = Head(ss) \o f[n]
  BY <1>1
<1> QED
  BY <1>4, <1>8, <1>9 DEF tt

-----------------------------------------------------------------------------
(* Flattening what a function gives for each element of a sequence.        *)

Each(f, s) == [i \in DOMAIN s |-> f[s[i]]]

\* There is one result for each element.
LEMMA EachLen ==
    ASSUME NEW S, NEW f, NEW s \in Seq(S)
    PROVE  Len(Each(f, s)) = Len(s)
<1>1. DOMAIN s = 1..Len(s) /\ Len(s) \in Nat
  OBVIOUS
<1> QED
  BY <1>1 DEF Each

\* Each result is of the function's type.
LEMMA EachType ==
    ASSUME NEW S, NEW T, NEW f, \A x \in S : f[x] \in T, NEW s \in Seq(S)
    PROVE  Each(f, s) \in Seq(T)
<1>1. DOMAIN s = 1..Len(s) /\ Len(s) \in Nat
  OBVIOUS
<1>2. Each(f, s) \in [1..Len(s) -> T]
  BY <1>1 DEF Each
<1> QED
  BY <1>1, <1>2

\* The result for one more element comes last.
LEMMA EachAppend ==
    ASSUME NEW S, NEW f, NEW s \in Seq(S), NEW x \in S
    PROVE  Each(f, Append(s, x)) = Append(Each(f, s), f[x])
<1> DEFINE T == {f[y] : y \in S}
           u == Each(f, Append(s, x))
           v == Append(Each(f, s), f[x])
<1>1. /\ Append(s, x) \in Seq(S) /\ Len(Append(s, x)) = Len(s) + 1 /\ Len(s) \in Nat
      /\ Append(s, x)[Len(s) + 1] = x
      /\ \A i \in 1..Len(s) : Append(s, x)[i] = s[i]
  BY AppendProperties
<1>2. u \in Seq(T) /\ Len(u) = Len(s) + 1
  <2>1. u \in Seq(T)
    BY <1>1, EachType, Zenon
  <2> QED
    BY <1>1, <2>1, EachLen
<1>3. Each(f, s) \in Seq(T) /\ Len(Each(f, s)) = Len(s)
  <2>1. Each(f, s) \in Seq(T)
    BY EachType, Zenon
  <2> QED
    BY <2>1, EachLen
<1>4. /\ v \in Seq(T) /\ Len(v) = Len(s) + 1
      /\ v[Len(s) + 1] = f[x]
      /\ \A i \in 1..Len(s) : v[i] = Each(f, s)[i]
  BY <1>3, AppendProperties
<1>5. ASSUME NEW i \in 1..(Len(s) + 1) PROVE u[i] = v[i]
  <2>1. DOMAIN Append(s, x) = 1..(Len(s) + 1) /\ DOMAIN s = 1..Len(s)
    BY <1>1
  <2>2. u[i] = f[Append(s, x)[i]]
    BY <2>1 DEF Each
  <2>3. CASE i = Len(s) + 1
    BY <2>2, <2>3, <1>1, <1>4
  <2>4. CASE i \in 1..Len(s)
    <3>1. Each(f, s)[i] = f[s[i]]
      BY <2>1, <2>4 DEF Each
    <3>2. v[i] = Each(f, s)[i] /\ Append(s, x)[i] = s[i]
      BY <2>4, <1>1, <1>4
    <3> QED
      BY <2>2, <3>1, <3>2
  <2>5. i = Len(s) + 1 \/ i \in 1..Len(s)
    BY <1>1
  <2> QED
    BY <2>3, <2>4, <2>5, Zenon
<1> HIDE DEF u, v
<1>6. u = v
  BY <1>1, <1>2, <1>4, <1>5, SeqEqual
<1> QED
  BY <1>6 DEF u, v

\* The result for the first element comes first.
LEMMA EachHead ==
    ASSUME NEW S, NEW f, NEW s \in Seq(S), s # <<>>
    PROVE  /\ Each(f, s) # <<>>
           /\ Head(Each(f, s)) = f[Head(s)]
           /\ Tail(Each(f, s)) = Each(f, Tail(s))
<1> DEFINE T == {f[y] : y \in S}
           u == Each(f, s)
           v == Each(f, Tail(s))
<1>1. /\ Len(s) \in Nat \ {0} /\ DOMAIN s = 1..Len(s) /\ Head(s) = s[1]
      /\ Tail(s) \in Seq(S) /\ Len(Tail(s)) = Len(s) - 1
      /\ \A i \in 1..(Len(s) - 1) : Tail(s)[i] = s[i + 1]
  BY HeadTailProperties
<1>2. u \in Seq(T) /\ Len(u) = Len(s) /\ v \in Seq(T) /\ Len(v) = Len(s) - 1
  <2>1. u \in Seq(T) /\ v \in Seq(T)
    BY <1>1, EachType, Zenon
  <2> QED
    BY <1>1, <2>1, EachLen
<1>3. \A i \in 1..Len(s) : u[i] = f[s[i]]
  BY <1>1 DEF Each
<1>4. ASSUME NEW i \in 1..(Len(s) - 1) PROVE v[i] = f[s[i + 1]]
  <2>1. DOMAIN Tail(s) = 1..(Len(s) - 1)
    BY <1>1
  <2>2. v[i] = f[Tail(s)[i]]
    BY <2>1 DEF Each
  <2> QED
    BY <2>2, <1>1
<1> HIDE DEF u, v
<1>5. u # <<>> /\ Head(u) = u[1] /\ 1 \in 1..Len(s)
  BY <1>1, <1>2
<1>6. /\ Tail(u) \in Seq(T) /\ Len(Tail(u)) = Len(s) - 1
      /\ \A i \in 1..(Len(s) - 1) : Tail(u)[i] = u[i + 1]
  BY <1>2, <1>5, HeadTailProperties
<1>7. ASSUME NEW i \in 1..(Len(s) - 1) PROVE Tail(u)[i] = v[i]
  <2>1. i + 1 \in 1..Len(s)
    BY <1>1
  <2>2. u[i + 1] = f[s[i + 1]]
    BY <2>1, <1>3
  <2> QED
    BY <2>2, <1>4, <1>6
<1>8. Tail(u) = v
  BY <1>2, <1>6, <1>7, SeqEqual
<1>9. Head(u) = f[Head(s)]
  BY <1>1, <1>3, <1>5
<1> QED
  BY <1>5, <1>8, <1>9 DEF u, v

\* What is flattened.
LEMMA FlattenEachType ==
    ASSUME NEW S, NEW T, NEW f \in [S -> Seq(T)]
    PROVE  /\ FlattenSeq(Each(f, <<>>)) = <<>>
           /\ \A s \in Seq(S) : FlattenSeq(Each(f, s)) \in Seq(T)
<1>1. FlattenSeq(Each(f, <<>>)) = <<>>
  <2>1. Each(f, <<>>) = <<>>
    BY DEF Each
  <2> QED
    BY <2>1, FlattenEmpty
<1>2. ASSUME NEW s \in Seq(S)
      PROVE  FlattenSeq(Each(f, s)) \in Seq(T)
  <2>1. Each(f, s) \in Seq(Seq(T))
    BY EachType
  <2> QED
    BY <2>1, FlattenType
<1> QED
  BY <1>1, <1>2

\* What one more element gives comes last.
LEMMA FlattenEachAppend ==
    ASSUME NEW S, NEW T, NEW f \in [S -> Seq(T)]
    PROVE  \A s \in Seq(S), x \in S :
              FlattenSeq(Each(f, Append(s, x))) = FlattenSeq(Each(f, s)) \o f[x]
<1> SUFFICES ASSUME NEW s \in Seq(S), NEW x \in S
             PROVE  FlattenSeq(Each(f, Append(s, x))) = FlattenSeq(Each(f, s)) \o f[x]
  OBVIOUS
<1>1. Each(f, s) \in Seq(Seq(T)) /\ f[x] \in Seq(T)
  BY EachType
<1>2. Each(f, Append(s, x)) = Append(Each(f, s), f[x])
  BY EachAppend
<1> QED
  BY <1>1, <1>2, FlattenAppend

\* What the first element gives comes first.
LEMMA FlattenEachHead ==
    ASSUME NEW S, NEW T, NEW f \in [S -> Seq(T)]
    PROVE  \A s \in Seq(S) : s # <<>> =>
              FlattenSeq(Each(f, s)) = f[Head(s)] \o FlattenSeq(Each(f, Tail(s)))
<1> SUFFICES ASSUME NEW s \in Seq(S), s # <<>>
             PROVE  FlattenSeq(Each(f, s)) = f[Head(s)] \o FlattenSeq(Each(f, Tail(s)))
  OBVIOUS
<1>1. Each(f, s) \in Seq(Seq(T))
  BY EachType
<1>2. Each(f, s) # <<>>
  BY EachHead
<1>3. Head(Each(f, s)) = f[Head(s)]
  BY EachHead, ZenonT(60)
<1>4. Tail(Each(f, s)) = Each(f, Tail(s))
  BY EachHead, Zenon
<1> QED
  BY <1>1, <1>2, <1>3, <1>4, FlattenHead


-----------------------------------------------------------------------------
(* Parts of sequences                                                      *)

\* A part has the elements between two positions.
LEMMA PartOf ==
    ASSUME NEW S, NEW s \in Seq(S), NEW m \in 1..(Len(s) + 1), NEW n \in 0..Len(s)
    PROVE  /\ SubSeq(s, m, n) \in Seq(S)
           /\ Len(SubSeq(s, m, n)) = IF m <= n THEN n - m + 1 ELSE 0
           /\ \A i \in 1..(n - m + 1) : SubSeq(s, m, n)[i] = s[m + i - 1]
<1>1. Len(s) \in Nat
    BY LenProperties
<1>2. m \in Int /\ n \in Int /\ \A i \in m..n : i \in 1..Len(s)
    BY <1>1
<1>3. \A i \in m..n : s[i] \in S
    BY <1>2, ElementOfSeq
<1> QED
    BY <1>2, <1>3, SubSeqProperties

\* A part is the same where the sequence goes on.
LEMMA PartOfConcat ==
    ASSUME NEW S, NEW s \in Seq(S), NEW u \in Seq(S),
           NEW m \in 1..(Len(s) + 1), NEW n \in 0..Len(s)
    PROVE  SubSeq(s \o u, m, n) = SubSeq(s, m, n)
<1> DEFINE t == s \o u
<1>1. Len(s) \in Nat /\ Len(u) \in Nat
    BY LenProperties
<1>2. /\ t \in Seq(S) /\ Len(t) = Len(s) + Len(u)
      /\ \A i \in 1..(Len(s) + Len(u)) : t[i] = IF i <= Len(s) THEN s[i] ELSE u[i - Len(s)]
    BY ConcatProperties
<1> HIDE DEF t
<1>3. m \in 1..(Len(t) + 1) /\ n \in 0..Len(t)
    BY <1>1, <1>2
<1>4. /\ SubSeq(t, m, n) \in Seq(S)
      /\ Len(SubSeq(t, m, n)) = IF m <= n THEN n - m + 1 ELSE 0
      /\ \A i \in 1..(n - m + 1) : SubSeq(t, m, n)[i] = t[m + i - 1]
    BY <1>2, <1>3, PartOf
<1>5. /\ SubSeq(s, m, n) \in Seq(S)
      /\ Len(SubSeq(s, m, n)) = IF m <= n THEN n - m + 1 ELSE 0
      /\ \A i \in 1..(n - m + 1) : SubSeq(s, m, n)[i] = s[m + i - 1]
    BY PartOf
<1>6. ASSUME NEW i \in 1..Len(SubSeq(t, m, n))
      PROVE  SubSeq(t, m, n)[i] = SubSeq(s, m, n)[i]
    <2>1. i \in 1..(n - m + 1) /\ m + i - 1 \in 1..Len(s)
        BY <1>1, <1>4
    <2>2. t[m + i - 1] = s[m + i - 1]
        BY <2>1, <1>1, <1>2
    <2> QED
        BY <2>1, <2>2, <1>4, <1>5
<1> QED
    BY <1>4, <1>5, <1>6, SeqEqual DEF t

\* What comes from a position on is followed by what the sequence goes on with.
LEMMA RestOfConcat ==
    ASSUME NEW S, NEW s \in Seq(S), NEW u \in Seq(S), NEW m \in 1..(Len(s) + 1)
    PROVE  SubSeq(s \o u, m, Len(s \o u)) = SubSeq(s, m, Len(s)) \o u
<1> DEFINE t == s \o u
           p == SubSeq(s, m, Len(s))
           q == SubSeq(t, m, Len(t))
<1>1. Len(s) \in Nat /\ Len(u) \in Nat /\ Len(s) \in 0..Len(s)
    BY LenProperties
<1>2. /\ t \in Seq(S) /\ Len(t) = Len(s) + Len(u)
      /\ \A i \in 1..(Len(s) + Len(u)) : t[i] = IF i <= Len(s) THEN s[i] ELSE u[i - Len(s)]
    BY ConcatProperties
<1> HIDE DEF t
<1>3. m \in 1..(Len(t) + 1) /\ Len(t) \in 0..Len(t)
    BY <1>1, <1>2
<1>4. /\ q \in Seq(S) /\ Len(q) = Len(t) - m + 1
      /\ \A i \in 1..(Len(t) - m + 1) : q[i] = t[m + i - 1]
    BY <1>2, <1>3, PartOf
<1>5. /\ p \in Seq(S) /\ Len(p) = Len(s) - m + 1
      /\ \A i \in 1..(Len(s) - m + 1) : p[i] = s[m + i - 1]
    BY <1>1, PartOf
<1> HIDE DEF p, q
<1>6. /\ p \o u \in Seq(S) /\ Len(p \o u) = Len(p) + Len(u)
      /\ \A i \in 1..(Len(p) + Len(u)) : (p \o u)[i] = IF i <= Len(p) THEN p[i] ELSE u[i - Len(p)]
    BY <1>5, ConcatProperties
<1>7. ASSUME NEW i \in 1..Len(q)
      PROVE  q[i] = (p \o u)[i]
    <2>1. i \in 1..(Len(p) + Len(u)) /\ i \in 1..(Len(t) - m + 1) /\ m + i - 1 \in 1..Len(t)
        BY <1>1, <1>2, <1>4, <1>5
    <2>2. CASE i <= Len(p)
        <3>1. m + i - 1 <= Len(s) /\ i \in 1..(Len(s) - m + 1)
            BY <1>1, <1>5, <2>1, <2>2
        <3>2. q[i] = s[m + i - 1]
            BY <3>1, <2>1, <1>2, <1>4
        <3> QED
            BY <3>1, <3>2, <2>1, <2>2, <1>5, <1>6
    <2>3. CASE ~(i <= Len(p))
        <3>1. ~(m + i - 1 <= Len(s)) /\ (m + i - 1) - Len(s) = i - Len(p)
            BY <1>1, <1>5, <2>1, <2>3
        <3>2. q[i] = u[(m + i - 1) - Len(s)]
            BY <3>1, <2>1, <1>2, <1>4
        <3> QED
            BY <3>1, <3>2, <2>1, <2>3, <1>6
    <2> QED
        BY <2>2, <2>3
<1>8. Len(q) = Len(p \o u)
    BY <1>1, <1>2, <1>4, <1>5, <1>6
<1>9. q = p \o u
    BY <1>4, <1>6, <1>7, <1>8, SeqEqual
<1> QED
    BY <1>9 DEF t, p, q

\* A function on 1..n is a sequence of n elements.
LEMMA FunctionIsSeq ==
    ASSUME NEW S, NEW n \in Nat, NEW f \in [1..n -> S]
    PROVE  f \in Seq(S) /\ Len(f) = n
OBVIOUS

\* A sequence with one element more, for elements of any kind.
LEMMA OneMore ==
    \A S : \A s \in Seq(S), x \in S :
        /\ Append(s, x) \in Seq(S) /\ Len(Append(s, x)) = Len(s) + 1
        /\ \A i \in 1..Len(s) : Append(s, x)[i] = s[i]
        /\ Append(s, x)[Len(s) + 1] = x
OBVIOUS

\* The first elements, and one more.
LEMMA PrefixGrows ==
    ASSUME NEW S, NEW s \in Seq(S), NEW n \in 0..Len(s)
    PROVE  /\ SubSeq(s, 1, n) \in Seq(S) /\ Len(SubSeq(s, 1, n)) = n
           /\ n < Len(s) => SubSeq(s, 1, n + 1) = Append(SubSeq(s, 1, n), s[n + 1])
           /\ n = Len(s) => SubSeq(s, 1, n) = s
           /\ SubSeq(s, 1, 0) = <<>>
<1> DEFINE p == SubSeq(s, 1, n)
<1>1. Len(s) \in Nat /\ n \in Nat /\ 1 \in 1..(Len(s) + 1)
    BY LenProperties
<1>2. /\ p \in Seq(S) /\ Len(p) = n
      /\ \A i \in 1..n : p[i] = s[i]
    <2>1. /\ p \in Seq(S) /\ Len(p) = IF 1 <= n THEN n - 1 + 1 ELSE 0
          /\ \A i \in 1..(n - 1 + 1) : p[i] = s[1 + i - 1]
        BY <1>1, PartOf
    <2> HIDE DEF p
    <2>2. \A i \in 1..n : i \in 1..(n - 1 + 1) /\ 1 + i - 1 = i
        BY <1>1
    <2>3. Len(p) = n
        BY <2>1, <1>1
    <2> QED
        BY <2>1, <2>2, <2>3
<1> HIDE DEF p
<1>3. ASSUME n < Len(s)
      PROVE  SubSeq(s, 1, n + 1) = Append(p, s[n + 1])
    <2> DEFINE q == SubSeq(s, 1, n + 1)
    <2>1. n + 1 \in 0..Len(s) /\ n + 1 \in 1..Len(s)
        BY <1>1, <1>3
    <2>2. /\ q \in Seq(S) /\ Len(q) = IF 1 <= n + 1 THEN n + 1 - 1 + 1 ELSE 0
          /\ \A i \in 1..(n + 1 - 1 + 1) : q[i] = s[1 + i - 1]
        BY <1>1, <2>1, PartOf
    <2> HIDE DEF q
    <2>3. s[n + 1] \in S
        BY <2>1, ElementOfSeq
    <2>4. /\ Append(p, s[n + 1]) \in Seq(S) /\ Len(Append(p, s[n + 1])) = n + 1
          /\ \A i \in 1..n : Append(p, s[n + 1])[i] = s[i]
          /\ Append(p, s[n + 1])[n + 1] = s[n + 1]
        BY <2>3, <1>2, AppendProperties
    <2>5. Len(q) = n + 1
        BY <1>1, <2>2
    <2>6. ASSUME NEW i \in 1..(n + 1) PROVE q[i] = Append(p, s[n + 1])[i]
        <3>1. i \in 1..(n + 1 - 1 + 1) /\ 1 + i - 1 = i /\ (i \in 1..n \/ i = n + 1)
            BY <1>1
        <3> QED
            BY <3>1, <2>2, <2>4
    <2> QED
        BY <2>2, <2>4, <2>5, <2>6, SeqEqual DEF q
<1>4. n = Len(s) => p = s
    BY <1>2, SeqEqual
<1>5. SubSeq(s, 1, 0) = <<>>
    BY SubSeqEmpty
<1> QED
    BY <1>2, <1>3, <1>4, <1>5 DEF p
=============================================================================
