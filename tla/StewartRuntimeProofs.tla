----------------------- MODULE StewartRuntimeProofs -----------------------
(***************************************************************************)
(* Machine-checked proofs of the safety properties of StewartRuntime, for  *)
(* every set of actors and of messages, every queue length and every depth *)
(* of nested process calls.                                                *)
(***************************************************************************)
EXTENDS StewartRuntime, SequenceLemmas, TLAPS

(***************************************************************************)
(* Lemmas about the sequences of the runtime.  Induction over the length   *)
(* is done with the least counterexample.                                  *)
(***************************************************************************)

\* f gives, for each k up to n, what Retain keeps of the first k ids of q.
KeptSpec(q, id, n, f) ==
    /\ f[0] = <<>>
    /\ \A k \in 1..n :
          f[k] = IF q[k] = id THEN f[k - 1] ELSE Append(f[k - 1], q[k])

\* There is such a function, for every n.
LEMMA KeptExists ==
    ASSUME NEW S, NEW q \in Seq(S), NEW id, NEW n \in 0..Len(q)
    PROVE  \E f \in [0..n -> Seq(S)] : KeptSpec(q, id, n, f)
<1> DEFINE Bad == {k \in 0..Len(q) : ~\E f \in [0..k -> Seq(S)] : KeptSpec(q, id, k, f)}
<1> SUFFICES ASSUME Bad # {} PROVE FALSE
  OBVIOUS
<1>1. PICK k \in Bad : \A j \in Bad : k <= j
  <2>1. Bad \in SUBSET Nat
    OBVIOUS
  <2> QED
    BY <2>1, LeastNat
<1>2. CASE k = 0
  <2>1. [i \in 0..0 |-> <<>>] \in [0..0 -> Seq(S)]
    OBVIOUS
  <2>2. KeptSpec(q, id, 0, [i \in 0..0 |-> <<>>])
    BY DEF KeptSpec
  <2> QED
    BY <1>2, <2>1, <2>2
<1>3. CASE k # 0
  <2>1. k - 1 \in 0..Len(q) /\ k - 1 \notin Bad
    <3>1. k \in 1..Len(q)
      BY <1>3
    <3>2. k - 1 \in 0..Len(q) /\ ~(k <= k - 1)
      BY <3>1
    <3> QED
      BY <3>2, <1>1, Zenon
  <2>2. PICK f \in [0..(k-1) -> Seq(S)] : KeptSpec(q, id, k - 1, f)
    BY <2>1
  <2> DEFINE g == [i \in 0..k |-> IF i < k THEN f[i]
                                  ELSE IF q[k] = id THEN f[k-1] ELSE Append(f[k-1], q[k])]
  <2>3. q[k] \in S /\ f[k-1] \in Seq(S)
    BY <1>1, <1>3
  <2>4. g \in [0..k -> Seq(S)]
    BY <2>3, <1>3, <1>1
  <2>5. g[0] = <<>>
    BY <2>2, <1>1, <1>3 DEF KeptSpec
  <2>6. ASSUME NEW j \in 1..k
        PROVE  g[j] = IF q[j] = id THEN g[j - 1] ELSE Append(g[j - 1], q[j])
    <3>1. CASE j = k
      BY <3>1, <1>1, <1>3
    <3>2. CASE j < k
      <4>1. j \in 1..(k-1) /\ j \in 0..k /\ j - 1 \in 0..k /\ j - 1 < k
        BY <3>2, <1>1, <1>3
      <4>2. g[j] = f[j] /\ g[j-1] = f[j-1]
        BY <4>1, <3>2
      <4> QED
        BY <4>1, <4>2, <2>2 DEF KeptSpec
    <3> QED
      BY <3>1, <3>2, <1>1
  <2> QED
    BY <2>4, <2>5, <2>6, Zenon DEF KeptSpec
<1> QED
  BY <1>2, <1>3

\* Retain, defined by recursion, is the last value of that function.
LEMMA RetainIsKept ==
    ASSUME NEW S, NEW q \in Seq(S), NEW id
    PROVE  \E f \in [0..Len(q) -> Seq(S)] :
              KeptSpec(q, id, Len(q), f) /\ Retain(q, id) = f[Len(q)]
<1>1. Len(q) \in 0..Len(q)
  OBVIOUS
<1>2. PICK f \in [0..Len(q) -> Seq(S)] : KeptSpec(q, id, Len(q), f)
  BY <1>1, KeptExists
<1> DEFINE Body(g) == [n \in 0..Len(q) |->
                          IF n = 0 THEN <<>>
                          ELSE IF q[n] = id THEN g[n - 1] ELSE Append(g[n - 1], q[n])]
           kept == CHOOSE g : g = Body(g)
<1>3. ASSUME NEW n \in 0..Len(q)
      PROVE  f[n] = Body(f)[n]
  <2>1. n = 0 \/ n \in 1..Len(q)
    OBVIOUS
  <2> QED
    BY <2>1, <1>2 DEF KeptSpec
<1>4. f = Body(f)
  BY <1>3
<1>5. kept = Body(kept)
  <2> HIDE DEF Body
  <2> QED
    BY <1>4, Zenon
<1>6. Retain(q, id) = kept[Len(q)]
  BY Zenon DEF Retain
<1> HIDE DEF kept
<1> DEFINE Bad == {n \in 0..Len(q) : kept[n] # f[n]}
<1>7. Bad = {}
  <2> SUFFICES ASSUME Bad # {} PROVE FALSE
    OBVIOUS
  <2>1. PICK n \in Bad : \A j \in Bad : n <= j
    <3>1. Bad \in SUBSET Nat
      OBVIOUS
    <3> QED
      BY <3>1, LeastNat
  <2>2. CASE n = 0
    BY <2>2, <2>1, <1>5, <1>2 DEF KeptSpec
  <2>3. CASE n # 0
    <3>1. n \in 1..Len(q)
      BY <2>3
    <3>2. n - 1 \in 0..Len(q) /\ ~(n <= n - 1)
      BY <3>1
    <3>3. n - 1 \notin Bad
      BY <3>2, <2>1, Zenon
    <3>4. kept[n - 1] = f[n - 1]
      BY <3>2, <3>3
    <3>5. kept[n] = IF q[n] = id THEN kept[n - 1] ELSE Append(kept[n - 1], q[n])
      <4>1. kept[n] = Body(kept)[n]
        <5> HIDE DEF Body
        <5> QED
          BY <1>5, Zenon
      <4> QED
        BY <3>1, <4>1, n \in 0..Len(q), n # 0
    <3>6. f[n] = IF q[n] = id THEN f[n - 1] ELSE Append(f[n - 1], q[n])
      BY <3>1, <1>2 DEF KeptSpec
    <3> QED
      BY <3>4, <3>5, <3>6
  <2> QED
    BY <2>2, <2>3
<1>8. kept[Len(q)] = f[Len(q)]
  BY <1>7, <1>1
<1> QED
  BY <1>2, <1>6, <1>8

\* What Retain keeps: every element but id, in the order of the queue.
KeptInv(q, id, k, s) ==
    /\ \A x : (\E i \in 1..Len(s) : s[i] = x) <=> x # id /\ \E i \in 1..k : q[i] = x
    /\ \A i, j \in 1..Len(s) : i < j =>
          \E m, n \in 1..k : m < n /\ q[m] = s[i] /\ q[n] = s[j]

\* Retain keeps the type of the queue, and the invariant of its loop holds at
\* the end.
LEMMA RetainProperties ==
    ASSUME NEW S, NEW q \in Seq(S), NEW id
    PROVE  /\ Retain(q, id) \in Seq(S)
           /\ KeptInv(q, id, Len(q), Retain(q, id))
<1>1. PICK f \in [0..Len(q) -> Seq(S)] :
             KeptSpec(q, id, Len(q), f) /\ Retain(q, id) = f[Len(q)]
  BY RetainIsKept
<1> DEFINE Bad == {k \in 0..Len(q) : ~KeptInv(q, id, k, f[k])}
<1>2. Bad = {}
  <2> SUFFICES ASSUME Bad # {} PROVE FALSE
    OBVIOUS
  <2>1. PICK k \in Bad : \A j \in Bad : k <= j
    <3>1. Bad \in SUBSET Nat
      OBVIOUS
    <3> QED
      BY <3>1, LeastNat
  <2>2. CASE k = 0
    <3>1. f[0] = <<>>
      BY <1>1 DEF KeptSpec
    <3> QED
      BY <2>2, <3>1 DEF KeptInv
  <2>3. CASE k # 0
    <3>1. k \in 1..Len(q)
      BY <2>3
    <3>2. k - 1 \in 0..Len(q) /\ ~(k <= k - 1)
      BY <3>1
    <3>3. k - 1 \notin Bad
      BY <3>2, <2>1, Zenon
    <3> DEFINE s == f[k - 1]
               t == f[k]
    <3>4. KeptInv(q, id, k - 1, s) /\ s \in Seq(S) /\ q[k] \in S
      BY <3>1, <3>2, <3>3
    <3>5. t = IF q[k] = id THEN s ELSE Append(s, q[k])
      BY <3>1, <1>1 DEF KeptSpec
    <3> HIDE DEF s, t
    <3>6. 1..k = (1..(k - 1)) \cup {k} /\ \A m \in 1..(k - 1) : m < k
      BY <3>1
    <3>7. CASE q[k] = id
      <4>1. t = s
        BY <3>5, <3>7
      <4>2. ASSUME NEW x
            PROVE  (\E i \in 1..Len(s) : s[i] = x) <=> x # id /\ \E i \in 1..k : q[i] = x
        <5>1. (\E i \in 1..Len(s) : s[i] = x)
                 <=> x # id /\ \E i \in 1..(k - 1) : q[i] = x
          BY <3>4, Zenon DEF KeptInv
        <5> QED
          BY <5>1, <3>6, <3>7, Zenon
      <4>3. ASSUME NEW i \in 1..Len(s), NEW j \in 1..Len(s), i < j
            PROVE  \E m, n \in 1..k : m < n /\ q[m] = s[i] /\ q[n] = s[j]
        <5>1. PICK m, n \in 1..(k - 1) : m < n /\ q[m] = s[i] /\ q[n] = s[j]
          BY <4>3, <3>4, Zenon DEF KeptInv
        <5>2. m \in 1..k /\ n \in 1..k
          BY <3>6
        <5> QED
          BY <5>1, <5>2
      <4>4. KeptInv(q, id, k, s)
        BY <4>2, <4>3, Zenon DEF KeptInv
      <4>5. KeptInv(q, id, k, t)
        BY <4>1, <4>4, Zenon
      <4> QED
        BY <4>5 DEF t
    <3>8. CASE q[k] # id
      <4>1. /\ t \in Seq(S) /\ Len(t) = Len(s) + 1 /\ Len(s) \in Nat
            /\ \A i \in 1..Len(s) : t[i] = s[i]
            /\ t[Len(s) + 1] = q[k]
        BY <3>4, <3>5, <3>8, AppendProperties
      <4>2. 1..Len(t) = (1..Len(s)) \cup {Len(s) + 1}
        BY <4>1
      <4>3. ASSUME NEW x
            PROVE  (\E i \in 1..Len(t) : t[i] = x) <=> x # id /\ \E i \in 1..k : q[i] = x
        <5>1. (\E i \in 1..Len(s) : s[i] = x)
                 <=> x # id /\ \E i \in 1..(k - 1) : q[i] = x
          BY <3>4, Zenon DEF KeptInv
        <5>2. (\E i \in 1..Len(t) : t[i] = x)
                 <=> (\E i \in 1..Len(s) : s[i] = x) \/ q[k] = x
          BY <4>1, <4>2
        <5>3. (\E i \in 1..k : q[i] = x)
                 <=> (\E i \in 1..(k - 1) : q[i] = x) \/ q[k] = x
          BY <3>6, Zenon
        <5> QED
          BY <5>1, <5>2, <5>3, <3>8, Zenon
      <4>4. ASSUME NEW i \in 1..Len(t), NEW j \in 1..Len(t), i < j
            PROVE  \E m, n \in 1..k : m < n /\ q[m] = t[i] /\ q[n] = t[j]
        <5>1. i \in 1..Len(s)
          BY <4>1, <4>4
        <5>2. CASE j \in 1..Len(s)
          <6>1. \E m, n \in 1..(k - 1) : m < n /\ q[m] = s[i] /\ q[n] = s[j]
            BY <5>1, <5>2, <4>4, <3>4, Zenon DEF KeptInv
          <6>2. t[i] = s[i] /\ t[j] = s[j]
            BY <5>1, <5>2, <4>1
          <6> QED
            BY <6>1, <6>2, <3>6, Zenon
        <5>3. CASE j = Len(s) + 1
          <6>1. PICK m \in 1..(k - 1) : q[m] = s[i]
            BY <5>1, <3>4, Zenon DEF KeptInv
          <6>2. m \in 1..k /\ k \in 1..k /\ m < k /\ q[m] = t[i] /\ q[k] = t[j]
            BY <6>1, <5>1, <5>3, <4>1, <3>6, <3>1
          <6> QED
            BY <6>2
        <5> QED
          BY <5>2, <5>3, <4>2
      <4>5. KeptInv(q, id, k, t)
        BY <4>3, <4>4, Zenon DEF KeptInv
      <4> QED
        BY <4>5 DEF t
    <3> QED
      BY <3>7, <3>8
  <2> QED
    BY <2>2, <2>3
<1>3. Len(q) \in 0..Len(q)
  OBVIOUS
<1> QED
  BY <1>1, <1>2, <1>3

-----------------------------------------------------------------------------
(* What the helpers of the runtime do to a sequence without repetitions.   *)

\* The run queue with an actor taken out of it.
LEMMA RetainLemma ==
    ASSUME NEW S, NEW q \in Seq(S), NEW id, IsInjective(q)
    PROVE  /\ Retain(q, id) \in Seq(S)
           /\ IsInjective(Retain(q, id))
           /\ \A x : Contains(Retain(q, id), x) <=> Contains(q, x) /\ x # id
           /\ \A x, y : Ahead(Retain(q, id), x, y) => Ahead(q, x, y)
<1> DEFINE r == Retain(q, id)
<1>1. r \in Seq(S) /\ KeptInv(q, id, Len(q), r)
  BY RetainProperties
<1> HIDE DEF r
<1>2. DOMAIN r = 1..Len(r) /\ DOMAIN q = 1..Len(q)
  BY <1>1
<1>3. \A x : Contains(r, x) <=> Contains(q, x) /\ x # id
  BY <1>1, Zenon DEF KeptInv, Contains
<1>4. ASSUME NEW i \in 1..Len(r), NEW j \in 1..Len(r), i < j
      PROVE  \E m, n \in 1..Len(q) : m < n /\ q[m] = r[i] /\ q[n] = r[j]
  BY <1>1, <1>4, Zenon DEF KeptInv
<1>5. ASSUME NEW x, NEW y, Ahead(r, x, y)
      PROVE  Ahead(q, x, y)
  <2>1. PICK i, j \in 1..Len(r) : i < j /\ r[i] = x /\ r[j] = y
    BY <1>2, <1>5 DEF Ahead
  <2>2. \E m, n \in 1..Len(q) : m < n /\ q[m] = x /\ q[n] = y
    BY <2>1, <1>4, ZenonT(30)
  <2> QED
    BY <2>2, <1>2 DEF Ahead
<1>6. IsInjective(r)
  <2>1. ASSUME NEW i \in 1..Len(r), NEW j \in 1..Len(r), i < j, r[i] = r[j]
        PROVE  FALSE
    <3>1. PICK m, n \in 1..Len(q) : m < n /\ q[m] = r[i] /\ q[n] = r[j]
      BY <1>4, <2>1
    <3>2. m = n
      BY <3>1, <2>1, <1>2, Zenon DEF IsInjective
    <3> QED
      BY <3>1, <3>2
  <2>2. \A i, j \in 1..Len(r) : i = j \/ i < j \/ j < i
    BY <1>1
  <2> QED
    BY <2>1, <2>2, <1>2, Zenon DEF IsInjective
<1> QED
  BY <1>1, <1>3, <1>5, <1>6 DEF r

\* Appending a new id keeps the others, once each, and overtakes none of them.
LEMMA AppendLemma ==
    ASSUME NEW S, NEW q \in Seq(S), NEW id \in S, IsInjective(q), ~Contains(q, id)
    PROVE  /\ Append(q, id) \in Seq(S)
           /\ IsInjective(Append(q, id))
           /\ \A x : Contains(Append(q, id), x) <=> Contains(q, x) \/ x = id
           /\ \A x, y : Ahead(Append(q, id), x, y) => Ahead(q, x, y) \/ y = id
<1> DEFINE r == Append(q, id)
<1>1. /\ r \in Seq(S) /\ Len(r) = Len(q) + 1 /\ Len(q) \in Nat
      /\ \A i \in 1..Len(q) : r[i] = q[i]
      /\ r[Len(q) + 1] = id
  BY AppendProperties
<1> HIDE DEF r
<1>2. DOMAIN r = (1..Len(q)) \cup {Len(q) + 1} /\ DOMAIN q = 1..Len(q)
  BY <1>1
<1>3. 1..Len(r) = (1..Len(q)) \cup {Len(q) + 1}
  BY <1>1
<1>4. IsInjective(r)
  BY <1>1, <1>2 DEF IsInjective, Contains
<1>5. \A x : Contains(r, x) <=> Contains(q, x) \/ x = id
  BY <1>1, <1>3 DEF Contains
<1>6. \A x, y : Ahead(r, x, y) => Ahead(q, x, y) \/ y = id
  BY <1>1, <1>2 DEF Ahead
<1> QED
  BY <1>1, <1>4, <1>5, <1>6 DEF r

\* Enqueue adds an id that is not queued yet at the end, and changes nothing
\* else.
LEMMA EnqueueLemma ==
    ASSUME NEW S, NEW q \in Seq(S), NEW id \in S, IsInjective(q)
    PROVE  /\ Enqueue(q, id) \in Seq(S)
           /\ IsInjective(Enqueue(q, id))
           /\ \A x : Contains(Enqueue(q, id), x) <=> Contains(q, x) \/ x = id
           /\ \A x, y : Ahead(Enqueue(q, id), x, y) =>
                           Ahead(q, x, y) \/ (y = id /\ ~Contains(q, id))
<1>1. CASE Contains(q, id)
  BY <1>1 DEF Enqueue
<1>2. CASE ~Contains(q, id)
  BY <1>2, AppendLemma DEF Enqueue
<1> QED
  BY <1>1, <1>2

\* Dequeuing takes out the head and leaves the others, once each, in their order.
LEMMA TailLemma ==
    ASSUME NEW S, NEW q \in Seq(S), q # <<>>, IsInjective(q)
    PROVE  /\ Head(q) \in S /\ Contains(q, Head(q))
           /\ Tail(q) \in Seq(S)
           /\ IsInjective(Tail(q))
           /\ \A x : Contains(Tail(q), x) <=> Contains(q, x) /\ x # Head(q)
           /\ \A x, y : Ahead(Tail(q), x, y) => Ahead(q, x, y)
<1> DEFINE r == Tail(q)
<1>1. /\ r \in Seq(S) /\ Len(r) = Len(q) - 1 /\ Len(q) \in Nat \ {0}
      /\ \A i \in 1..Len(r) : r[i] = q[i + 1]
      /\ Head(q) = q[1] /\ Head(q) \in S
  BY HeadTailProperties
<1> HIDE DEF r
<1>2. /\ DOMAIN r = 1..Len(r) /\ DOMAIN q = 1..Len(q) /\ 1 \in 1..Len(q)
      /\ \A i \in 1..Len(r) : i + 1 \in 1..Len(q) /\ i + 1 # 1
      /\ \A i \in 1..Len(q) : i = 1 \/ (i - 1 \in 1..Len(r) /\ (i - 1) + 1 = i)
      /\ \A i, j \in 1..Len(r) : (i < j => i + 1 < j + 1) /\ (i + 1 = j + 1 => i = j)
  BY <1>1
<1> DEFINE distinct == \A i, j \in 1..Len(q) : q[i] = q[j] => i = j
<1>3. distinct
  BY <1>2 DEF IsInjective
<1>4. IsInjective(r)
  <2>1. ASSUME NEW i \in 1..Len(r), NEW j \in 1..Len(r), r[i] = r[j]
        PROVE  i = j
    BY <2>1, <1>1, <1>2, <1>3
  <2> QED
    BY <2>1, <1>2 DEF IsInjective
<1>5. ASSUME NEW x
      PROVE  Contains(r, x) <=> Contains(q, x) /\ x # Head(q)
  <2>1. ASSUME NEW i \in 1..Len(r), r[i] = x
        PROVE  Contains(q, x) /\ x # Head(q)
    BY <2>1, <1>1, <1>2, <1>3 DEF Contains
  <2>2. ASSUME NEW i \in 1..Len(q), q[i] = x, x # Head(q)
        PROVE  Contains(r, x)
    <3>1. i - 1 \in 1..Len(r) /\ r[i - 1] = x
      BY <2>2, <1>1, <1>2
    <3> QED
      BY <3>1 DEF Contains
  <2> QED
    BY <2>1, <2>2 DEF Contains
<1>6. ASSUME NEW x, NEW y, Ahead(r, x, y)
      PROVE  Ahead(q, x, y)
  <2>1. PICK i, j \in 1..Len(r) : i < j /\ r[i] = x /\ r[j] = y
    BY <1>2, <1>6 DEF Ahead
  <2>2. i + 1 \in 1..Len(q) /\ j + 1 \in 1..Len(q) /\ i + 1 < j + 1
    BY <2>1, <1>2
  <2>3. q[i + 1] = x /\ q[j + 1] = y
    BY <2>1, <1>1
  <2> QED
    BY <2>2, <2>3, <1>2 DEF Ahead
<1>7. Contains(q, Head(q))
  BY <1>1, <1>2, Zenon DEF Contains
<1> QED
  BY <1>1, <1>4, <1>5, <1>6, <1>7 DEF r

\* The innermost activation that ends leaves the stack with the others, once each.
LEMMA FrontLemma ==
    ASSUME NEW S, NEW s \in Seq(S), s # <<>>, IsInjective(s)
    PROVE  /\ Last(s) \in S /\ Last(s) \in Range(s)
           /\ Front(s) \in Seq(S)
           /\ IsInjective(Front(s))
           /\ Range(Front(s)) = Range(s) \ {Last(s)}
<1> DEFINE r == Front(s)
<1>1. Len(s) \in Nat \ {0} /\ DOMAIN s = 1..Len(s) /\ \A i \in 1..Len(s) : s[i] \in S
  BY EmptySeq
<1>2. /\ r \in Seq(S) /\ Len(r) = Len(s) - 1
      /\ \A i \in 1..(Len(s) - 1) : r[i] = s[i]
  BY <1>1 DEF Front
<1> HIDE DEF r
<1>3. /\ DOMAIN r = 1..(Len(s) - 1)
      /\ 1..Len(s) = (1..(Len(s) - 1)) \cup {Len(s)}
      /\ Len(s) \notin 1..(Len(s) - 1)
  BY <1>1, <1>2
<1>4. IsInjective(r)
  BY <1>1, <1>2, <1>3, Zenon DEF IsInjective
<1>5. ASSUME NEW x
      PROVE  x \in Range(r) <=> x \in Range(s) \ {Last(s)}
  BY <1>1, <1>2, <1>3 DEF IsInjective, Range, Last
<1>6. Last(s) \in S /\ Last(s) \in Range(s)
  BY <1>1, <1>3 DEF Last, Range
<1> QED
  BY <1>2, <1>4, <1>5, <1>6 DEF r

\* A new innermost activation joins those on the stack.
LEMMA PushLemma ==
    ASSUME NEW S, NEW s \in Seq(S), NEW id \in S, IsInjective(s), id \notin Range(s)
    PROVE  /\ Append(s, id) \in Seq(S)
           /\ Append(s, id) # <<>>
           /\ IsInjective(Append(s, id))
           /\ Range(Append(s, id)) = Range(s) \cup {id}
           /\ Last(Append(s, id)) = id
<1> DEFINE r == Append(s, id)
<1>1. /\ r \in Seq(S) /\ r # <<>> /\ Len(r) = Len(s) + 1 /\ Len(s) \in Nat
      /\ \A i \in 1..Len(s) : r[i] = s[i]
      /\ r[Len(s) + 1] = id
  BY AppendProperties
<1> HIDE DEF r
<1>2. DOMAIN r = (1..Len(s)) \cup {Len(s) + 1} /\ DOMAIN s = 1..Len(s)
  BY <1>1
<1>3. IsInjective(r)
  BY <1>1, <1>2 DEF IsInjective, Range
<1>4. Range(r) = Range(s) \cup {id}
  BY <1>1, <1>2 DEF Range
<1>5. Last(r) = id
  BY <1>1 DEF Last
<1> QED
  BY <1>1, <1>3, <1>4, <1>5 DEF r

-----------------------------------------------------------------------------
(* Type correctness.                                                       *)

\* The end of an activation keeps the types.
LEMMA FinishActorType ==
    ASSUME Types, stack # <<>>, NEW break \in BOOLEAN, FinishActor(break)
    PROVE  Types'
<1> DEFINE id == Last(stack)
<1>1. id \in Ids /\ Front(stack) \in Seq(Ids)
  <2>1. Len(stack) \in Nat \ {0}
    BY EmptySeq DEF Types
  <2> QED
    BY <2>1 DEF Types, Last, Front
<1>2. Retain(queue, id) \in Seq(Ids)
  BY RetainProperties DEF Types
<1>3. <<>> \in Seq(Messages)
  OBVIOUS
<1> HIDE DEF id
<1>4. stack' \in Seq(Ids) /\ queue' \in Seq(Ids)
  BY <1>1, <1>2 DEF FinishActor, Types, id
<1>5. entry' \in [Ids -> Entries]
  BY <1>1 DEF FinishActor, Types, Entries, id
<1>6. mailbox' \in [Ids -> Seq(Messages)]
  BY <1>1, <1>3 DEF FinishActor, Types, id
<1>7. pc' \in {"loop", "user"} /\ error' \in Errors
  BY DEF FinishActor, Errors
<1> QED
  BY <1>4, <1>5, <1>6, <1>7 DEF Types

\* Every step keeps the types.
LEMMA TypeStep ==
    ASSUME Types, [Next]_vars
    PROVE  Types'
<1>1. ASSUME NEW id \in Ids, Insert(id)
      PROVE  Types'
  BY <1>1 DEF Insert, Return, Types, Entries, Errors
<1>2. ASSUME NEW id \in Ids, RemoveActor(id)
      PROVE  Types'
  <2>1. Retain(queue, id) \in Seq(Ids)
    BY RetainProperties DEF Types
  <2> QED
    <3>1. entry' \in [Ids -> Entries]
      BY <1>2 DEF RemoveActor, Types, Entries
    <3>2. <<>> \in Seq(Messages)
      OBVIOUS
    <3>3. mailbox' \in [Ids -> Seq(Messages)]
      BY <1>2, <3>2 DEF RemoveActor, Types
    <3>4. pc' = "user" /\ error' \in Errors
      BY <1>2 DEF RemoveActor, Return, Errors
    <3> QED
      BY <1>2, <2>1, <3>1, <3>3, <3>4 DEF RemoveActor, Types
<1>3. ASSUME NEW id \in Ids, NEW m \in Messages, Send(id, m)
      PROVE  Types'
  <2>1. Enqueue(queue, id) \in Seq(Ids)
    BY AppendProperties DEF Types, Enqueue
  <2>2. SendError(id, m) \in Errors
    BY DEF SendError, Errors
  <2>3. mailbox' \in [Ids -> Seq(Messages)]
    <3>1. mailbox[id] \in Seq(Messages)
      BY DEF Types
    <3>2. Append(mailbox[id], m) \in Seq(Messages)
      BY <3>1, AppendProperties
    <3> QED
      BY <1>3, <3>2 DEF Send, PushMessage, Types
  <2> QED
    BY <1>3, <2>1, <2>2, <2>3 DEF Send, Return, Types
<1>4. CASE CallProcess
  BY <1>4 DEF CallProcess, Types, Errors
<1>5. CASE HandlerContinue
  BY <1>5 DEF HandlerContinue, Types, Errors
<1>6. CASE HandlerStop
  BY <1>6, FinishActorType DEF HandlerStop
<1>7. CASE ProcessDone
  BY <1>7 DEF ProcessDone, Types, Errors
<1>8. CASE Borrow
  <2>1. Head(queue) \in Ids /\ Tail(queue) \in Seq(Ids)
    BY <1>8, HeadTailProperties DEF Borrow, Types
  <2>2. stack \in Seq(Ids)
    BY DEF Types
  <2>3. Append(stack, Head(queue)) \in Seq(Ids) /\ Append(stack, Head(queue)) # <<>>
    BY <2>1, <2>2, AppendProperties
  <2> QED
    BY <1>8, <2>1, <2>3 DEF Borrow, Types, Entries, Errors
<1>9. CASE NextMessage
  <2>1. stack # <<>> /\ Last(stack) \in Ids
    <3>1. stack # <<>> /\ Len(stack) \in Nat \ {0}
      BY <1>9, EmptySeq DEF NextMessage, Types
    <3> QED
      BY <3>1 DEF Types, Last
  <2>2. Tail(mailbox[Last(stack)]) \in Seq(Messages)
    BY <1>9, <2>1, HeadTailProperties DEF NextMessage, Types
  <2> QED
    BY <1>9, <2>1, <2>2 DEF NextMessage, Types, Errors
<1>10. CASE DrainDone
  BY <1>10, FinishActorType DEF DrainDone, Types
<1>11. CASE UNCHANGED vars
  BY <1>11 DEF vars, Types
<1> QED
  BY <1>1, <1>2, <1>3, <1>4, <1>5, <1>6, <1>7, <1>8, <1>9, <1>10, <1>11
     DEF Next, UserCall, HandlerReturn, ProcessStep

-----------------------------------------------------------------------------
(* The runtime invariant.  With its types it is inductive: the run queue   *)
(* can only be right about mail because what runs is out of the arena,     *)
(* that in turn because no actor is on the stack twice, and this because   *)
(* whatever is popped from the run queue is still in the arena.            *)

USE DEF Live, Running, PushMessage

\* Inserting an actor, whose id has no mail yet, keeps the invariant.
LEMMA InsertInv ==
    ASSUME Types, RuntimeInv, NEW id \in Ids, Insert(id)
    PROVE  RuntimeInv'
<1>1. mailbox[id] = <<>> /\ ~Running(id)
  BY DEF Types, RuntimeInv, Insert, StaleIdHasNoMail, TakenIffRunning
<1>2. QueueDistinct' /\ NotReentered'
  BY DEF RuntimeInv, QueueDistinct, NotReentered, Insert
<1>3. QueuedIffPending'
  BY <1>1 DEF RuntimeInv, QueuedIffPending, Insert, Types
<1>4. TakenIffRunning'
  BY <1>1 DEF RuntimeInv, TakenIffRunning, Insert, Types
<1>5. StaleIdHasNoMail'
  BY DEF RuntimeInv, StaleIdHasNoMail, Insert, Types
<1> QED
  BY <1>2, <1>3, <1>4, <1>5 DEF RuntimeInv

\* Removing an actor takes its id out of the queue, and its messages with its
\* container unless an activation has it.
LEMMA RemoveActorInv ==
    ASSUME Types, RuntimeInv, NEW id \in Ids, RemoveActor(id)
    PROVE  RuntimeInv'
<1>1. /\ IsInjective(Retain(queue, id))
      /\ \A x : Contains(Retain(queue, id), x) <=> Contains(queue, x) /\ x # id
  BY RetainLemma DEF Types, RuntimeInv, QueueDistinct
<1>2. queue' = Retain(queue, id) /\ stack' = stack
  BY DEF RemoveActor
<1>3. QueueDistinct' /\ NotReentered'
  BY <1>1, <1>2 DEF RuntimeInv, QueueDistinct, NotReentered
<1>4. /\ \A x \in Ids : x # id => entry'[x] = entry[x] /\ mailbox'[x] = mailbox[x]
      /\ entry'[id] # "Available" /\ entry'[id] # "Taken"
      /\ entry[id] # "Unissued" => entry'[id] = "Removed"
      /\ entry[id] = "Available" => mailbox'[id] = <<>>
      /\ entry[id] # "Available" => mailbox'[id] = mailbox[id]
      /\ entry[id] # "Unissued"
  BY DEF RemoveActor, Types, Entries
<1>5. QueuedIffPending'
  BY <1>1, <1>2, <1>4 DEF RuntimeInv, QueuedIffPending
<1>6. TakenIffRunning'
  BY <1>2, <1>4 DEF RuntimeInv, TakenIffRunning
<1>7. StaleIdHasNoMail'
  <2>1. ASSUME NEW x \in Ids, ~Live(x)', ~Running(x)'
        PROVE  mailbox'[x] = <<>>
    <3>1. CASE x # id
      BY <2>1, <3>1, <1>2, <1>4 DEF RuntimeInv, StaleIdHasNoMail
    <3>2. CASE x = id /\ entry[id] = "Available"
      BY <3>2, <1>4
    <3>3. CASE x = id /\ entry[id] # "Available"
      BY <2>1, <3>3, <1>2, <1>4 DEF RuntimeInv, StaleIdHasNoMail, TakenIffRunning
    <3> QED
      BY <3>1, <3>2, <3>3
  <2> QED
    BY <2>1 DEF StaleIdHasNoMail
<1> QED
  BY <1>3, <1>5, <1>6, <1>7 DEF RuntimeInv

\* A message that is accepted comes with a place in the queue.
LEMMA SendInv ==
    ASSUME Types, RuntimeInv, NEW id \in Ids, NEW m \in Messages, Send(id, m)
    PROVE  RuntimeInv'
<1>1. CASE SendError(id, m) = "None"
  <2>1. entry[id] = "Available"
    BY <1>1 DEF SendError, Types, Entries
  <2>2. /\ mailbox' = [mailbox EXCEPT ![id] = Append(@, m)]
        /\ queue' = Enqueue(queue, id)
        /\ entry' = entry /\ stack' = stack
    BY <1>1 DEF Send
  <2>3. /\ IsInjective(Enqueue(queue, id))
        /\ \A x : Contains(Enqueue(queue, id), x) <=> Contains(queue, x) \/ x = id
    BY EnqueueLemma DEF Types, RuntimeInv, QueueDistinct
  <2>4. Append(mailbox[id], m) # <<>>
    <3>1. mailbox[id] \in Seq(Messages)
      BY DEF Types
    <3> QED
      BY <3>1, AppendProperties
  <2>5. QueueDistinct' /\ NotReentered' /\ TakenIffRunning'
    BY <2>2, <2>3 DEF RuntimeInv, QueueDistinct, NotReentered, TakenIffRunning
  <2>6. mailbox'[id] # <<>> /\ \A x \in Ids : x # id => mailbox'[x] = mailbox[x]
    BY <2>2, <2>4 DEF Types
  <2>7. QueuedIffPending' /\ StaleIdHasNoMail'
    BY <2>1, <2>2, <2>3, <2>6 DEF RuntimeInv, QueuedIffPending, StaleIdHasNoMail
  <2> QED
    BY <2>5, <2>7 DEF RuntimeInv
<1>2. CASE SendError(id, m) # "None"
  BY <1>2 DEF Send, RuntimeInv, QueueDistinct, QueuedIffPending, NotReentered,
              TakenIffRunning, StaleIdHasNoMail
<1> QED
  BY <1>1, <1>2

\* What is popped from the run queue is in the arena: borrow cannot fail.
LEMMA HeadIsAvailable ==
    ASSUME Types, RuntimeInv, queue # <<>>
    PROVE  /\ Head(queue) \in Ids
           /\ entry[Head(queue)] = "Available"
           /\ mailbox[Head(queue)] # <<>>
           /\ ~Running(Head(queue))
<1>1. Head(queue) \in Ids /\ Contains(queue, Head(queue))
  BY TailLemma DEF Types, RuntimeInv, QueueDistinct
<1>2. entry[Head(queue)] = "Available" /\ mailbox[Head(queue)] # <<>>
  BY <1>1 DEF RuntimeInv, QueuedIffPending
<1> QED
  BY <1>1, <1>2 DEF RuntimeInv, TakenIffRunning

\* The activation of the head takes its place in the queue.
LEMMA BorrowInv ==
    ASSUME Types, RuntimeInv, Borrow
    PROVE  RuntimeInv'
<1> DEFINE id == Head(queue)
<1>1. queue # <<>>
  BY DEF Borrow
<1>2. id \in Ids /\ entry[id] = "Available" /\ mailbox[id] # <<>> /\ id \notin Range(stack)
  BY <1>1, HeadIsAvailable
<1>3. /\ IsInjective(Tail(queue))
      /\ \A x : Contains(Tail(queue), x) <=> Contains(queue, x) /\ x # id
  BY <1>1, TailLemma DEF Types, RuntimeInv, QueueDistinct
<1>4. /\ IsInjective(Append(stack, id))
      /\ Range(Append(stack, id)) = Range(stack) \cup {id}
  BY <1>2, PushLemma DEF Types, RuntimeInv, NotReentered
<1>5. /\ queue' = Tail(queue) /\ mailbox' = mailbox
      /\ entry' = [entry EXCEPT ![id] = "Taken"]
      /\ stack' = Append(stack, id)
  BY <1>2 DEF Borrow
<1> HIDE DEF id
<1>6. QueueDistinct' /\ NotReentered'
  BY <1>3, <1>4, <1>5 DEF QueueDistinct, NotReentered
<1>7. QueuedIffPending'
  BY <1>2, <1>3, <1>5 DEF RuntimeInv, QueuedIffPending, Types
<1>8. TakenIffRunning'
  BY <1>2, <1>4, <1>5 DEF RuntimeInv, TakenIffRunning, Types
<1>9. StaleIdHasNoMail'
  BY <1>2, <1>4, <1>5 DEF RuntimeInv, StaleIdHasNoMail, Types
<1> QED
  BY <1>6, <1>7, <1>8, <1>9 DEF RuntimeInv

\* An activation handles a message of an actor that is not queued for it to
\* be queued again.
LEMMA NextMessageInv ==
    ASSUME Types, RuntimeInv, NextMessage
    PROVE  RuntimeInv'
<1> DEFINE id == Last(stack)
<1>1. id \in Ids /\ id \in Range(stack)
  BY FrontLemma DEF NextMessage, Types, RuntimeInv, NotReentered
<1>2. entry[id] \in {"Taken", "Removed"}
  BY <1>1 DEF RuntimeInv, TakenIffRunning
<1>3. /\ mailbox' = [mailbox EXCEPT ![id] = Tail(@)]
      /\ entry' = entry /\ queue' = queue /\ stack' = stack
  BY DEF NextMessage
<1> HIDE DEF id
<1>4. QueueDistinct' /\ NotReentered' /\ TakenIffRunning'
  BY <1>3 DEF RuntimeInv, QueueDistinct, NotReentered, TakenIffRunning
<1>5. QueuedIffPending' /\ StaleIdHasNoMail'
  BY <1>1, <1>2, <1>3 DEF RuntimeInv, QueuedIffPending, StaleIdHasNoMail, Types
<1> QED
  BY <1>4, <1>5 DEF RuntimeInv

\* The end of an activation puts the container back, with no mail left, or
\* drops it with what it holds.
LEMMA FinishActorInv ==
    ASSUME Types, RuntimeInv, stack # <<>>, NEW break \in BOOLEAN, FinishActor(break),
           break \/ mailbox[Last(stack)] = <<>>
    PROVE  RuntimeInv'
<1> DEFINE id == Last(stack)
<1>1. /\ id \in Ids /\ id \in Range(stack)
      /\ IsInjective(Front(stack))
      /\ Range(Front(stack)) = Range(stack) \ {id}
  BY FrontLemma DEF Types, RuntimeInv, NotReentered
<1>2. entry[id] \in {"Taken", "Removed"} /\ ~Contains(queue, id)
  BY <1>1 DEF RuntimeInv, TakenIffRunning, QueuedIffPending
<1>3. /\ IsInjective(Retain(queue, id))
      /\ \A x : Contains(Retain(queue, id), x) <=> Contains(queue, x) /\ x # id
  BY RetainLemma DEF Types, RuntimeInv, QueueDistinct
<1>4. /\ stack' = Front(stack)
      /\ queue' = queue \/ queue' = Retain(queue, id)
  BY DEF FinishActor
<1>5. /\ \A x \in Ids : x # id => entry'[x] = entry[x] /\ mailbox'[x] = mailbox[x]
      /\ mailbox'[id] = <<>>
      /\ entry'[id] \in {"Available", "Removed"}
  BY <1>1, <1>2 DEF FinishActor, Types
<1> HIDE DEF id
<1>6. QueueDistinct' /\ NotReentered'
  BY <1>1, <1>3, <1>4 DEF RuntimeInv, QueueDistinct, NotReentered
<1>7. \A x : Contains(queue', x) <=> Contains(queue, x)
  BY <1>2, <1>3, <1>4
<1>8. QueuedIffPending'
  BY <1>2, <1>5, <1>7 DEF RuntimeInv, QueuedIffPending
<1>9. TakenIffRunning' /\ StaleIdHasNoMail'
  BY <1>1, <1>4, <1>5 DEF RuntimeInv, TakenIffRunning, StaleIdHasNoMail
<1> QED
  BY <1>6, <1>8, <1>9 DEF RuntimeInv

\* Every step keeps the invariant.
LEMMA RuntimeInvStep ==
    ASSUME Types, RuntimeInv, [Next]_vars
    PROVE  RuntimeInv'
<1>1. CASE UserCall
  <2>1. CASE CallProcess
    BY <2>1 DEF CallProcess, RuntimeInv, QueueDistinct, QueuedIffPending,
                NotReentered, TakenIffRunning, StaleIdHasNoMail
  <2> QED
    BY <1>1, <2>1, InsertInv, RemoveActorInv, SendInv DEF UserCall
<1>2. CASE HandlerContinue
  BY <1>2 DEF HandlerContinue, RuntimeInv, QueueDistinct, QueuedIffPending,
              NotReentered, TakenIffRunning, StaleIdHasNoMail
<1>3. CASE HandlerStop
  BY <1>3, FinishActorInv DEF HandlerStop
<1>4. CASE ProcessDone
  BY <1>4 DEF ProcessDone, RuntimeInv, QueueDistinct, QueuedIffPending,
              NotReentered, TakenIffRunning, StaleIdHasNoMail
<1>5. CASE DrainDone
  BY <1>5, FinishActorInv DEF DrainDone, Types
<1>6. CASE UNCHANGED vars
  BY <1>6 DEF vars, RuntimeInv, QueueDistinct, QueuedIffPending,
              NotReentered, TakenIffRunning, StaleIdHasNoMail
<1> QED
  BY <1>1, <1>2, <1>3, <1>4, <1>5, <1>6, BorrowInv, NextMessageInv
     DEF Next, HandlerReturn, ProcessStep

\* An empty runtime satisfies the invariant.
LEMMA InitInv ==
    ASSUME Init
    PROVE  RuntimeInv
<1>1. /\ \A x : ~Contains(<<>>, x)
      /\ \A x : x \notin Range(<<>>)
      /\ IsInjective(<<>>)
  BY DEF Contains, Range, IsInjective
<1> QED
  BY <1>1 DEF Init, RuntimeInv, QueueDistinct, QueuedIffPending, NotReentered,
              TakenIffRunning, StaleIdHasNoMail

\* No actor is queued twice or without being processable, none that has mail
\* and can be processed is not queued, none is entered again while it runs,
\* no container is lost, and no mail outlives its actor, however deep handlers
\* nest process calls and whichever actors they remove.
THEOREM RuntimeInvariant == Spec => []RuntimeInv
<1>1. Init => Types
  BY DEF Init, Types, Entries, Errors
<1>2. Init => RuntimeInv
  BY InitInv
<1>3. Types /\ RuntimeInv /\ [Next]_vars => Types' /\ RuntimeInv'
  BY TypeStep, RuntimeInvStep
<1> QED
  BY <1>1, <1>2, <1>3, PTL DEF Spec

-----------------------------------------------------------------------------
(* Consequences.                                                           *)

\* A sequence over a set is one over any set that its elements are in.
LEMMA SeqOver ==
    ASSUME NEW S, NEW T, NEW q \in Seq(S), \A i \in 1..Len(q) : q[i] \in T
    PROVE  q \in Seq(T)
<1>1. q \in [1..Len(q) -> T] /\ Len(q) \in Nat
  OBVIOUS
<1> QED
  BY <1>1

\* The state keeps its type, for any number of actors and messages and any
\* length and depth of calls; whatever waits in the run queue can be borrowed
\* and whatever is on the stack is out of the arena.
THEOREM TypeCorrect == Spec => []TypeOK
<1>1. Init => Types /\ RuntimeInv
  BY InitInv DEF Init, Types, Entries, Errors
<1>2. Types /\ RuntimeInv /\ [Next]_vars => Types' /\ RuntimeInv'
  BY TypeStep, RuntimeInvStep
<1>3. ASSUME Types, RuntimeInv
      PROVE  TypeOK
  <2>1. ASSUME NEW i \in 1..Len(queue)
        PROVE  queue[i] \in {id \in Ids : entry[id] = "Available"}
    <3>1. queue[i] \in Ids /\ Contains(queue, queue[i])
      BY <1>3 DEF Types, Contains
    <3> QED
      BY <1>3, <3>1 DEF RuntimeInv, QueuedIffPending
  <2>2. ASSUME NEW i \in 1..Len(stack)
        PROVE  stack[i] \in {id \in Ids : entry[id] \in {"Taken", "Removed"}}
    <3>1. stack[i] \in Ids /\ Running(stack[i])
      BY <1>3 DEF Types, Running, Range
    <3> QED
      BY <1>3, <3>1 DEF RuntimeInv, TakenIffRunning
  <2> QED
    BY <1>3, <2>1, <2>2, SeqOver DEF TypeOK, Types
<1> QED
  BY <1>1, <1>2, <1>3, PTL DEF Spec

\* The run queue holds an actor exactly when it is in the arena with mail: no
\* wakeup is lost and none is left over from an actor that is gone.
THEOREM WakeupsAreExact == Spec => []QueuedIffPending
<1>1. RuntimeInv => QueuedIffPending
  BY DEF RuntimeInv
<1> QED
  BY <1>1, RuntimeInvariant, PTL

\* An actor is in the run queue at most once, however often it is sent to.
THEOREM QueuedOnce == Spec => []QueueDistinct
<1>1. RuntimeInv => QueueDistinct
  BY DEF RuntimeInv
<1> QED
  BY <1>1, RuntimeInvariant, PTL

\* No activation enters an actor that another one is in the middle of, however
\* deep the calls of process are nested.
THEOREM NeverReentered == Spec => []NotReentered
<1>1. RuntimeInv => NotReentered
  BY DEF RuntimeInv
<1> QED
  BY <1>1, RuntimeInvariant, PTL

\* No container is lost: one that is not in the arena is with an activation
\* that is going to put it back.
THEOREM ContainersAreKept == Spec => []TakenIffRunning
<1>1. RuntimeInv => TakenIffRunning
  BY DEF RuntimeInv
<1> QED
  BY <1>1, RuntimeInvariant, PTL

\* Nothing is left under the id of an actor that has gone.
THEOREM StaleIdsHaveNoMail == Spec => []StaleIdHasNoMail
<1>1. RuntimeInv => StaleIdHasNoMail
  BY DEF RuntimeInv
<1> QED
  BY <1>1, RuntimeInvariant, PTL

\* borrow never fails: nothing is in the run queue that process_actor cannot
\* find, or finds taken.
THEOREM BorrowAlwaysSucceeds == Spec => []BorrowSucceeds
<1>1. Init => Types /\ RuntimeInv /\ BorrowSucceeds
  BY InitInv DEF Init, Types, Entries, Errors, BorrowSucceeds
<1>2. ASSUME Types, RuntimeInv, BorrowSucceeds, [Next]_vars
      PROVE  BorrowSucceeds'
  <2>1. Borrow => BorrowSucceeds'
    BY <1>2, HeadIsAvailable DEF Borrow, BorrowSucceeds
  <2>2. CASE UserCall
    BY <2>2 DEF UserCall, Insert, RemoveActor, Send, SendError, CallProcess, Return,
                BorrowSucceeds
  <2>3. CASE HandlerReturn
    BY <2>3 DEF HandlerReturn, HandlerContinue, HandlerStop, FinishActor, BorrowSucceeds
  <2>4. CASE ProcessStep /\ ~Borrow
    BY <2>4 DEF ProcessStep, ProcessDone, NextMessage, DrainDone, FinishActor, BorrowSucceeds
  <2>5. CASE UNCHANGED vars
    BY <1>2, <2>5 DEF vars, BorrowSucceeds
  <2> QED
    BY <1>2, <2>1, <2>2, <2>3, <2>4, <2>5 DEF Next
<1>3. Types /\ RuntimeInv /\ [Next]_vars => Types' /\ RuntimeInv'
  BY TypeStep, RuntimeInvStep
<1> QED
  BY <1>1, <1>2, <1>3, PTL DEF Spec

\* When process returns Ok, every live actor that is not being processed by a
\* caller further out has an empty message queue.
THEOREM OkMeansDrainedHolds == Spec => OkMeansDrained
<1> DEFINE Ok == pc = "loop" /\ pc' = "user" /\ error' = "None" =>
                    \A id \in Ids : Live(id) /\ ~Running(id) => mailbox[id] = <<>>
<1>1. Init => Types /\ RuntimeInv
  BY InitInv DEF Init, Types, Entries, Errors
<1>2. ASSUME Types, RuntimeInv, [Next]_vars
      PROVE  [Ok]_vars
  <2> SUFFICES ASSUME pc = "loop", pc' = "user", error' = "None", Next,
                      NEW id \in Ids, Live(id), ~Running(id)
               PROVE  mailbox[id] = <<>>
    BY <1>2
  <2>1. ProcessDone
    <3>1. ProcessDone \/ Borrow
      BY DEF Next, UserCall, Insert, RemoveActor, Send, CallProcess, HandlerReturn,
             HandlerContinue, HandlerStop, FinishActor, ProcessStep, NextMessage, DrainDone
    <3> QED
      BY <3>1 DEF Borrow
  <2>2. ~Contains(queue, id)
    BY <2>1 DEF ProcessDone, Contains
  <2>3. entry[id] = "Available"
    BY <1>2 DEF RuntimeInv, TakenIffRunning
  <2> QED
    BY <1>2, <2>2, <2>3 DEF RuntimeInv, QueuedIffPending
<1>3. Types /\ RuntimeInv /\ [Next]_vars => Types' /\ RuntimeInv'
  BY TypeStep, RuntimeInvStep
<1> QED
  BY <1>1, <1>2, <1>3, PTL DEF Spec, OkMeansDrained

\* How a step changes the run queue: elements leave it, or one that was not in
\* it comes to its end.
LEMMA QueueStep ==
    ASSUME Types, RuntimeInv, Next, NEW x, NEW y, Ahead(queue', x, y)
    PROVE  Ahead(queue, x, y) \/ ~Contains(queue, y)
<1>1. queue \in Seq(Ids) /\ IsInjective(queue)
  BY DEF Types, RuntimeInv, QueueDistinct
<1>2. \/ queue' = queue
      \/ \E id : queue' = Retain(queue, id)
      \/ \E id \in Ids : queue' = Enqueue(queue, id)
      \/ queue # <<>> /\ queue' = Tail(queue)
  BY DEF Next, UserCall, Insert, RemoveActor, Send, CallProcess, HandlerReturn,
         HandlerContinue, HandlerStop, FinishActor, ProcessStep, ProcessDone, Borrow,
         NextMessage, DrainDone
<1>3. CASE queue' = queue
  BY <1>3
<1>4. ASSUME NEW id, queue' = Retain(queue, id)
      PROVE  Ahead(queue, x, y)
  BY <1>1, <1>4, RetainLemma
<1>5. ASSUME NEW id \in Ids, queue' = Enqueue(queue, id)
      PROVE  Ahead(queue, x, y) \/ ~Contains(queue, y)
  BY <1>1, <1>5, EnqueueLemma
<1>6. CASE queue # <<>> /\ queue' = Tail(queue)
  BY <1>1, <1>6, TailLemma
<1> QED
  BY <1>2, <1>3, <1>4, <1>5, <1>6

\* Waiting actors are never overtaken in the run queue.
THEOREM NoOvertakingHolds == Spec => NoOvertaking
<1> DEFINE Order == \A a, b \in Ids : Ahead(queue, a, b) => ~Ahead(queue', b, a)
<1>1. Init => Types /\ RuntimeInv
  BY InitInv DEF Init, Types, Entries, Errors
<1>2. ASSUME Types, RuntimeInv, [Next]_vars
      PROVE  [Order]_vars
  <2> SUFFICES ASSUME Next, NEW a \in Ids, NEW b \in Ids,
                      Ahead(queue, a, b), Ahead(queue', b, a)
               PROVE  FALSE
    BY <1>2
  <2>1. DOMAIN queue = 1..Len(queue) /\ Len(queue) \in Nat
    BY <1>2 DEF Types
  <2>2. Contains(queue, a)
    BY <2>1 DEF Ahead, Contains
  <2>3. Ahead(queue, b, a)
    BY <1>2, <2>2, QueueStep
  <2>4. PICK i, j \in 1..Len(queue) : i < j /\ queue[i] = a /\ queue[j] = b
    BY <2>1 DEF Ahead
  <2>5. PICK k, l \in 1..Len(queue) : k < l /\ queue[k] = b /\ queue[l] = a
    BY <2>1, <2>3 DEF Ahead
  <2>6. i = l /\ j = k
    BY <1>2, <2>1, <2>4, <2>5 DEF RuntimeInv, QueueDistinct, IsInjective
  <2> QED
    BY <2>4, <2>5, <2>6
<1>3. Types /\ RuntimeInv /\ [Next]_vars => Types' /\ RuntimeInv'
  BY TypeStep, RuntimeInvStep
<1> QED
  BY <1>1, <1>2, <1>3, PTL DEF Spec, NoOvertaking

-----------------------------------------------------------------------------
(* Refinement: each step of the runtime is a step of ActorSystem or leaves *)
(* the abstract state as it is.                                            *)

\* An empty runtime is an empty actor system.
LEMMA AbstractInit ==
    ASSUME Init
    PROVE  AS!Init
<1>1. Range(<<>>) = {}
  BY DEF Range
<1>2. Status = [id \in Ids |-> "unborn"]
  BY DEF Init, Status
<1> QED
  BY <1>1, <1>2 DEF Init, AS!Init

\* Insert is a Spawn.
LEMMA AbstractInsert ==
    ASSUME Types, NEW id \in Ids, Insert(id)
    PROVE  AS!Next
<1>1. Status' = [Status EXCEPT ![id] = "alive"]
  BY DEF Insert, Status, Types
<1>2. Status[id] = "unborn"
  BY DEF Insert, Status
<1>3. AS!Spawn(id)
  BY <1>1, <1>2 DEF Insert, AS!Spawn
<1> QED
  BY <1>3 DEF AS!Next

\* RemoveActor ends an actor that is alive, and changes nothing for one that
\* is not.
LEMMA AbstractRemoveActor ==
    ASSUME Types, RuntimeInv, NEW id \in Ids, RemoveActor(id)
    PROVE  [AS!Next]_AS!avars
<1>1. CASE Live(id)
  <2>1. Status[id] = "alive"
    BY <1>1 DEF Status
  <2>2. Status' = [Status EXCEPT ![id] = "dead"]
    BY <1>1 DEF RemoveActor, Status, Types
  <2>3. entry[id] = "Available" <=> id \notin Range(stack)
    BY <1>1 DEF RuntimeInv, TakenIffRunning
  <2>4. mailbox' = IF id \in Range(stack) THEN mailbox ELSE [mailbox EXCEPT ![id] = <<>>]
    BY <1>1, <2>3 DEF RemoveActor
  <2>5. AS!Kill(id)
    BY <2>1, <2>2, <2>4 DEF RemoveActor, AS!Kill
  <2> QED
    BY <2>5 DEF AS!Next
<1>2. CASE ~Live(id)
  BY <1>2 DEF RemoveActor, Status, AS!avars
<1> QED
  BY <1>1, <1>2

\* Send delivers its message or, when it fails, changes nothing.
LEMMA AbstractSend ==
    ASSUME Types, RuntimeInv, NEW id \in Ids, NEW m \in Messages, Send(id, m)
    PROVE  [AS!Next]_AS!avars
<1>1. CASE SendError(id, m) = "None"
  <2>1. entry[id] = "Available"
    BY <1>1 DEF SendError
  <2>2. Status[id] = "alive" /\ id \notin Range(stack)
    BY <2>1 DEF Status, RuntimeInv, TakenIffRunning
  <2>3. AS!Post(id, m)
    BY <1>1, <2>2 DEF Send, Status, AS!Post
  <2> QED
    BY <2>3 DEF AS!Next
<1>2. CASE SendError(id, m) # "None"
  BY <1>2 DEF Send, Status, AS!avars
<1> QED
  BY <1>1, <1>2

\* Borrow starts an activation of an actor that is alive, has mail and is not
\* active.
LEMMA AbstractBorrow ==
    ASSUME Types, RuntimeInv, Borrow
    PROVE  AS!Next
<1> DEFINE id == Head(queue)
<1>1. id \in Ids /\ entry[id] = "Available" /\ mailbox[id] # <<>> /\ id \notin Range(stack)
  BY HeadIsAvailable DEF Borrow
<1>2. Range(Append(stack, id)) = Range(stack) \cup {id}
  BY <1>1, PushLemma DEF Types, RuntimeInv, NotReentered
<1>3. /\ entry' = [entry EXCEPT ![id] = "Taken"]
      /\ stack' = Append(stack, id) /\ mailbox' = mailbox
  BY <1>1 DEF Borrow
<1> HIDE DEF id
<1>4. Status' = Status /\ Status[id] = "alive"
  BY <1>1, <1>3 DEF Status, Types
<1>5. AS!Activate(id)
  BY <1>1, <1>2, <1>3, <1>4 DEF AS!Activate
<1> QED
  BY <1>1, <1>5 DEF AS!Next

\* NextMessage hands over the oldest message of an active actor.
LEMMA AbstractNextMessage ==
    ASSUME Types, RuntimeInv, NextMessage
    PROVE  AS!Next
<1> DEFINE id == Last(stack)
<1>1. id \in Ids /\ id \in Range(stack)
  BY FrontLemma DEF NextMessage, Types, RuntimeInv, NotReentered
<1>2. AS!Handle(id)
  BY <1>1 DEF NextMessage, Status, AS!Handle
<1> QED
  BY <1>1, <1>2 DEF AS!Next

\* FinishActor ends an activation of the actor system.
LEMMA AbstractFinishActor ==
    ASSUME Types, RuntimeInv, stack # <<>>, NEW break \in BOOLEAN, FinishActor(break),
           break \/ mailbox[Last(stack)] = <<>>
    PROVE  AS!Next
<1> DEFINE id == Last(stack)
<1>1. /\ id \in Ids /\ id \in Range(stack)
      /\ Range(Front(stack)) = Range(stack) \ {id}
  BY FrontLemma DEF Types, RuntimeInv, NotReentered
<1>2. entry[id] \in {"Taken", "Removed"}
  BY <1>1 DEF RuntimeInv, TakenIffRunning
<1>3. CASE Live(id) /\ ~break
  <2>1. Status' = Status
    BY <1>1, <1>2, <1>3 DEF FinishActor, Status, Types
  <2>2. mailbox' = mailbox /\ mailbox[id] = <<>> /\ stack' = Front(stack)
    BY <1>3 DEF FinishActor
  <2>3. AS!Rest(id)
    BY <1>1, <2>1, <2>2 DEF AS!Rest
  <2> QED
    BY <1>1, <2>3 DEF AS!Next
<1>4. CASE ~Live(id) \/ break
  <2>1. Status' = [Status EXCEPT ![id] = "dead"]
    BY <1>1, <1>2, <1>4 DEF FinishActor, Status, Types
  <2>2. mailbox' = [mailbox EXCEPT ![id] = <<>>] /\ stack' = Front(stack)
    BY <1>4 DEF FinishActor
  <2>3. AS!Stop(id)
    BY <1>1, <2>1, <2>2 DEF AS!Stop
  <2> QED
    BY <1>1, <2>3 DEF AS!Next
<1> QED
  BY <1>3, <1>4

\* Every step is a step of the actor system or a stutter.
LEMMA AbstractStep ==
    ASSUME Types, RuntimeInv, [Next]_vars
    PROVE  [AS!Next]_AS!avars
<1>1. CASE CallProcess \/ HandlerContinue \/ ProcessDone \/ UNCHANGED vars
  BY <1>1 DEF CallProcess, HandlerContinue, ProcessDone, vars, Status, AS!avars
<1>2. CASE HandlerStop
  BY <1>2, AbstractFinishActor DEF HandlerStop
<1>3. CASE DrainDone
  BY <1>3, AbstractFinishActor DEF DrainDone, Types
<1> QED
  BY <1>1, <1>2, <1>3, AbstractInsert, AbstractRemoveActor, AbstractSend,
     AbstractBorrow, AbstractNextMessage
     DEF Next, UserCall, HandlerReturn, ProcessStep

\* The runtime implements the system of actors: accepted messages are handled
\* at most once, in the order of acceptance, by one activation at a time, and
\* are dropped only together with their actor.
THEOREM RuntimeImplementsActorSystem == Spec => ImplementsActorSystem
<1>1. Init => Types /\ RuntimeInv
  BY InitInv DEF Init, Types, Entries, Errors
<1>2. Types /\ RuntimeInv /\ [Next]_vars => Types' /\ RuntimeInv'
  BY TypeStep, RuntimeInvStep
<1>3. Init => AS!Init
  BY AbstractInit
<1>4. Types /\ RuntimeInv /\ [Next]_vars => [AS!Next]_AS!avars
  BY AbstractStep
<1> QED
  BY <1>1, <1>2, <1>3, <1>4, PTL DEF Spec, ImplementsActorSystem, AS!Spec

=============================================================================
