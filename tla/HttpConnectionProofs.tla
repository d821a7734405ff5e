------------------------ MODULE HttpConnectionProofs ------------------------
(***************************************************************************)
(* Proofs about HttpConnection, for any segments, bodies and bounds: the   *)
(* lengths of the parser fit its data, nothing that the connection should  *)
(* do is left when it has returned and no wakeup is to come, and it        *)
(* implements HttpExchange.                                                *)
(***************************************************************************)
EXTENDS HttpConnection, HttpParserProofs

\* What the mailboxes and the list of requests hold.
Events  == {Recv(s) : s \in Seq(Bytes) \ {<<>>}} \cup {Closed}
Asks    == [id : Nat, header : Headers]
NewOnes == [type : {"new"}, id : Nat, header : Headers, text : Seq(Bytes)]
PendingOnes == [type : {"pending"}, id : Nat, answers : Seq(Bodies)]
Requests == NewOnes \cup PendingOnes

Types ==
    /\ tcp_events \in Seq(Events)
    /\ tcp_actions \in Seq(Bodies \cup {Close})
    /\ stream \in {"open", "ended", "closed"}
    /\ actions \in Seq({Close})
    /\ listener \in {"there", "gone"} /\ user \in {"there", "gone"}
    /\ http_events \in Seq(Asks)
    /\ signalled \in BOOLEAN /\ closed \in BOOLEAN
    /\ pc \in {"idle", "tcp", "consume", "actions", "ask", "resolve", "stopped", "panicked"}
    /\ parser \in Parsers
    /\ rest \in Seq(Bytes)
    /\ requests \in Seq(Requests)

\* A segment is scanned exactly in the loop around consume.
Scans ==
    /\ rest # <<>> <=> pc = "consume"
    /\ scanned \in 0..Len(rest)

\* The first n requests, and no others, were handed over.
Leads(s, n) ==
    /\ n \in 0..Len(s)
    /\ \A i \in 1..Len(s) : s[i].type = IF i <= n THEN "pending" ELSE "new"

\* No two requests share a mailbox.
Distinct(s) == \A i, j \in 1..Len(s) : s[i].id = s[j].id => i = j

\* The requests that the user has not taken are the last that it was given,
\* and so there are no answers to them.
Awaits(s, n, asked) ==
    /\ Len(asked) <= n
    /\ \A k \in 1..Len(asked) :
          /\ s[(n - Len(asked)) + k].id = asked[k].id
          /\ s[(n - Len(asked)) + k].answers = <<>>

\* The requests that were handed over are the first, each has its own mailbox,
\* and those that the user has not taken are the last of them.
InOrder ==
    /\ Leads(requests, Handed)
    /\ Distinct(requests)
    /\ Served => Awaits(requests, Handed, http_events)

\* What a loop of the handler has emptied is empty until someone signals.
Settled ==
    /\ pc \in {"actions", "ask", "resolve"} \/ (pc = "idle" /\ ~signalled) => tcp_events = <<>>
    /\ pc \in {"ask", "resolve"} \/ (pc = "idle" /\ ~signalled) => actions = <<>>
    /\ pc \in {"resolve", "idle"} => Handed = Len(requests)
    /\ pc = "idle" /\ ~signalled => ~HeadIsAnswered

HttpInv ==
    /\ Types
    /\ Scans
    /\ Fits(parser)
    /\ InOrder
    /\ Settled

-----------------------------------------------------------------------------
(* The list of requests.                                                   *)

\* Handed is the number of those that were handed over.
LEMMA HandedIs ==
    /\ requests \in Seq(Requests) => \A n : Leads(requests, n) => Handed = n
    /\ requests' \in Seq(Requests) => \A n : Leads(requests', n) => Handed' = n
<1> DEFINE Split(s, m) == /\ \A i \in 1..m : s[i].type = "pending"
                          /\ m = Len(s) \/ s[m + 1].type = "new"
<1>1. ASSUME NEW s \in Seq(Requests), NEW n, Leads(s, n)
      PROVE  (CHOOSE m \in 0..Len(s) : Split(s, m)) = n
    <2>1. /\ Len(s) \in Nat /\ n \in 0..Len(s)
          /\ \A i \in 1..Len(s) : s[i].type = IF i <= n THEN "pending" ELSE "new"
        BY <1>1 DEF Leads
    <2>2. Split(s, n)
        <3>1. \A i \in 1..n : i \in 1..Len(s) /\ i <= n
            BY <2>1
        <3>2. n = Len(s) \/ (n + 1 \in 1..Len(s) /\ ~(n + 1 <= n))
            BY <2>1
        <3> QED
            BY <3>1, <3>2, <2>1
    <2>3. ASSUME NEW m \in 0..Len(s), Split(s, m) PROVE m = n
        <3>1. ~(m < n)
            <4> SUFFICES ASSUME m < n PROVE FALSE
                OBVIOUS
            <4>1. m + 1 \in 1..Len(s) /\ m + 1 <= n /\ m # Len(s)
                BY <2>1
            <4> QED
                BY <4>1, <2>1, <2>3
        <3>2. ~(n < m)
            <4> SUFFICES ASSUME n < m PROVE FALSE
                OBVIOUS
            <4>1. n + 1 \in 1..Len(s) /\ n + 1 \in 1..m /\ ~(n + 1 <= n)
                BY <2>1
            <4> QED
                BY <4>1, <2>1, <2>3
        <3> QED
            BY <3>1, <3>2, <2>1
    <2> HIDE DEF Split
    <2>4. \E m \in 0..Len(s) : Split(s, m)
        BY <2>1, <2>2
    <2> DEFINE c == CHOOSE m \in 0..Len(s) : Split(s, m)
    <2>5. c \in 0..Len(s) /\ Split(s, c)
        BY <2>4, Zenon
    <2> HIDE DEF c
    <2>6. c = n
        BY <2>3, <2>5
    <2> QED
        BY <2>6 DEF c
<1> QED
    BY <1>1, Zenon DEF Handed


\* What is known of each of the requests.
LEMMA RequestFacts ==
    ASSUME NEW s \in Seq(Requests), NEW n, Leads(s, n)
    PROVE  /\ Len(s) \in Nat /\ DOMAIN s = 1..Len(s) /\ n \in 0..Len(s) /\ n \in Nat
           /\ \A i \in 1..Len(s) : s[i] \in Requests /\ s[i].id \in Nat
           /\ \A i \in 1..n : s[i] \in PendingOnes /\ s[i].answers \in Seq(Bodies)
                              /\ s[i] = Pending(s[i].id, s[i].answers)
           /\ \A i \in n + 1 .. Len(s) : s[i] \in NewOnes /\ s[i].header \in Headers
<1>1. /\ Len(s) \in Nat /\ DOMAIN s = 1..Len(s)
      /\ \A i \in 1..Len(s) : s[i] \in Requests
    BY LenProperties, ElementOfSeq
<1>2. /\ n \in 0..Len(s) /\ n \in Nat
      /\ \A i \in 1..Len(s) : s[i].type = IF i <= n THEN "pending" ELSE "new"
    BY <1>1 DEF Leads
<1>3. ASSUME NEW i \in 1..Len(s) PROVE s[i].id \in Nat
    BY <1>1 DEF Requests, NewOnes, PendingOnes
<1>4. ASSUME NEW i \in 1..n
      PROVE  s[i] \in PendingOnes /\ s[i].answers \in Seq(Bodies)
             /\ s[i] = Pending(s[i].id, s[i].answers)
    <2>1. i \in 1..Len(s) /\ i <= n
        BY <1>2
    <2>2. s[i] \in Requests /\ s[i].type = "pending"
        BY <2>1, <1>1, <1>2
    <2>3. s[i] \in PendingOnes
        BY <2>2 DEF Requests, NewOnes
    <2> QED
        BY <2>3 DEF PendingOnes, Pending
<1>5. ASSUME NEW i \in n + 1 .. Len(s)
      PROVE  s[i] \in NewOnes /\ s[i].header \in Headers
    <2>1. i \in 1..Len(s) /\ ~(i <= n)
        BY <1>2
    <2>2. s[i] \in Requests /\ s[i].type = "new"
        BY <2>1, <1>1, <1>2
    <2>3. s[i] \in NewOnes
        BY <2>2 DEF Requests, PendingOnes
    <2> QED
        BY <2>3 DEF NewOnes
<1> QED
    BY <1>1, <1>2, <1>3, <1>4, <1>5

\* There is always a mailbox that no other request uses.
LEMMA FreshIsFresh ==
    ASSUME requests \in Seq(Requests)
    PROVE  FreshId \in Nat /\ \A i \in 1..Len(requests) : requests[i].id # FreshId
<1> DEFINE n   == Len(requests)
           ids == {r.id : r \in ToSet(requests)}
<1>1. n \in Nat /\ DOMAIN requests = 1..n
    BY LenProperties
<1>2. \A id : id \in ids <=> \E i \in 1..n : requests[i].id = id
    BY <1>1 DEF ToSet
<1> HIDE DEF n, ids
<1>3. \E id \in 1..(n + 1) : id \notin ids
    <2> SUFFICES ASSUME \A id \in 1..(n + 1) : id \in ids PROVE FALSE
        OBVIOUS
    <2> DEFINE f == [id \in 1..(n + 1) |-> CHOOSE i \in 1..n : requests[i].id = id]
    <2>1. ASSUME NEW id \in 1..(n + 1) PROVE f[id] \in 1..n /\ requests[f[id]].id = id
        <3>1. \E i \in 1..n : requests[i].id = id
            BY <1>2
        <3>2. f[id] = CHOOSE i \in 1..n : requests[i].id = id
            OBVIOUS
        <3> QED
            BY <3>1, <3>2, Zenon
    <2>2. f \in [1..(n + 1) -> 1..n]
        BY <2>1
    <2>3. /\ IsFiniteSet(1..(n + 1)) /\ Cardinality(1..(n + 1)) = n + 1
          /\ IsFiniteSet(1..n) /\ Cardinality(1..n) = n
        BY <1>1, FS_Interval
    <2> HIDE DEF f
    <2>4. \E x, y \in 1..(n + 1) : x # y /\ f[x] = f[y]
        <3>1. Cardinality(1..n) < Cardinality(1..(n + 1))
            BY <1>1, <2>3
        <3> QED
            BY <2>2, <2>3, <3>1, FS_PigeonHole
    <2> QED
        BY <2>1, <2>4
<1>4. FreshId \in 1..(n + 1) /\ FreshId \notin ids
    BY <1>3, Zenon DEF FreshId, n, ids
<1> QED
    BY <1>1, <1>2, <1>4 DEF n

\* The indices of the requests that the user has not taken.
LEMMA AwaitedIndices ==
    ASSUME NEW n \in Nat, NEW asked \in Seq(Asks), Len(asked) <= n
    PROVE  /\ Len(asked) \in Nat /\ n - Len(asked) \in Nat
           /\ \A k \in 1..Len(asked) : (n - Len(asked)) + k \in 1..n
           /\ \A i \in 1..n : i > n - Len(asked) =>
                 /\ i - (n - Len(asked)) \in 1..Len(asked)
                 /\ (n - Len(asked)) + (i - (n - Len(asked))) = i
<1>1. Len(asked) \in Nat
    BY LenProperties
<1> QED
    BY <1>1

\* A new request comes after all others.
LEMMA AddRequest ==
    ASSUME NEW s \in Seq(Requests), NEW n, Leads(s, n), Distinct(s),
           NEW r \in NewOnes, \A i \in 1..Len(s) : s[i].id # r.id
    PROVE  /\ Append(s, r) \in Seq(Requests) /\ Len(Append(s, r)) = Len(s) + 1
           /\ Leads(Append(s, r), n) /\ Distinct(Append(s, r))
           /\ \A i \in 1..Len(s) : Append(s, r)[i] = s[i]
           /\ \A asked \in Seq(Asks) : Awaits(s, n, asked) => Awaits(Append(s, r), n, asked)
<1> DEFINE t == Append(s, r)
<1>1. /\ t \in Seq(Requests) /\ Len(t) = Len(s) + 1 /\ t[Len(s) + 1] = r
      /\ \A i \in 1..Len(s) : t[i] = s[i]
    <2>1. r \in Requests
        BY DEF Requests
    <2> QED
        BY <2>1, AppendProperties
<1>2. Len(s) \in Nat /\ n \in 0..Len(s) /\ n \in Nat
    BY RequestFacts
<1> HIDE DEF t
<1>3. Leads(t, n)
    <2>1. r.type = "new"
        BY DEF NewOnes
    <2>2. ASSUME NEW i \in 1..Len(t)
          PROVE  t[i].type = IF i <= n THEN "pending" ELSE "new"
        <3>1. i \in 1..Len(s) \/ (i = Len(s) + 1 /\ ~(i <= n))
            BY <1>1, <1>2
        <3> QED
            BY <3>1, <2>1, <1>1 DEF Leads
    <2> QED
        BY <2>2, <1>1, <1>2 DEF Leads
<1>4. Distinct(t)
    <2> SUFFICES ASSUME NEW i \in 1..Len(t), NEW j \in 1..Len(t), t[i].id = t[j].id
                 PROVE  i = j
        BY DEF Distinct
    <2>1. (i \in 1..Len(s) \/ i = Len(s) + 1) /\ (j \in 1..Len(s) \/ j = Len(s) + 1)
        BY <1>1, <1>2
    <2> QED
        BY <2>1, <1>1 DEF Distinct
<1>5. ASSUME NEW asked \in Seq(Asks), Awaits(s, n, asked)
      PROVE  Awaits(t, n, asked)
    <2>1. \A k \in 1..Len(asked) : (n - Len(asked)) + k \in 1..Len(s)
        BY <1>2, <1>5, AwaitedIndices DEF Awaits
    <2> QED
        BY <2>1, <1>1, <1>5 DEF Awaits
<1> QED
    BY <1>1, <1>3, <1>4, <1>5 DEF t

\* The first of the others is handed over.
LEMMA HandOver ==
    ASSUME NEW s \in Seq(Requests), NEW n, Leads(s, n), Distinct(s), n # Len(s)
    PROVE  LET t == [s EXCEPT ![n + 1] = Pending(@.id, <<>>)] IN
           /\ n + 1 \in 1..Len(s) /\ s[n + 1] \in NewOnes
           /\ t \in Seq(Requests) /\ Len(t) = Len(s)
           /\ Leads(t, n + 1) /\ Distinct(t)
           /\ t[n + 1] = Pending(s[n + 1].id, <<>>)
           /\ \A i \in 1..Len(s) : i # n + 1 => t[i] = s[i]
           /\ \A asked \in Seq(Asks), header \in Headers :
                 Awaits(s, n, asked) =>
                     Awaits(t, n + 1, Append(asked, [id |-> s[n + 1].id, header |-> header]))
<1> DEFINE r == Pending(s[n + 1].id, <<>>)
           t == [s EXCEPT ![n + 1] = r]
<1>1. Len(s) \in Nat /\ n \in 0..Len(s) /\ n \in Nat /\ n + 1 \in 1..Len(s)
    BY RequestFacts
<1>2. s[n + 1] \in NewOnes /\ s[n + 1].id \in Nat
    BY <1>1, RequestFacts
<1>3. r \in PendingOnes /\ r.type = "pending" /\ r.id = s[n + 1].id /\ r.answers = <<>>
    <2>1. <<>> \in Seq(Bodies)
        OBVIOUS
    <2> QED
        BY <2>1, <1>2 DEF Pending, PendingOnes
<1> HIDE DEF r
<1>4. /\ t \in Seq(Requests) /\ Len(t) = Len(s) /\ t[n + 1] = r
      /\ \A i \in 1..Len(s) : i # n + 1 => t[i] = s[i]
    <2>1. r \in Requests
        BY <1>3 DEF Requests
    <2> QED
        BY <2>1, <1>1, ExceptSeq
<1>5. t = [s EXCEPT ![n + 1] = Pending(@.id, <<>>)]
    BY DEF r
<1> HIDE DEF t
<1>6. Leads(t, n + 1)
    <2>1. ASSUME NEW i \in 1..Len(t)
          PROVE  t[i].type = IF i <= n + 1 THEN "pending" ELSE "new"
        <3>1. i \in 1..Len(s) /\ (i # n + 1 => (i <= n <=> i <= n + 1)) /\ n + 1 <= n + 1
            BY <1>1, <1>4
        <3>2. s[i].type = IF i <= n THEN "pending" ELSE "new"
            BY <3>1 DEF Leads
        <3> QED
            BY <3>1, <3>2, <1>3, <1>4
    <2>2. n + 1 \in 0..Len(t)
        BY <1>1, <1>4
    <2> QED
        BY <2>1, <2>2 DEF Leads
<1>7. Distinct(t)
    <2>1. \A i \in 1..Len(s) : t[i].id = s[i].id
        BY <1>3, <1>4
    <2> QED
        BY <2>1, <1>4 DEF Distinct
<1>8. ASSUME NEW asked \in Seq(Asks), NEW header \in Headers, Awaits(s, n, asked)
      PROVE  Awaits(t, n + 1, Append(asked, [id |-> s[n + 1].id, header |-> header]))
    <2> DEFINE e    == [id |-> s[n + 1].id, header |-> header]
               more == Append(asked, e)
    <2>1. e \in Asks /\ e.id = s[n + 1].id
        BY <1>2 DEF Asks
    <2> HIDE DEF e
    <2>2. /\ Len(more) = Len(asked) + 1 /\ more[Len(asked) + 1] = e
          /\ \A k \in 1..Len(asked) : more[k] = asked[k]
        BY <2>1, AppendProperties
    <2>3. /\ Len(asked) \in Nat /\ Len(asked) <= n
          /\ \A k \in 1..Len(asked) : (n - Len(asked)) + k \in 1..n
        BY <1>1, <1>8, AwaitedIndices DEF Awaits
    <2> HIDE DEF more
    <2>4. ASSUME NEW k \in 1..Len(more)
          PROVE  /\ t[((n + 1) - Len(more)) + k].id = more[k].id
                 /\ t[((n + 1) - Len(more)) + k].answers = <<>>
        <3>1. CASE k = Len(asked) + 1
            <4>1. ((n + 1) - Len(more)) + k = n + 1
                BY <1>1, <2>2, <2>3, <3>1
            <4> QED
                BY <4>1, <3>1, <2>1, <2>2, <1>3, <1>4
        <3>2. CASE k # Len(asked) + 1
            <4>1. k \in 1..Len(asked) /\ ((n + 1) - Len(more)) + k = (n - Len(asked)) + k
                BY <1>1, <2>2, <2>3, <3>2
            <4>2. (n - Len(asked)) + k \in 1..n /\ (n - Len(asked)) + k \in 1..Len(s)
                  /\ (n - Len(asked)) + k # n + 1
                BY <4>1, <2>3, <1>1
            <4>3. t[(n - Len(asked)) + k] = s[(n - Len(asked)) + k]
                BY <4>2, <1>4
            <4> QED
                BY <4>1, <4>3, <2>2, <1>8 DEF Awaits
        <3> QED
            BY <3>1, <3>2
    <2>5. Len(more) <= n + 1
        BY <1>1, <2>2, <2>3
    <2>6. Awaits(t, n + 1, more)
        BY <2>4, <2>5 DEF Awaits
    <2> QED
        BY <2>6 DEF more, e
<1> QED
    BY <1>1, <1>2, <1>4, <1>5, <1>6, <1>7, <1>8, Zenon DEF r

\* A request that was handed over and is not in the user's mailbox comes before
\* those that are.
LEMMA AnsweredWasTaken ==
    ASSUME NEW s \in Seq(Requests), NEW n, Leads(s, n),
           NEW i \in 1..Len(s), s[i].type = "pending",
           NEW asked \in Seq(Asks), Awaits(s, n, asked),
           s[i].id \notin {r.id : r \in ToSet(asked)}
    PROVE  i \in 1..n /\ i <= n - Len(asked)
<1>1. i \in 1..n /\ n \in Nat
    <2>1. Len(s) \in Nat /\ n \in 0..Len(s) /\ n \in Nat
        BY RequestFacts
    <2>2. i <= n
        BY DEF Leads
    <2> QED
        BY <2>1, <2>2
<1>2. i <= n - Len(asked)
    <2> SUFFICES ASSUME i > n - Len(asked) PROVE FALSE
        BY <1>1, LenProperties
    <2>1. Len(asked) <= n
        BY DEF Awaits
    <2> DEFINE k == i - (n - Len(asked))
    <2>2. k \in 1..Len(asked) /\ (n - Len(asked)) + k = i
        BY <1>1, <2>1, AwaitedIndices
    <2> HIDE DEF k
    <2>3. s[i].id = asked[k].id
        BY <2>2 DEF Awaits
    <2>4. asked[k] \in ToSet(asked)
        BY <2>2, LenProperties DEF ToSet
    <2> QED
        BY <2>3, <2>4
<1> QED
    BY <1>1, <1>2

\* In t the i-th of the requests has one answer more than in s.
Gives(s, t, i, body) ==
    /\ Len(t) = Len(s)
    /\ t[i].answers = Append(s[i].answers, body)
    /\ \A j \in 1..Len(s) : j # i => t[j] = s[j]

\* The user answers one of the requests that it has taken.
LEMMA GiveAnswer ==
    ASSUME NEW s \in Seq(Requests), NEW n, Leads(s, n), Distinct(s),
           NEW i \in 1..Len(s), s[i].type = "pending", NEW body \in Bodies,
           NEW asked \in Seq(Asks), Awaits(s, n, asked),
           s[i].id \notin {r.id : r \in ToSet(asked)}
    PROVE  LET t == [s EXCEPT ![i].answers = Append(@, body)] IN
           /\ i \in 1..n /\ i <= n - Len(asked)
           /\ t \in Seq(Requests) /\ Len(t) = Len(s)
           /\ Leads(t, n) /\ Distinct(t)
           /\ Gives(s, t, i, body)
           /\ Awaits(t, n, asked)
<1> DEFINE r == Pending(s[i].id, Append(s[i].answers, body))
           t == [s EXCEPT ![i] = r]
<1>1. Len(s) \in Nat /\ n \in 0..Len(s) /\ n \in Nat /\ i \in 1..n
    <2>1. Len(s) \in Nat /\ n \in 0..Len(s) /\ n \in Nat
        BY RequestFacts
    <2>2. i <= n
        BY DEF Leads
    <2> QED
        BY <2>1, <2>2
<1>2. /\ s[i].id \in Nat /\ s[i].answers \in Seq(Bodies)
      /\ s[i] = Pending(s[i].id, s[i].answers)
    BY <1>1, RequestFacts
<1>3. r \in Requests /\ r.type = "pending" /\ r.id = s[i].id
      /\ r.answers = Append(s[i].answers, body)
    <2>1. Append(s[i].answers, body) \in Seq(Bodies)
        BY <1>2, AppendProperties
    <2> QED
        BY <2>1, <1>2 DEF Pending, PendingOnes, Requests
<1>4. t = [s EXCEPT ![i].answers = Append(@, body)]
    <2>1. [s[i] EXCEPT !.answers = Append(@, body)] = r
        <3> DEFINE id == s[i].id
                   answers == s[i].answers
        <3>1. s[i] = Pending(id, answers)
            BY <1>2
        <3> HIDE DEF id, answers
        <3>2. [Pending(id, answers) EXCEPT !.answers = Append(@, body)]
                  = Pending(id, Append(answers, body))
            <4>1. Pending(id, answers).answers = answers
                BY DEF Pending
            <4>2. \A x : [Pending(id, answers) EXCEPT !.answers = x] = Pending(id, x)
                BY DEF Pending
            <4> QED
                BY <4>1, <4>2
        <3> QED
            BY <3>1, <3>2 DEF id, answers
    <2> QED
        BY <2>1
<1> HIDE DEF r
<1>5. /\ t \in Seq(Requests) /\ Len(t) = Len(s) /\ t[i] = r
      /\ \A j \in 1..Len(s) : j # i => t[j] = s[j]
    BY <1>3, ExceptSeq
<1> HIDE DEF t
<1>6. Leads(t, n)
    BY <1>1, <1>3, <1>5 DEF Leads
<1>7. Distinct(t)
    <2>1. \A j \in 1..Len(s) : t[j].id = s[j].id
        BY <1>3, <1>5
    <2> QED
        BY <2>1, <1>5 DEF Distinct
<1>8. i <= n - Len(asked)
    BY AnsweredWasTaken
<1>9. Awaits(t, n, asked)
    <2>1. Len(asked) <= n
        BY DEF Awaits
    <2>2. ASSUME NEW k \in 1..Len(asked)
          PROVE  t[(n - Len(asked)) + k] = s[(n - Len(asked)) + k]
        <3>1. (n - Len(asked)) + k \in 1..n /\ (n - Len(asked)) + k > n - Len(asked)
            BY <1>1, <2>1, AwaitedIndices
        <3>2. (n - Len(asked)) + k \in 1..Len(s) /\ (n - Len(asked)) + k # i
            BY <3>1, <1>1, <1>8
        <3> QED
            BY <3>2, <1>5
    <2> QED
        BY <2>1, <2>2 DEF Awaits
<1>10. Gives(s, t, i, body)
    BY <1>3, <1>5 DEF Gives
<1> QED
    BY <1>1, <1>4, <1>5, <1>6, <1>7, <1>8, <1>9, <1>10, Zenon

\* The first request goes when it has been answered.
LEMMA TakeAnswer ==
    ASSUME NEW s \in Seq(Requests), NEW n, Leads(s, n), Distinct(s), s # <<>>,
           Head(s).type = "pending", Head(s).answers # <<>>
    PROVE  /\ n \in 1..Len(s) /\ Head(s) = s[1]
           /\ Head(s).answers \in Seq(Bodies) /\ Head(Head(s).answers) \in Bodies
           /\ Tail(s) \in Seq(Requests) /\ Len(Tail(s)) = Len(s) - 1
           /\ \A i \in 1..(Len(s) - 1) : Tail(s)[i] = s[i + 1]
           /\ Leads(Tail(s), n - 1) /\ Distinct(Tail(s))
           /\ \A asked \in Seq(Asks) :
                 Awaits(s, n, asked) => Len(asked) < n /\ Awaits(Tail(s), n - 1, asked)
<1> DEFINE t == Tail(s)
<1>1. /\ Len(s) \in Nat \ {0} /\ Head(s) = s[1]
      /\ t \in Seq(Requests) /\ Len(t) = Len(s) - 1
      /\ \A i \in 1..(Len(s) - 1) : t[i] = s[i + 1]
    BY HeadTailProperties
<1>2. n \in 1..Len(s) /\ n \in Nat
    <2>1. n \in 0..Len(s) /\ 1 \in 1..Len(s)
        BY <1>1 DEF Leads
    <2>2. 1 <= n
        BY <2>1, <1>1 DEF Leads
    <2> QED
        BY <2>1, <2>2
<1>3. Head(s).answers \in Seq(Bodies)
    <2>1. 1 \in 1..n
        BY <1>2
    <2> QED
        BY <2>1, <1>1, RequestFacts
<1>4. Head(Head(s).answers) \in Bodies
    BY <1>3, HeadTailProperties
<1> HIDE DEF t
<1>5. Leads(t, n - 1)
    <2>1. ASSUME NEW i \in 1..Len(t)
          PROVE  t[i].type = IF i <= n - 1 THEN "pending" ELSE "new"
        <3>1. i + 1 \in 1..Len(s) /\ i \in 1..(Len(s) - 1) /\ (i <= n - 1 <=> i + 1 <= n)
            BY <1>1, <1>2
        <3>2. s[i + 1].type = IF i + 1 <= n THEN "pending" ELSE "new"
            BY <3>1 DEF Leads
        <3> QED
            BY <3>1, <3>2, <1>1
    <2>2. n - 1 \in 0..Len(t)
        BY <1>1, <1>2
    <2> QED
        BY <2>1, <2>2 DEF Leads
<1>6. Distinct(t)
    <2> SUFFICES ASSUME NEW i \in 1..Len(t), NEW j \in 1..Len(t), t[i].id = t[j].id
                 PROVE  i = j
        BY DEF Distinct
    <2>1. /\ i + 1 \in 1..Len(s) /\ j + 1 \in 1..Len(s) /\ (i + 1 = j + 1 => i = j)
          /\ t[i] = s[i + 1] /\ t[j] = s[j + 1]
        BY <1>1
    <2> QED
        BY <2>1 DEF Distinct
<1>7. ASSUME NEW asked \in Seq(Asks), Awaits(s, n, asked)
      PROVE  Len(asked) < n /\ Awaits(t, n - 1, asked)
    <2>1. Len(asked) \in Nat /\ Len(asked) <= n
        BY <1>7, LenProperties DEF Awaits
    <2>2. Len(asked) # n
        <3> SUFFICES ASSUME Len(asked) = n PROVE FALSE
            OBVIOUS
        <3>1. 1 \in 1..Len(asked) /\ (n - Len(asked)) + 1 = 1
            BY <1>2
        <3>2. s[(n - Len(asked)) + 1].answers = <<>>
            BY <3>1, <1>7 DEF Awaits
        <3> QED
            BY <3>1, <3>2, <1>1
    <2>3. Len(asked) < n /\ Len(asked) <= n - 1
        BY <1>2, <2>1, <2>2
    <2>4. ASSUME NEW k \in 1..Len(asked)
          PROVE  t[((n - 1) - Len(asked)) + k] = s[(n - Len(asked)) + k]
        <3>1. /\ ((n - 1) - Len(asked)) + k \in 1..(Len(s) - 1)
              /\ (((n - 1) - Len(asked)) + k) + 1 = (n - Len(asked)) + k
            BY <1>1, <1>2, <2>1, <2>3
        <3> QED
            BY <3>1, <1>1
    <2>5. Awaits(t, n - 1, asked)
        BY <2>3, <2>4, <1>7 DEF Awaits
    <2> QED
        BY <2>3, <2>5
<1> QED
    BY <1>1, <1>2, <1>3, <1>4, <1>5, <1>6, <1>7 DEF t

\* The user takes the first of those that it was given, or leaves.
LEMMA TakeRequest ==
    ASSUME NEW s, NEW n \in Nat, NEW asked \in Seq(Asks), Awaits(s, n, asked)
    PROVE  /\ Awaits(s, n, <<>>)
           /\ asked # <<>> => Awaits(s, n, Tail(asked))
<1>1. Len(asked) \in Nat /\ Len(asked) <= n
    BY LenProperties DEF Awaits
<1>2. Awaits(s, n, <<>>)
    <2>1. Len(<<>>) = 0 /\ 1..0 = {}
        OBVIOUS
    <2> QED
        BY <2>1 DEF Awaits
<1>3. ASSUME asked # <<>>
      PROVE  Awaits(s, n, Tail(asked))
    <2> DEFINE t == Tail(asked)
    <2>1. /\ Len(asked) \in Nat \ {0} /\ Len(t) = Len(asked) - 1
          /\ \A k \in 1..(Len(asked) - 1) : t[k] = asked[k + 1]
        BY <1>3, HeadTailProperties
    <2> HIDE DEF t
    <2>2. ASSUME NEW k \in 1..Len(t)
          PROVE  s[(n - Len(t)) + k].id = t[k].id /\ s[(n - Len(t)) + k].answers = <<>>
        <3>1. k + 1 \in 1..Len(asked) /\ (n - Len(asked)) + (k + 1) = (n - Len(t)) + k
            BY <1>1, <2>1
        <3>2. /\ s[(n - Len(asked)) + (k + 1)].id = asked[k + 1].id
              /\ s[(n - Len(asked)) + (k + 1)].answers = <<>>
            BY <3>1 DEF Awaits
        <3> QED
            BY <3>1, <3>2, <2>1
    <2>3. Len(t) <= n
        BY <1>1, <2>1
    <2> QED
        BY <2>2, <2>3 DEF Awaits, t
<1> QED
    BY <1>2, <1>3

\* The requests that are new are those after the ones handed over.
LEMMA NewOnesAre ==
    ASSUME NEW s \in Seq(Requests), NEW n, Leads(s, n)
    PROVE  LET t == SubSeq(s, n + 1, Len(s)) IN
           /\ t \in Seq(NewOnes) /\ Len(t) = Len(s) - n
           /\ \A i \in 1..(Len(s) - n) : t[i] = s[n + i]
           /\ t = <<>> <=> n = Len(s)
<1> DEFINE t == SubSeq(s, n + 1, Len(s))
<1>1. /\ Len(s) \in Nat /\ n \in 0..Len(s) /\ n \in Nat
      /\ \A i \in n + 1 .. Len(s) : s[i] \in NewOnes
    BY RequestFacts
<1>2. /\ t \in Seq(NewOnes)
      /\ Len(t) = IF n + 1 <= Len(s) THEN Len(s) - (n + 1) + 1 ELSE 0
      /\ \A i \in 1..(Len(s) - (n + 1) + 1) : t[i] = s[(n + 1) + i - 1]
    BY <1>1, SubSeqProperties
<1> HIDE DEF t
<1>3. Len(t) = Len(s) - n /\ Len(s) - (n + 1) + 1 = Len(s) - n
    BY <1>1, <1>2
<1>4. ASSUME NEW i \in 1..(Len(s) - n) PROVE t[i] = s[n + i]
    <2>1. (n + 1) + i - 1 = n + i
        BY <1>1
    <2>2. t[i] = s[(n + 1) + i - 1]
        BY <1>2, <1>3
    <2> QED
        BY <2>1, <2>2
<1>5. t = <<>> <=> n = Len(s)
    BY <1>1, <1>2, <1>3, EmptySeq
<1> QED
    BY <1>2, <1>3, <1>4, <1>5 DEF t

-----------------------------------------------------------------------------
(* Steps that change the list.                                             *)

\* consume has returned a header.
LEMMA HeaderAdds ==
    ASSUME HttpInv, CompleteHeader
    PROVE  \E r \in NewOnes :
              /\ requests' = Append(requests, r)
              /\ \A i \in 1..Len(requests) : requests[i].id # r.id
<1> DEFINE r == New(FreshId, TakeHeader(parser), SubSeq(rest, 1, scanned + 1))
<1>1. FreshId \in Nat /\ \A i \in 1..Len(requests) : requests[i].id # FreshId
    BY FreshIsFresh DEF HttpInv, Types
<1>2. TakeHeader(parser) \in Headers
    BY DEF HttpInv, Types, Headers
<1>3. SubSeq(rest, 1, scanned + 1) \in Seq(Bytes)
    <2>1. /\ rest \in Seq(Bytes) /\ scanned \in 0..Len(rest) /\ scanned < Len(rest)
          /\ Len(rest) \in Nat
        BY LenProperties DEF HttpInv, Types, Scans, CompleteHeader, Scanning
    <2>2. scanned + 1 \in Int /\ \A i \in 1..(scanned + 1) : rest[i] \in Bytes
        BY <2>1, ElementOfSeq
    <2> QED
        BY <2>2, SubSeqProperties
<1>4. r \in NewOnes /\ r.id = FreshId
    BY <1>1, <1>2, <1>3 DEF New, NewOnes
<1> QED
    BY <1>1, <1>4 DEF CompleteHeader

\* A request is handed to the user.
LEMMA AskHandsOver ==
    ASSUME HttpInv, AskUser, user = "there"
    PROVE  /\ Handed # Len(requests)
           /\ requests' = [requests EXCEPT ![Handed + 1] = Pending(@.id, <<>>)]
           /\ http_events' = Append(http_events, [id     |-> requests[Handed + 1].id,
                                                  header |-> requests[Handed + 1].header])
           /\ Handed + 1 \in 1..Len(requests) /\ requests[Handed + 1] \in NewOnes
           /\ requests[Handed + 1].header \in Headers
<1>1. NewRequests = <<>> <=> Handed = Len(requests)
    BY NewOnesAre DEF HttpInv, Types, InOrder, NewRequests
<1>2. Handed # Len(requests)
    BY <1>1 DEF AskUser
<1>3. Handed + 1 \in 1..Len(requests) /\ requests[Handed + 1] \in NewOnes
    BY <1>2, HandOver DEF HttpInv, Types, InOrder
<1>4. requests[Handed + 1].header \in Headers
    BY <1>3 DEF NewOnes
<1> QED
    BY <1>2, <1>3, <1>4 DEF AskUser

\* Whatever happens to the list, it is in order.
LEMMA StepKeepsOrder ==
    ASSUME HttpInv, [Next]_vars
    PROVE  requests' \in Seq(Requests) /\ http_events' \in Seq(Asks) /\ InOrder'
<1>1. /\ requests \in Seq(Requests) /\ http_events \in Seq(Asks)
      /\ Leads(requests, Handed) /\ Distinct(requests) /\ Handed \in Nat
      /\ Served => Awaits(requests, Handed, http_events)
    BY RequestFacts DEF HttpInv, Types, InOrder
<1>2. ASSUME NEW n, requests' \in Seq(Requests), Leads(requests', n)
      PROVE  Handed' = n
    BY <1>1, <1>2, HandedIs
<1>3. CASE CompleteHeader
    <2>1. PICK r \in NewOnes : /\ requests' = Append(requests, r)
                               /\ \A i \in 1..Len(requests) : requests[i].id # r.id
        BY <1>3, HeaderAdds
    <2>2. UNCHANGED http_events /\ Served
        BY <1>3 DEF CompleteHeader, Scanning, Served, mailboxes
    <2>3. /\ requests' \in Seq(Requests) /\ Leads(requests', Handed) /\ Distinct(requests')
          /\ Awaits(requests', Handed, http_events)
        BY <1>1, <2>1, <2>2, AddRequest
    <2> QED
        BY <1>1, <1>2, <2>2, <2>3 DEF InOrder
<1>4. ASSUME NEW i \in DOMAIN requests, NEW body \in Bodies, UserAnswers(i, body)
      PROVE  requests' \in Seq(Requests) /\ http_events' \in Seq(Asks) /\ InOrder'
    <2>1. i \in 1..Len(requests)
        BY <1>1, LenProperties
    <2>2. /\ requests[i].type = "pending"
          /\ requests[i].id \notin {r.id : r \in ToSet(http_events)}
          /\ requests' = [requests EXCEPT ![i].answers = Append(@, body)]
          /\ UNCHANGED http_events /\ Served
        BY <1>4 DEF UserAnswers, Served
    <2>3. /\ requests' \in Seq(Requests) /\ Leads(requests', Handed) /\ Distinct(requests')
          /\ Awaits(requests', Handed, http_events)
        BY <1>1, <2>1, <2>2, GiveAnswer
    <2> QED
        BY <1>1, <1>2, <2>2, <2>3 DEF InOrder
<1>5. CASE AskUser /\ user = "there"
    <2>1. /\ Handed # Len(requests)
          /\ requests' = [requests EXCEPT ![Handed + 1] = Pending(@.id, <<>>)]
          /\ http_events' = Append(http_events, [id     |-> requests[Handed + 1].id,
                                                 header |-> requests[Handed + 1].header])
          /\ Handed + 1 \in 1..Len(requests) /\ requests[Handed + 1].header \in Headers
        BY <1>5, AskHandsOver
    <2>2. Served
        BY <1>5 DEF AskUser, Served
    <2>3. /\ requests' \in Seq(Requests) /\ Leads(requests', Handed + 1) /\ Distinct(requests')
          /\ Awaits(requests', Handed + 1, http_events')
        BY <1>1, <2>1, <2>2, HandOver
    <2>4. http_events' \in Seq(Asks)
        <3>1. requests[Handed + 1].id \in Nat
            BY <1>1, <2>1, RequestFacts
        <3>2. [id |-> requests[Handed + 1].id, header |-> requests[Handed + 1].header] \in Asks
            BY <2>1, <3>1 DEF Asks
        <3> QED
            BY <1>1, <2>1, <3>2, AppendProperties
    <2> QED
        BY <1>2, <2>3, <2>4 DEF InOrder
<1>6. CASE Resolve
    <2>1. /\ requests # <<>> /\ Head(requests).type = "pending" /\ Head(requests).answers # <<>>
          /\ requests' = Tail(requests) /\ UNCHANGED http_events /\ Served
        BY <1>6 DEF Resolve, HeadIsAnswered, Served
    <2>2. /\ requests' \in Seq(Requests) /\ Leads(requests', Handed - 1) /\ Distinct(requests')
          /\ Awaits(requests', Handed - 1, http_events)
        BY <1>1, <2>1, TakeAnswer
    <2> QED
        BY <1>1, <1>2, <2>1, <2>2 DEF InOrder
<1>7. CASE Stop
    <2>1. requests' = <<>> /\ UNCHANGED http_events /\ ~Served'
        BY <1>7 DEF Stop, Served
    <2>2. <<>> \in Seq(Requests) /\ Leads(<<>>, 0) /\ Distinct(<<>>)
        BY DEF Leads, Distinct
    <2> QED
        BY <1>1, <1>2, <2>1, <2>2 DEF InOrder
<1>8. CASE UserTakes \/ UserLeaves
    <2>1. /\ UNCHANGED <<requests, pc>>
          /\ \/ http_events' = http_events
             \/ http_events # <<>> /\ http_events' = Tail(http_events)
        BY <1>8 DEF UserTakes, UserLeaves, service, mailboxes
    <2>2. http_events' \in Seq(Asks)
        BY <1>1, <2>1, HeadTailProperties, EmptySeq
    <2>3. Served' => Awaits(requests, Handed, http_events')
        <3>1. Served' <=> Served
            BY <2>1 DEF Served
        <3> QED
            BY <1>1, <2>1, <3>1, TakeRequest
    <2> QED
        BY <1>1, <1>2, <2>1, <2>2, <2>3 DEF InOrder
<1>9. ASSUME UNCHANGED <<requests, http_events>>, Served' => Served
      PROVE  requests' \in Seq(Requests) /\ http_events' \in Seq(Asks) /\ InOrder'
    BY <1>1, <1>2, <1>9 DEF InOrder
<1>10. CASE \/ StreamReceives \/ StreamEnds \/ StreamTakes \/ ListenerCloses \/ UNCHANGED vars
    <2>1. UNCHANGED <<requests, http_events, pc>>
        BY <1>10 DEF StreamReceives, StreamEnds, StreamTakes, ListenerCloses, StreamEvent,
           service, mailboxes, vars
    <2> QED
        BY <1>9, <2>1 DEF Served
<1>11. CASE \/ StartHandle \/ ReceiveTcp \/ ConsumeNext \/ ConsumeReturnsNone \/ EndTcp
            \/ HandleClose \/ EndActions \/ EndAsk \/ EndHandle
    <2>1. UNCHANGED <<requests, http_events>> /\ Served
        BY <1>11 DEF StartHandle, ReceiveTcp, ConsumeNext, ConsumeReturnsNone, EndTcp,
           HandleClose, EndActions, EndAsk, EndHandle, Scanning, Served, mailboxes
    <2> QED
        BY <1>9, <2>1
<1>12. CASE AskUser /\ user # "there"
    <2>1. UNCHANGED <<requests, http_events>> /\ Served
        BY <1>12 DEF AskUser, Served
    <2> QED
        BY <1>9, <2>1
<1> QED
    BY <1>3, <1>4, <1>5, <1>6, <1>7, <1>8, <1>10, <1>11, <1>12 DEF Next, HandlerStep

-----------------------------------------------------------------------------
(* The inductive invariant.                                                *)

\* The mailbox of the stream's events.
LEMMA EventsReceived ==
    ASSUME HttpInv
    PROVE  /\ Closed \in Events
           /\ \A segment \in FirstSegments \cup Segments : Recv(segment) \in Events
           /\ \A event \in Events : Append(tcp_events, event) \in Seq(Events)
           /\ tcp_events # <<>> =>
                 /\ Tail(tcp_events) \in Seq(Events)
                 /\ Head(tcp_events) # Closed =>
                       /\ Head(tcp_events).data \in Seq(Bytes)
                       /\ Head(tcp_events).data # <<>>
<1>1. tcp_events \in Seq(Events)
    BY DEF HttpInv, Types
<1>2. \A segment \in FirstSegments \cup Segments : segment \in Seq(Bytes) \ {<<>>}
    BY ConstantsAssumption
<1>3. ASSUME tcp_events # <<>>, Head(tcp_events) # Closed
      PROVE  Head(tcp_events).data \in Seq(Bytes) /\ Head(tcp_events).data # <<>>
    <2>1. PICK s \in Seq(Bytes) \ {<<>>} : Head(tcp_events) = Recv(s)
        BY <1>1, <1>3, HeadTailProperties DEF Events
    <2>2. Head(tcp_events).data = s
        BY <2>1 DEF Recv
    <2> QED
        BY <2>2
<1> QED
    BY <1>1, <1>2, <1>3, HeadTailProperties, AppendProperties DEF Events

\* The parser, the segment that it scans, and what comes after it.
LEMMA StepKeepsParser ==
    ASSUME HttpInv, [Next]_vars
    PROVE  /\ parser' \in Parsers /\ rest' \in Seq(Bytes)
           /\ Scans' /\ Fits(parser)'
<1>1. /\ parser \in Parsers /\ rest \in Seq(Bytes) /\ Fits(parser)
      /\ rest # <<>> <=> pc = "consume"
      /\ scanned \in 0..Len(rest) /\ Len(rest) \in Nat
    BY LenProperties DEF HttpInv, Types, Scans
<1>2. CASE ReceiveTcp
    <2>1. CASE Head(tcp_events) = Closed
        BY <1>1, <1>2, <2>1 DEF ReceiveTcp, Scans, Fits
    <2>2. CASE Head(tcp_events) # Closed
        <3>1. /\ rest' \in Seq(Bytes) /\ rest' # <<>> /\ pc' = "consume"
              /\ UNCHANGED <<parser, scanned>> /\ pc = "tcp"
            BY <1>2, <2>2, EventsReceived DEF ReceiveTcp
        <3>2. rest = <<>> /\ Len(<<>>) = 0
            BY <1>1, <3>1
        <3>3. scanned = 0 /\ 0 \in 0..Len(rest')
            BY <1>1, <3>1, <3>2, LenProperties
        <3> QED
            BY <1>1, <3>1, <3>3 DEF Scans, Fits
    <2> QED
        BY <2>1, <2>2
<1>3. CASE ConsumeNext
    <2>1. /\ scanned < Len(rest) /\ scanned + 1 \in 1..Len(rest)
          /\ parser' = ConsumeByte(parser, Byte) /\ scanned' = scanned + 1
          /\ UNCHANGED <<pc, rest>>
        BY <1>1, <1>3 DEF ConsumeNext, Scanning
    <2>2. Byte \in Bytes
        BY <1>1, <2>1, ElementOfSeq DEF Byte
    <2>3. parser' \in Parsers /\ Fits(parser')
        BY <1>1, <2>1, <2>2, ConsumeByteFits
    <2> QED
        BY <1>1, <2>1, <2>3 DEF Scans, Fits
<1>4. CASE CompleteHeader
    <2>1. /\ rest' = SubSeq(rest, scanned + 2, Len(rest)) /\ parser' = Clean /\ scanned' = 0
          /\ pc' = IF rest' = <<>> THEN "tcp" ELSE "consume"
        BY <1>4 DEF CompleteHeader
    <2>2. rest' \in Seq(Bytes)
        <3>1. /\ scanned + 2 \in Int /\ Len(rest) \in Int
              /\ \A i \in scanned + 2 .. Len(rest) : i \in 1..Len(rest)
            BY <1>1
        <3>2. \A i \in scanned + 2 .. Len(rest) : rest[i] \in Bytes
            BY <1>1, <3>1, ElementOfSeq
        <3> QED
            BY <2>1, <3>1, <3>2, SubSeqProperties
    <2>3. 0 \in 0..Len(rest')
        BY <2>2, LenProperties
    <2>4. parser' \in Parsers /\ Fits(parser')
        BY <2>1, CleanFits
    <2> QED
        BY <2>1, <2>2, <2>3, <2>4 DEF Scans, Fits
<1>5. CASE ConsumeReturnsNone
    <2>1. scanned' = 0 /\ UNCHANGED <<pc, parser, rest>> /\ 0 \in 0..Len(rest)
        BY <1>1, <1>5 DEF ConsumeReturnsNone
    <2> QED
        BY <1>1, <2>1 DEF Scans, Fits
<1>6. ASSUME UNCHANGED <<parser, rest, scanned>>, pc' = "consume" <=> pc = "consume"
      PROVE  /\ parser' \in Parsers /\ rest' \in Seq(Bytes)
             /\ Scans' /\ Fits(parser)'
    BY <1>1, <1>6 DEF Scans, Fits
<1>7. CASE \/ StreamReceives \/ StreamEnds \/ StreamTakes
           \/ ListenerCloses \/ UserTakes \/ UserLeaves \/ UNCHANGED vars
           \/ \E i \in DOMAIN requests, body \in Bodies : UserAnswers(i, body)
    <2>1. UNCHANGED <<parser, rest, scanned, pc>>
        BY <1>7 DEF StreamReceives, StreamEnds, StreamTakes, ListenerCloses, StreamEvent,
           UserTakes, UserLeaves, UserAnswers, vars, service, received
    <2> QED
        BY <1>6, <2>1
<1>8. CASE \/ StartHandle \/ EndTcp \/ EndActions \/ EndAsk \/ EndHandle \/ Stop
    <2>1. UNCHANGED <<parser, rest, scanned>> /\ pc' # "consume" /\ pc # "consume"
        BY <1>8 DEF StartHandle, EndTcp, EndActions, EndAsk, EndHandle, Stop, received
    <2> QED
        BY <1>6, <2>1
<1>9. CASE HandleClose \/ AskUser \/ Resolve
    <2>1. UNCHANGED <<parser, rest, scanned>> /\ pc' # "consume" /\ pc # "consume"
        BY <1>9 DEF HandleClose, AskUser, Resolve, SendToStream, received
    <2> QED
        BY <1>6, <2>1
<1> QED
    BY <1>2, <1>3, <1>4, <1>5, <1>7, <1>8, <1>9 DEF Next, HandlerStep

\* The mailboxes and the rest of the state.
LEMMA StepKeepsTypes ==
    ASSUME HttpInv, [Next]_vars
    PROVE  Types'
<1>1. /\ requests' \in Seq(Requests) /\ http_events' \in Seq(Asks)
      /\ parser' \in Parsers /\ rest' \in Seq(Bytes)
    BY StepKeepsOrder, StepKeepsParser
<1>2. /\ tcp_events \in Seq(Events) /\ tcp_actions \in Seq(Bodies \cup {Close})
      /\ stream \in {"open", "ended", "closed"} /\ actions \in Seq({Close})
      /\ listener \in {"there", "gone"} /\ user \in {"there", "gone"}
      /\ signalled \in BOOLEAN /\ closed \in BOOLEAN
      /\ pc \in {"idle", "tcp", "consume", "actions", "ask", "resolve", "stopped", "panicked"}
    BY DEF HttpInv, Types
<1>3. /\ Append(tcp_actions, Close) \in Seq(Bodies \cup {Close})
      /\ Append(actions, Close) \in Seq({Close})
      /\ tcp_actions # <<>> => Tail(tcp_actions) \in Seq(Bodies \cup {Close})
      /\ actions # <<>> => Tail(actions) \in Seq({Close})
      /\ <<>> \in Seq(Bodies \cup {Close}) /\ <<>> \in Seq({Close})
    <2>1. Close \in {Close} /\ Close \in Bodies \cup {Close}
        OBVIOUS
    <2> QED
        BY <1>2, <2>1, AppendProperties, HeadTailProperties, EmptySeq
<1>4. CASE StreamReceives
    <2>1. PICK segment \in FirstSegments \cup Segments : StreamEvent(Recv(segment))
        BY <1>4 DEF StreamReceives
    <2>2. tcp_events' \in Seq(Events)
        BY <2>1, EventsReceived DEF StreamEvent
    <2>3. signalled' = TRUE /\ UNCHANGED <<tcp_actions, stream, actions, listener, user, pc, closed>>
        BY <1>4, <2>1 DEF StreamReceives, StreamEvent, service
    <2> QED
        BY <1>1, <1>2, <2>2, <2>3 DEF Types
<1>5. CASE StreamEnds
    <2>1. tcp_events' \in Seq(Events)
        BY <1>5, EventsReceived DEF StreamEnds, StreamEvent
    <2>2. /\ signalled' = TRUE /\ stream' = "ended"
          /\ UNCHANGED <<tcp_actions, actions, listener, user, pc, closed>>
        BY <1>5 DEF StreamEnds, StreamEvent, service
    <2> QED
        BY <1>1, <1>2, <2>1, <2>2 DEF Types
<1>6. CASE StreamTakes
    <2>1. /\ stream' \in {stream, "closed"} /\ tcp_actions' \in Seq(Bodies \cup {Close})
          /\ UNCHANGED <<tcp_events, actions, listener, user, signalled, pc, closed>>
        BY <1>3, <1>6 DEF StreamTakes, service
    <2> QED
        BY <1>1, <1>2, <2>1 DEF Types
<1>7. CASE \/ ListenerCloses \/ UserTakes \/ UserLeaves \/ StartHandle \/ UNCHANGED vars
           \/ \E i \in DOMAIN requests, body \in Bodies : UserAnswers(i, body)
    <2>1. /\ actions' \in {actions, Append(actions, Close)} /\ listener' \in {listener, "gone"}
          /\ user' \in {user, "gone"} /\ signalled' \in {signalled, TRUE, FALSE}
          /\ pc' \in {pc, "tcp"} /\ UNCHANGED <<tcp_events, tcp_actions, stream, closed>>
        BY <1>7 DEF ListenerCloses, UserTakes, UserLeaves, StartHandle, UserAnswers,
           vars, service, mailboxes, others
    <2>2. actions' \in Seq({Close})
        BY <1>2, <1>3, <2>1
    <2>3. /\ listener' \in {"there", "gone"} /\ user' \in {"there", "gone"}
          /\ signalled' \in BOOLEAN
          /\ pc' \in {"idle", "tcp", "consume", "actions", "ask", "resolve", "stopped", "panicked"}
        BY <1>2, <2>1
    <2> QED
        BY <1>1, <1>2, <2>1, <2>2, <2>3 DEF Types
<1>8. CASE ReceiveTcp
    <2>1. /\ tcp_events' \in Seq(Events) /\ closed' \in {closed, TRUE}
          /\ pc' \in {pc, "consume"}
        BY <1>8, EventsReceived DEF ReceiveTcp
    <2>2. UNCHANGED <<tcp_actions, stream, actions, listener, user, signalled>>
        BY <1>8 DEF ReceiveTcp
    <2> QED
        BY <1>1, <1>2, <2>1, <2>2 DEF Types
<1>9. CASE ConsumeNext \/ CompleteHeader \/ ConsumeReturnsNone
    <2>1. /\ UNCHANGED <<tcp_events, tcp_actions, stream, actions, listener, user, signalled, closed>>
          /\ pc' \in {pc, "tcp", "consume"}
        BY <1>9 DEF ConsumeNext, CompleteHeader, ConsumeReturnsNone, mailboxes, others
    <2> QED
        BY <1>1, <1>2, <2>1 DEF Types
<1>10. CASE Stop \/ EndTcp \/ EndActions \/ EndAsk \/ EndHandle
    <2>1. /\ tcp_actions' \in {tcp_actions, Append(tcp_actions, Close)}
          /\ actions' \in {actions, <<>>} /\ signalled' \in {signalled, FALSE}
          /\ pc' \in {"stopped", "actions", "ask", "resolve", "idle"}
          /\ UNCHANGED <<tcp_events, stream, listener, user, closed>>
        BY <1>10 DEF Stop, EndTcp, EndActions, EndAsk, EndHandle
    <2> QED
        BY <1>1, <1>2, <1>3, <2>1 DEF Types
<1>11. CASE HandleClose
    <2>1. /\ tcp_actions' \in {tcp_actions, Append(tcp_actions, Close)}
          /\ actions # <<>> /\ actions' = Tail(actions) /\ pc' \in {pc, "panicked"}
          /\ UNCHANGED <<tcp_events, stream, listener, user, signalled, closed>>
        BY <1>11 DEF HandleClose, SendToStream
    <2> QED
        BY <1>1, <1>2, <1>3, <2>1 DEF Types
<1>12. CASE AskUser
    <2>1. /\ pc' \in {pc, "panicked"}
          /\ UNCHANGED <<tcp_events, tcp_actions, stream, actions, listener, user, signalled, closed>>
        BY <1>12 DEF AskUser
    <2> QED
        BY <1>1, <1>2, <2>1 DEF Types
<1>13. CASE Resolve
    <2> DEFINE body == Head(Head(requests).answers)
    <2>1. body \in Bodies
        BY <1>13, TakeAnswer DEF HttpInv, Types, InOrder, Resolve, HeadIsAnswered
    <2>2. Append(tcp_actions, body) \in Seq(Bodies \cup {Close})
        BY <1>2, <2>1, AppendProperties
    <2>3. /\ tcp_actions' \in {tcp_actions, Append(tcp_actions, body)} /\ pc' \in {pc, "panicked"}
          /\ UNCHANGED <<tcp_events, stream, actions, listener, user, signalled, closed>>
        BY <1>13 DEF Resolve, SendToStream
    <2> HIDE DEF body
    <2> QED
        BY <1>1, <1>2, <2>2, <2>3 DEF Types
<1> QED
    BY <1>4, <1>5, <1>6, <1>7, <1>8, <1>9, <1>10, <1>11, <1>12, <1>13 DEF Next, HandlerStep

\* Loops of the handler leave nothing behind, and whoever brings something new
\* when they are over signals.
LEMMA StepKeepsSettled ==
    ASSUME HttpInv, [Next]_vars
    PROVE  Settled'
<1>1. Settled /\ requests \in Seq(Requests) /\ Leads(requests, Handed)
    BY DEF HttpInv, Types, InOrder
<1>2. UNCHANGED requests => Handed' = Handed /\ HeadIsAnswered' = HeadIsAnswered
    BY DEF Handed, HeadIsAnswered
<1>3. CASE StreamReceives \/ StreamEnds \/ ListenerCloses
    <2>1. signalled' = TRUE /\ pc = "idle" /\ UNCHANGED <<pc, requests>>
        BY <1>3 DEF StreamReceives, StreamEnds, StreamEvent, ListenerCloses, service
    <2> QED
        BY <1>1, <1>2, <2>1 DEF Settled
<1>4. ASSUME NEW i \in DOMAIN requests, NEW body \in Bodies, UserAnswers(i, body)
      PROVE  Settled'
    <2>1. /\ requests' = [requests EXCEPT ![i].answers = Append(@, body)]
          /\ signalled' = TRUE /\ pc = "idle" /\ UNCHANGED <<pc, http_events>>
          /\ requests[i].type = "pending" /\ i \in 1..Len(requests)
          /\ requests[i].id \notin {r.id : r \in ToSet(http_events)}
        BY <1>1, <1>4, LenProperties DEF UserAnswers
    <2>2. http_events \in Seq(Asks) /\ Distinct(requests) /\ Awaits(requests, Handed, http_events)
        BY <2>1 DEF HttpInv, Types, InOrder, Served
    <2>3. requests' \in Seq(Requests) /\ Leads(requests', Handed)
        BY <1>1, <2>1, <2>2, GiveAnswer
    <2>4. Len(requests') = Len(requests)
        BY <1>1, <2>1, <2>2, GiveAnswer
    <2>5. Handed' = Handed
        BY <2>3, HandedIs
    <2> QED
        BY <1>1, <2>1, <2>4, <2>5 DEF Settled
<1>5. CASE StreamTakes \/ UserTakes \/ UserLeaves \/ UNCHANGED vars
    <2>1. UNCHANGED <<pc, signalled, tcp_events, actions, requests>>
        BY <1>5 DEF StreamTakes, UserTakes, UserLeaves, vars, service, mailboxes
    <2> QED
        BY <1>1, <1>2, <2>1 DEF Settled
<1>6. CASE \/ StartHandle \/ ReceiveTcp \/ ConsumeNext \/ CompleteHeader
           \/ ConsumeReturnsNone \/ Stop
    <2>1. pc' \in {"tcp", "consume", "stopped"}
        BY <1>6 DEF StartHandle, ReceiveTcp, ConsumeNext, CompleteHeader,
           ConsumeReturnsNone, Stop, Scanning
    <2> QED
        BY <2>1 DEF Settled
<1>7. CASE EndTcp
    BY <1>7 DEF EndTcp, Settled
<1>8. CASE HandleClose
    <2>1. pc = "actions" /\ pc' \in {"actions", "panicked"} /\ UNCHANGED tcp_events
        BY <1>8 DEF HandleClose, SendToStream
    <2> QED
        BY <1>1, <2>1 DEF Settled
<1>9. CASE EndActions
    BY <1>1, <1>9 DEF EndActions, Settled
<1>10. CASE AskUser
    <2>1. pc = "ask" /\ pc' \in {"ask", "panicked"} /\ UNCHANGED <<tcp_events, actions>>
        BY <1>10 DEF AskUser
    <2> QED
        BY <1>1, <2>1 DEF Settled
<1>11. CASE EndAsk
    <2>1. /\ pc = "ask" /\ pc' = "resolve" /\ UNCHANGED <<tcp_events, actions, requests>>
          /\ NewRequests = <<>>
        BY <1>11 DEF EndAsk
    <2>2. Handed = Len(requests)
        BY <1>1, <2>1, NewOnesAre DEF NewRequests
    <2> QED
        BY <1>1, <1>2, <2>1, <2>2 DEF Settled
<1>12. CASE Resolve
    <2>1. /\ pc = "resolve" /\ pc' \in {"resolve", "panicked"} /\ UNCHANGED <<tcp_events, actions>>
          /\ requests # <<>> /\ Head(requests).type = "pending" /\ Head(requests).answers # <<>>
          /\ requests' = Tail(requests)
        BY <1>12 DEF Resolve, SendToStream, HeadIsAnswered
    <2>2. /\ requests' \in Seq(Requests) /\ Leads(requests', Handed - 1)
          /\ Len(requests') = Len(requests) - 1
        BY <1>1, <2>1, TakeAnswer DEF HttpInv, InOrder
    <2>3. Handed' = Handed - 1
        BY <1>1, <2>2, HandedIs
    <2> QED
        BY <1>1, <2>1, <2>2, <2>3 DEF Settled
<1>13. CASE EndHandle
    <2>1. /\ pc = "resolve" /\ pc' = "idle" /\ UNCHANGED <<tcp_events, actions, requests>>
          /\ ~HeadIsAnswered
        BY <1>13 DEF EndHandle
    <2> QED
        BY <1>1, <1>2, <2>1 DEF Settled
<1> QED
    BY <1>3, <1>4, <1>5, <1>6, <1>7, <1>8, <1>9, <1>10, <1>11, <1>12, <1>13 DEF Next, HandlerStep

\* The invariant is inductive.
LEMMA HttpInvariant == Spec => []HttpInv
<1>1. Init => HttpInv
    <2> SUFFICES ASSUME Init PROVE HttpInv
        OBVIOUS
    <2>1. /\ tcp_events = <<>> /\ tcp_actions = <<>> /\ stream = "open" /\ actions = <<>>
          /\ listener = "there" /\ http_events = <<>> /\ user = "there"
          /\ signalled = FALSE /\ pc = "idle" /\ closed = FALSE
          /\ parser = Clean /\ rest = <<>> /\ scanned = 0 /\ requests = <<>>
        BY DEF Init
    <2>2. Types
        BY <2>1, CleanFits, EmptySeq DEF Types
    <2>3. Len(<<>>) = 0 /\ 0 \in 0..0
        OBVIOUS
    <2>4. Scans /\ Fits(parser)
        BY <2>1, <2>3, CleanFits DEF Scans
    <2>5. Leads(requests, 0) /\ Distinct(requests) /\ Awaits(requests, 0, http_events)
        BY <2>1, <2>3 DEF Leads, Distinct, Awaits
    <2>6. Handed = 0
        BY <2>1, <2>5, EmptySeq, HandedIs
    <2>7. InOrder /\ Settled
        BY <2>1, <2>3, <2>5, <2>6 DEF InOrder, Settled, HeadIsAnswered
    <2> QED
        BY <2>2, <2>4, <2>7 DEF HttpInv
<1>2. HttpInv /\ [Next]_vars => HttpInv'
    BY StepKeepsTypes, StepKeepsParser, StepKeepsOrder, StepKeepsSettled DEF HttpInv
<1> QED
    BY <1>1, <1>2, PTL DEF Spec

-----------------------------------------------------------------------------
(* The invariants that the runs check.                                     *)

\* The lengths that the parser has recorded are those of the lines in its data
\* when take_header splits it (parser.rs), bytes are left in a segment exactly
\* while consume is called for it, and requests that were handed over come
\* before those that were not, each with its own mailbox (connection.rs).
THEOREM ConnectionTypeCorrect == Spec => []TypeOK
<1>1. HttpInv => TypeOK
    <2> SUFFICES ASSUME HttpInv PROVE TypeOK
        OBVIOUS
    <2> USE DEF HttpInv, Types
    <2>1. \A event \in ToSet(tcp_events) :
             event = Closed \/ (event = Recv(event.data) /\ event.data \in Seq(Bytes) \ {<<>>})
        <3> SUFFICES ASSUME NEW event \in ToSet(tcp_events), event # Closed
                     PROVE  event = Recv(event.data) /\ event.data \in Seq(Bytes) \ {<<>>}
            OBVIOUS
        <3>1. event \in Events
            BY LenProperties, ElementOfSeq DEF ToSet
        <3>2. PICK s \in Seq(Bytes) \ {<<>>} : event = Recv(s)
            BY <3>1 DEF Events
        <3>3. event.data = s
            BY <3>2 DEF Recv
        <3> QED
            BY <3>2, <3>3
    <2>2. \A i, j \in DOMAIN requests :
             /\ requests[i].id \in Nat
             /\ requests[i].id = requests[j].id => i = j
             /\ i < j /\ requests[i].type = "new" => requests[j].type = "new"
        <3> SUFFICES ASSUME NEW i \in 1..Len(requests), NEW j \in 1..Len(requests)
                     PROVE  /\ requests[i].id \in Nat
                            /\ requests[i].id = requests[j].id => i = j
                            /\ i < j /\ requests[i].type = "new" => requests[j].type = "new"
            BY LenProperties
        <3>1. requests[i].id \in Nat /\ Handed \in Nat
            BY RequestFacts DEF InOrder
        <3>2. requests[i].id = requests[j].id => i = j
            BY DEF InOrder, Distinct
        <3>3. i < j /\ requests[i].type = "new" => requests[j].type = "new"
            BY <3>1 DEF InOrder, Leads
        <3> QED
            BY <3>1, <3>2, <3>3
    <2> QED
        BY <2>1, <2>2 DEF TypeOK, Scans, Fits
<1> QED
    BY <1>1, HttpInvariant, PTL

\* The handler leaves nothing undone that it will not be called for again
\* (Actor::handle, process_requests): not an event, an action or a new request,
\* nor a response to the request whose turn it is.
THEOREM ConnectionIdleIsSettled == Spec => []IdleIsSettled
<1>1. HttpInv => IdleIsSettled
    <2> SUFFICES ASSUME HttpInv, pc = "idle", ~signalled
                 PROVE  /\ tcp_events = <<>> /\ actions = <<>>
                        /\ NewRequests = <<>> /\ ~HeadIsAnswered
        BY DEF IdleIsSettled
    <2>1. tcp_events = <<>> /\ actions = <<>> /\ Handed = Len(requests) /\ ~HeadIsAnswered
        BY DEF HttpInv, Settled
    <2>2. NewRequests = <<>>
        BY <2>1, NewOnesAre DEF HttpInv, Types, InOrder, NewRequests
    <2> QED
        BY <2>1, <2>2
<1> QED
    BY <1>1, HttpInvariant, PTL

-----------------------------------------------------------------------------
(* What is parsed.                                                         *)

\* A header that waits to be handed over is that of its text.
IsRead(r) ==
    r.type = "new" => IsRequest(SingleCrs(r.text)) /\ IsHeaderOf(r.header, SingleCrs(r.text))

ParseInv ==
    /\ Reads(parser, rest, scanned)
    /\ \A i \in 1..Len(requests) : IsRead(requests[i])

\* The parser after a step.
LEMMA StepReads ==
    ASSUME HttpInv, Reads(parser, rest, scanned), [Next]_vars
    PROVE  Reads(parser', rest', scanned')
<1>1. /\ parser \in Parsers /\ rest \in Seq(Bytes) /\ Fits(parser)
      /\ rest # <<>> <=> pc = "consume"
      /\ scanned \in 0..Len(rest) /\ Len(rest) \in Nat
      /\ rest' \in Seq(Bytes)
    BY StepKeepsParser, LenProperties DEF HttpInv, Types, Scans
<1>2. CASE ReceiveTcp
    <2>1. pc = "tcp" /\ UNCHANGED <<parser, scanned>>
        BY <1>2 DEF ReceiveTcp
    <2>2. rest = <<>> /\ Len(<<>>) = 0
        BY <1>1, <2>1
    <2>3. scanned' = 0
        BY <1>1, <2>1, <2>2
    <2>4. parser' = Clean
        BY <2>1, <2>2 DEF Reads
    <2> QED
        BY <1>1, <2>3, <2>4, ReadAnew
<1>3. CASE ConsumeNext
    <2>1. /\ scanned < Len(rest) /\ scanned \in Nat /\ ~EndsHeader(parser, rest[scanned + 1])
          /\ parser' = ConsumeByte(parser, rest[scanned + 1]) /\ scanned' = scanned + 1
          /\ UNCHANGED rest
        BY <1>1, <1>3 DEF ConsumeNext, Scanning, Byte
    <2>2. Reads(ConsumeByte(parser, rest[scanned + 1]), rest, scanned + 1)
        BY <1>1, <2>1, ReadByte
    <2> QED
        BY <2>1, <2>2
<1>4. CASE CompleteHeader
    <2>1. parser' = Clean /\ scanned' = 0
        BY <1>4 DEF CompleteHeader
    <2> QED
        BY <1>1, <2>1, ReadAnew
<1>5. CASE ConsumeReturnsNone
    <2>1. scanned = Len(rest) /\ scanned' = 0 /\ UNCHANGED <<parser, rest>>
        BY <1>5 DEF ConsumeReturnsNone
    <2> QED
        BY <2>1, ReadAgain
<1>6. CASE \/ StreamReceives \/ StreamEnds \/ StreamTakes
           \/ ListenerCloses \/ UserTakes \/ UserLeaves \/ UNCHANGED vars
           \/ \E i \in DOMAIN requests, body \in Bodies : UserAnswers(i, body)
    <2>1. UNCHANGED <<parser, rest, scanned>>
        BY <1>6 DEF StreamReceives, StreamEnds, StreamTakes, ListenerCloses, StreamEvent,
           UserTakes, UserLeaves, UserAnswers, vars, service, received
    <2> QED
        BY <2>1
<1>7. CASE \/ StartHandle \/ EndTcp \/ EndActions \/ EndAsk \/ EndHandle \/ Stop
           \/ HandleClose \/ AskUser \/ Resolve
    <2>1. UNCHANGED <<parser, rest, scanned>>
        BY <1>7 DEF StartHandle, EndTcp, EndActions, EndAsk, EndHandle, Stop,
           HandleClose, AskUser, Resolve, SendToStream, received
    <2> QED
        BY <2>1
<1> QED
    BY <1>2, <1>3, <1>4, <1>5, <1>6, <1>7 DEF Next, HandlerStep

\* The requests after a step.
LEMMA StepKeepsRead ==
    ASSUME HttpInv, ParseInv, [Next]_vars
    PROVE  \A i \in 1..Len(requests') : IsRead(requests'[i])
<1>1. /\ requests \in Seq(Requests) /\ Leads(requests, Handed) /\ Distinct(requests)
      /\ Handed \in Nat /\ Len(requests) \in Nat
      /\ http_events \in Seq(Asks)
      /\ Served => Awaits(requests, Handed, http_events)
    BY RequestFacts, LenProperties DEF HttpInv, Types, InOrder
<1>2. \A i \in 1..Len(requests) : IsRead(requests[i])
    BY DEF ParseInv
<1>3. CASE CompleteHeader
    <2> DEFINE r == New(FreshId, TakeHeader(parser), SubSeq(rest, 1, scanned + 1))
    <2>1. /\ scanned < Len(rest) /\ EndsHeader(parser, rest[scanned + 1])
          /\ requests' = Append(requests, r)
        BY <1>3 DEF CompleteHeader, Scanning, Byte
    <2>2. IsRead(r)
        <3>1. parser \in Parsers /\ Fits(parser) /\ rest \in Seq(Bytes) /\ scanned \in Nat
            BY LenProperties DEF HttpInv, Types, Scans
        <3>2. Reads(parser, rest, scanned)
            BY DEF ParseInv
        <3>3. /\ IsRequest(SingleCrs(SubSeq(rest, 1, scanned + 1)))
              /\ IsHeaderOf(TakeHeader(parser), SingleCrs(SubSeq(rest, 1, scanned + 1)))
            BY <2>1, <3>1, <3>2, ReadHeader
        <3>4. r.text = SubSeq(rest, 1, scanned + 1) /\ r.header = TakeHeader(parser)
            BY DEF New
        <3> HIDE DEF r
        <3> QED
            BY <3>3, <3>4 DEF IsRead
    <2>3. PICK x \in NewOnes : requests' = Append(requests, x)
        BY <1>3, HeaderAdds
    <2>4. /\ Len(requests') = Len(requests) + 1 /\ requests'[Len(requests) + 1] = r
          /\ \A i \in 1..Len(requests) : requests'[i] = requests[i]
        <3>1. x \in Requests
            BY DEF Requests
        <3>2. /\ Len(requests') = Len(requests) + 1 /\ requests'[Len(requests) + 1] = x
              /\ \A i \in 1..Len(requests) : requests'[i] = requests[i]
            BY <1>1, <2>3, <3>1, AppendProperties
        <3> HIDE DEF r
        <3>3. Append(requests, r)[Len(requests) + 1] = r
            BY <1>1
        <3> QED
            BY <2>1, <3>2, <3>3
    <2> HIDE DEF r
    <2>5. \A i \in 1..Len(requests') : i \in 1..Len(requests) \/ i = Len(requests) + 1
        BY <1>1, <2>4
    <2> QED
        BY <1>2, <2>2, <2>4, <2>5
<1>4. ASSUME NEW i \in DOMAIN requests, NEW body \in Bodies, UserAnswers(i, body)
      PROVE  \A j \in 1..Len(requests') : IsRead(requests'[j])
    <2>1. i \in 1..Len(requests) /\ DOMAIN requests = 1..Len(requests)
        BY <1>1, LenProperties
    <2>2. /\ requests[i].type = "pending"
          /\ requests[i].id \notin {r.id : r \in ToSet(http_events)}
          /\ requests' = [requests EXCEPT ![i].answers = Append(@, body)]
          /\ Served
        BY <1>4 DEF UserAnswers, Served
    <2>3. i \in 1..Handed /\ Len(requests') = Len(requests) /\ Leads(requests', Handed)
        <3>1. i \in 1..Len(requests)
            BY <2>1
        <3>2. Awaits(requests, Handed, http_events)
            BY <1>1, <2>2, Zenon
        <3>3. i \in 1..Handed
            BY <1>1, <2>2, <3>1, <3>2, GiveAnswer
        <3>4. Len(requests') = Len(requests)
            BY <1>1, <2>2, <3>1, <3>2, GiveAnswer
        <3>5. Leads(requests', Handed)
            BY <1>1, <2>2, <3>1, <3>2, GiveAnswer
        <3> QED
            BY <3>3, <3>4, <3>5
    <2>4. requests'[i].type = "pending"
        BY <2>1, <2>3 DEF Leads
    <2>5. \A j \in 1..Len(requests) : j # i => requests'[j] = requests[j]
        BY <2>1, <2>2
    <2> QED
        BY <1>2, <2>3, <2>4, <2>5 DEF IsRead
<1>5. CASE AskUser /\ user = "there"
    <2>1. /\ Handed # Len(requests) /\ Handed + 1 \in 1..Len(requests)
          /\ requests' = [requests EXCEPT ![Handed + 1] = Pending(@.id, <<>>)]
        BY <1>5, AskHandsOver
    <2>2. /\ Len(requests') = Len(requests)
          /\ requests'[Handed + 1] = Pending(requests[Handed + 1].id, <<>>)
          /\ \A i \in 1..Len(requests) : i # Handed + 1 => requests'[i] = requests[i]
        BY <1>1, <2>1, HandOver
    <2>3. requests'[Handed + 1].type = "pending"
        BY <2>2 DEF Pending
    <2> QED
        BY <1>2, <2>2, <2>3 DEF IsRead
<1>6. CASE Resolve
    <2>1. /\ requests # <<>> /\ requests' = Tail(requests)
        BY <1>6 DEF Resolve, HeadIsAnswered
    <2>2. /\ Len(requests') = Len(requests) - 1
          /\ \A i \in 1..(Len(requests) - 1) : requests'[i] = requests[i + 1]
        BY <1>1, <2>1, HeadTailProperties
    <2>3. \A i \in 1..(Len(requests) - 1) : i + 1 \in 1..Len(requests)
        BY <1>1
    <2> QED
        BY <1>2, <2>2, <2>3
<1>7. CASE Stop
    <2>1. Len(requests') = 0
        BY <1>7 DEF Stop
    <2> QED
        BY <2>1
<1>8. CASE \/ StreamReceives \/ StreamEnds \/ StreamTakes
           \/ ListenerCloses \/ UserTakes \/ UserLeaves \/ UNCHANGED vars
    <2>1. UNCHANGED requests
        BY <1>8 DEF StreamReceives, StreamEnds, StreamTakes, ListenerCloses, StreamEvent,
           UserTakes, UserLeaves, vars, service
    <2> QED
        BY <1>2, <2>1
<1>9. CASE \/ StartHandle \/ ReceiveTcp \/ ConsumeNext \/ ConsumeReturnsNone \/ EndTcp
           \/ HandleClose \/ EndActions \/ EndAsk \/ EndHandle
           \/ (AskUser /\ user # "there")
    <2>1. UNCHANGED requests
        BY <1>9 DEF StartHandle, ReceiveTcp, ConsumeNext, ConsumeReturnsNone, EndTcp,
           HandleClose, EndActions, EndAsk, EndHandle, AskUser
    <2> QED
        BY <1>2, <2>1
<1> QED
    BY <1>3, <1>4, <1>5, <1>6, <1>7, <1>8, <1>9 DEF Next, HandlerStep

\* The header that the parser returns (HttpParser::consume, take_header) is that
\* of the text it has taken, whose lines and fields IsRequest and IsHeaderOf
\* find by their positions, and the text is that of one request, if each run of
\* CRs is read as one CR.  This holds
\* although handle_recv calls consume again and again for a segment without the
\* end of a header (connection.rs), as no header is ever found in such a one.
THEOREM ConnectionHeadersAreParsed == Spec => []HeadersAreParsed
<1>1. Init => ParseInv
    <2> SUFFICES ASSUME Init PROVE ParseInv
        OBVIOUS
    <2>1. parser = Clean /\ rest = <<>> /\ scanned = 0 /\ requests = <<>>
        BY DEF Init
    <2>2. Reads(parser, rest, scanned)
        <3>1. <<>> \in Seq(Bytes)
            OBVIOUS
        <3> QED
            BY <2>1, <3>1, ReadAnew
    <2>3. Len(requests) = 0
        BY <2>1
    <2> QED
        BY <2>2, <2>3 DEF ParseInv
<1>2. HttpInv /\ ParseInv /\ [Next]_vars => ParseInv'
    <2> SUFFICES ASSUME HttpInv, ParseInv, [Next]_vars PROVE ParseInv'
        OBVIOUS
    <2>1. Reads(parser', rest', scanned')
        BY StepReads DEF ParseInv
    <2>2. \A i \in 1..Len(requests') : IsRead(requests'[i])
        BY StepKeepsRead
    <2> QED
        BY <2>1, <2>2 DEF ParseInv
<1>3. HttpInv /\ ParseInv => HeadersAreParsed
    <2> SUFFICES ASSUME HttpInv, ParseInv, NEW i \in DOMAIN NewRequests
                 PROVE  /\ IsRequest(SingleCrs(NewRequests[i].text))
                        /\ IsHeaderOf(NewRequests[i].header, SingleCrs(NewRequests[i].text))
        BY DEF HeadersAreParsed
    <2>1. requests \in Seq(Requests) /\ Leads(requests, Handed)
        BY DEF HttpInv, Types, InOrder
    <2>2. /\ NewRequests \in Seq(NewOnes) /\ Len(NewRequests) = Len(requests) - Handed
          /\ \A j \in 1..(Len(requests) - Handed) : NewRequests[j] = requests[Handed + j]
        BY <2>1, NewOnesAre DEF NewRequests
    <2>3. /\ i \in 1..(Len(requests) - Handed) /\ NewRequests[i] \in NewOnes
        BY <2>2, LenProperties, ElementOfSeq
    <2>4. Handed + i \in 1..Len(requests)
        <3>1. Len(requests) \in Nat /\ Handed \in Nat
            BY <2>1, RequestFacts
        <3> QED
            BY <2>3, <3>1
    <2>5. NewRequests[i] = requests[Handed + i]
        BY <2>2, <2>3
    <2>6. IsRead(NewRequests[i])
        BY <2>4, <2>5 DEF ParseInv
    <2>7. NewRequests[i].type = "new"
        BY <2>3 DEF NewOnes
    <2> QED
        BY <2>6, <2>7 DEF IsRead
<1> QED
    BY <1>1, <1>2, <1>3, HttpInvariant, PTL DEF Spec

-----------------------------------------------------------------------------
(* What HttpExchange sees of the state.                                    *)

HeadersOf(asks) == [i \in DOMAIN asks |-> asks[i].header]
NewHeaders(s, n) == HeadersOf(SubSeq(s, n + 1, Len(s)))
Answers(s, n) ==
    [i \in 1..n |-> IF s[i].answers = <<>> THEN None ELSE Head(s[i].answers)]
Sent(acts) ==
    FlattenSeq([i \in DOMAIN acts |-> IF acts[i] = Close THEN <<>> ELSE <<acts[i]>>])

\* The mapping in these terms, before a step and after it.
LEMMA Mapped ==
    /\ Asked = HeadersOf(http_events) /\ Responses = Sent(tcp_actions)
    /\ Unasked = IF Served THEN NewHeaders(requests, Handed) ELSE <<>>
    /\ Unanswered = IF Served THEN Answers(requests, Handed) ELSE <<>>
    /\ Asked' = HeadersOf(http_events') /\ Responses' = Sent(tcp_actions')
    /\ Unasked' = IF Served' THEN NewHeaders(requests', Handed') ELSE <<>>
    /\ Unanswered' = IF Served' THEN Answers(requests', Handed') ELSE <<>>
BY DEF Asked, Responses, Unasked, Unanswered, NewRequests, HeadersOf, NewHeaders, Answers, Sent

\* A request more in the mailbox of the user, or one less.
LEMMA HeadersInOrder ==
    /\ HeadersOf(<<>>) = <<>>
    /\ \A asks \in Seq(Asks) :
          /\ Len(HeadersOf(asks)) = Len(asks)
          /\ \A e \in Asks : HeadersOf(Append(asks, e)) = Append(HeadersOf(asks), e.header)
          /\ asks # <<>> => /\ HeadersOf(asks) # <<>>
                            /\ HeadersOf(Tail(asks)) = Tail(HeadersOf(asks))
<1> DEFINE f == [e \in Asks |-> e.header]
<1>1. ASSUME NEW asks \in Seq(Asks) PROVE HeadersOf(asks) = Each(f, asks)
    <2>1. \A i \in DOMAIN asks : f[asks[i]] = asks[i].header
        BY LenProperties, ElementOfSeq
    <2> HIDE DEF f
    <2> QED
        BY <2>1 DEF HeadersOf, Each
<1>2. \A e \in Asks : f[e] = e.header
    OBVIOUS
<1> HIDE DEF f
<1>3. ASSUME NEW asks \in Seq(Asks)
      PROVE  Len(HeadersOf(asks)) = Len(asks)
    BY <1>1, EachLen
<1>4. ASSUME NEW asks \in Seq(Asks), NEW e \in Asks
      PROVE  HeadersOf(Append(asks, e)) = Append(HeadersOf(asks), e.header)
    <2>1. Append(asks, e) \in Seq(Asks)
        BY AppendProperties
    <2>2. Each(f, Append(asks, e)) = Append(Each(f, asks), f[e])
        BY EachAppend
    <2> QED
        BY <1>1, <1>2, <2>1, <2>2
<1>5. ASSUME NEW asks \in Seq(Asks), asks # <<>>
      PROVE  HeadersOf(asks) # <<>> /\ HeadersOf(Tail(asks)) = Tail(HeadersOf(asks))
    <2>1. Tail(asks) \in Seq(Asks)
        BY <1>5, HeadTailProperties
    <2>2. Each(f, asks) # <<>> /\ Tail(Each(f, asks)) = Each(f, Tail(asks))
        BY <1>5, EachHead
    <2> QED
        BY <1>1, <2>1, <2>2
<1>6. HeadersOf(<<>>) = <<>>
    BY DEF HeadersOf
<1> QED
    BY <1>3, <1>4, <1>5, <1>6

\* What is put into the stream's mailbox, and what is taken from it.
LEMMA SentInOrder ==
    /\ Sent(<<>>) = <<>>
    /\ \A acts \in Seq(Bodies \cup {Close}) :
          /\ Sent(Append(acts, Close)) = Sent(acts)
          /\ \A body \in Bodies : Sent(Append(acts, body)) = Append(Sent(acts), body)
          /\ acts # <<>> /\ Head(acts) # Close =>
                Sent(acts) # <<>> /\ Sent(Tail(acts)) = Tail(Sent(acts))
<1> DEFINE S == Bodies \cup {Close}
           f == [x \in S |-> IF x = Close THEN <<>> ELSE <<x>>]
<1>1. f \in [S -> Seq(Bodies)]
    <2>1. \A x \in S : (IF x = Close THEN <<>> ELSE <<x>>) \in Seq(Bodies)
        <3> SUFFICES ASSUME NEW x \in S PROVE (IF x = Close THEN <<>> ELSE <<x>>) \in Seq(Bodies)
            OBVIOUS
        <3>1. <<>> \in Seq(Bodies)
            OBVIOUS
        <3>2. x # Close => <<x>> \in Seq(Bodies)
            OBVIOUS
        <3> QED
            BY <3>1, <3>2
    <2> QED
        BY <2>1
<1>2. /\ f[Close] = <<>>
      /\ \A body \in Bodies : f[body] = <<body>>
    <2>1. Close \notin Bodies
        BY ConstantsAssumption
    <2> QED
        BY <2>1
<1>3. ASSUME NEW acts \in Seq(S) PROVE Sent(acts) = FlattenSeq(Each(f, acts))
    <2>1. \A i \in DOMAIN acts : f[acts[i]] = IF acts[i] = Close THEN <<>> ELSE <<acts[i]>>
        BY LenProperties, ElementOfSeq
    <2> HIDE DEF f
    <2>2. Each(f, acts) = [i \in DOMAIN acts |-> IF acts[i] = Close THEN <<>> ELSE <<acts[i]>>]
        BY <2>1 DEF Each
    <2> QED
        BY <2>2, Zenon DEF Sent
<1> HIDE DEF f, S
<1>4. ASSUME NEW acts \in Seq(S) PROVE Sent(acts) \in Seq(Bodies)
    BY <1>1, <1>3, FlattenEachType
<1>5. <<>> \in Seq(S) /\ Close \in S /\ Bodies \subseteq S
    BY DEF S
<1>6. Sent(<<>>) = <<>>
    BY <1>1, <1>3, <1>5, FlattenEachType
<1>7. ASSUME NEW acts \in Seq(S), NEW x \in S
      PROVE  Sent(Append(acts, x)) = Sent(acts) \o f[x]
    <2>1. Append(acts, x) \in Seq(S)
        BY AppendProperties
    <2>2. FlattenSeq(Each(f, Append(acts, x))) = FlattenSeq(Each(f, acts)) \o f[x]
        BY <1>1, FlattenEachAppend
    <2> QED
        BY <1>3, <2>1, <2>2
<1>8. ASSUME NEW acts \in Seq(S) PROVE Sent(Append(acts, Close)) = Sent(acts)
    <2>1. Sent(acts) \o <<>> = Sent(acts)
        BY <1>4, ConcatEmptySeq
    <2> QED
        BY <1>2, <1>5, <1>7, <2>1
<1>9. ASSUME NEW acts \in Seq(S), NEW body \in Bodies
      PROVE  Sent(Append(acts, body)) = Append(Sent(acts), body)
    <2>1. Append(Sent(acts), body) = Sent(acts) \o <<body>>
        BY <1>4, AppendIsConcat
    <2> QED
        BY <1>2, <1>5, <1>7, <2>1
<1>10. ASSUME NEW acts \in Seq(S), acts # <<>>, Head(acts) # Close
       PROVE  Sent(acts) # <<>> /\ Sent(Tail(acts)) = Tail(Sent(acts))
    <2>1. Head(acts) \in Bodies /\ Tail(acts) \in Seq(S)
        BY <1>10, HeadTailProperties DEF S
    <2>2. Sent(acts) = <<Head(acts)>> \o Sent(Tail(acts))
        <3>1. FlattenSeq(Each(f, acts)) = f[Head(acts)] \o FlattenSeq(Each(f, Tail(acts)))
            BY <1>1, <1>10, FlattenEachHead
        <3> QED
            BY <1>2, <1>3, <2>1, <3>1
    <2> DEFINE x == Head(acts)
               t == Sent(Tail(acts))
    <2>3. x \in Bodies /\ t \in Seq(Bodies)
        BY <1>4, <2>1
    <2> HIDE DEF x, t
    <2>4. <<x>> \o t # <<>> /\ Tail(<<x>> \o t) = t
        BY <2>3, ConcatFront
    <2> QED
        BY <2>2, <2>4 DEF x, t
<1> QED
    BY <1>6, <1>8, <1>9, <1>10 DEF S

\* The headers and the answers, one by one.
LEMMA MappedRequests ==
    ASSUME NEW s \in Seq(Requests), NEW n, Leads(s, n)
    PROVE  /\ NewHeaders(s, n) \in Seq(Headers) /\ Len(NewHeaders(s, n)) = Len(s) - n
           /\ \A i \in 1..(Len(s) - n) : NewHeaders(s, n)[i] = s[n + i].header
           /\ Answers(s, n) \in Seq(Bodies \cup {None}) /\ Len(Answers(s, n)) = n
           /\ \A i \in 1..n : Answers(s, n)[i] = IF s[i].answers = <<>>
                                                 THEN None ELSE Head(s[i].answers)
<1> DEFINE t == SubSeq(s, n + 1, Len(s))
<1>1. /\ Len(s) \in Nat /\ n \in 0..Len(s) /\ n \in Nat
      /\ \A i \in 1..n : s[i].answers \in Seq(Bodies)
    BY RequestFacts
<1>2. /\ t \in Seq(NewOnes) /\ Len(t) = Len(s) - n
      /\ \A i \in 1..(Len(s) - n) : t[i] = s[n + i]
    BY NewOnesAre
<1> HIDE DEF t
<1>3. ASSUME NEW i \in 1..(Len(s) - n) PROVE t[i].header \in Headers
    <2>1. t[i] \in NewOnes
        BY <1>2, ElementOfSeq
    <2> QED
        BY <2>1 DEF NewOnes
<1>4. HeadersOf(t) = [i \in 1..(Len(s) - n) |-> t[i].header]
    BY <1>2, LenProperties DEF HeadersOf
<1>5. Len(s) - n \in Nat
    BY <1>1
<1>6. HeadersOf(t) \in [1..(Len(s) - n) -> Headers]
    BY <1>3, <1>4
<1>7. HeadersOf(t) \in Seq(Headers) /\ Len(HeadersOf(t)) = Len(s) - n
    BY <1>5, <1>6
<1>8. \A i \in 1..(Len(s) - n) : HeadersOf(t)[i] = s[n + i].header
    BY <1>2, <1>4
<1>9. \A i \in 1..n : (IF s[i].answers = <<>> THEN None ELSE Head(s[i].answers))
                          \in Bodies \cup {None}
    BY <1>1, HeadTailProperties
<1>10. Answers(s, n) \in [1..n -> Bodies \cup {None}]
    BY <1>9 DEF Answers
<1>11. Answers(s, n) \in Seq(Bodies \cup {None}) /\ Len(Answers(s, n)) = n
    BY <1>1, <1>10
<1>12. \A i \in 1..n : Answers(s, n)[i] = IF s[i].answers = <<>>
                                          THEN None ELSE Head(s[i].answers)
    BY DEF Answers
<1> QED
    BY <1>7, <1>8, <1>11, <1>12 DEF NewHeaders, t

\* A request is received: one header more, the last.
LEMMA AddIsRequest ==
    ASSUME NEW s \in Seq(Requests), NEW n, Leads(s, n), Distinct(s),
           NEW r \in NewOnes, \A i \in 1..Len(s) : s[i].id # r.id
    PROVE  LET t == Append(s, r) IN
           /\ Len(NewHeaders(t, n)) = Len(NewHeaders(s, n)) + 1
           /\ SubSeq(NewHeaders(t, n), 1, Len(NewHeaders(s, n))) = NewHeaders(s, n)
           /\ Answers(t, n) = Answers(s, n)
<1> DEFINE t == Append(s, r)
           u == NewHeaders(t, n)
           v == NewHeaders(s, n)
<1>1. /\ t \in Seq(Requests) /\ Len(t) = Len(s) + 1 /\ Leads(t, n)
      /\ \A i \in 1..Len(s) : t[i] = s[i]
    BY AddRequest
<1>2. Len(s) \in Nat /\ n \in 0..Len(s) /\ n \in Nat
    BY RequestFacts
<1> HIDE DEF t
<1>3. /\ u \in Seq(Headers) /\ Len(u) = Len(s) + 1 - n
      /\ \A i \in 1..(Len(s) + 1 - n) : u[i] = t[n + i].header
    BY <1>1, MappedRequests
<1>4. /\ v \in Seq(Headers) /\ Len(v) = Len(s) - n
      /\ \A i \in 1..(Len(s) - n) : v[i] = s[n + i].header
    BY MappedRequests
<1> HIDE DEF u, v
<1>5. Len(u) = Len(v) + 1
    BY <1>2, <1>3, <1>4
<1>6. SubSeq(u, 1, Len(v)) = v
    <2> DEFINE w == SubSeq(u, 1, Len(v))
    <2>1. Len(v) \in Nat /\ \A i \in 1..Len(v) : i \in 1..Len(u)
        BY <1>2, <1>4, <1>5
    <2>2. \A i \in 1..Len(v) : u[i] \in Headers
        BY <2>1, <1>3, ElementOfSeq
    <2>3. w \in Seq(Headers) /\ Len(w) = Len(v) /\ \A i \in 1..Len(v) : w[i] = u[i]
        BY <2>1, <2>2, SubSeqProperties
    <2> HIDE DEF w
    <2>4. ASSUME NEW i \in 1..Len(v) PROVE w[i] = v[i]
        <3>1. /\ i \in 1..(Len(s) - n) /\ i \in 1..(Len(s) + 1 - n) /\ n + i \in 1..Len(s)
            BY <1>2, <1>4
        <3>2. u[i] = s[n + i].header
            BY <3>1, <1>1, <1>3
        <3> QED
            BY <3>1, <3>2, <1>4, <2>3
    <2>5. w = v
        BY <1>4, <2>3, <2>4, SeqEqual
    <2> QED
        BY <2>5 DEF w
<1>7. Answers(t, n) = Answers(s, n)
    <2>1. \A i \in 1..n : t[i] = s[i]
        BY <1>1, <1>2
    <2> QED
        BY <2>1 DEF Answers
<1> QED
    BY <1>5, <1>6, <1>7 DEF t, u, v

\* A request is handed over: its header is the first, and there is no answer.
LEMMA HandOverIsAsk ==
    ASSUME NEW s \in Seq(Requests), NEW n, Leads(s, n), Distinct(s), n # Len(s)
    PROVE  LET t == [s EXCEPT ![n + 1] = Pending(@.id, <<>>)] IN
           /\ NewHeaders(s, n) # <<>> /\ Head(NewHeaders(s, n)) = s[n + 1].header
           /\ NewHeaders(t, n + 1) = Tail(NewHeaders(s, n))
           /\ Answers(t, n + 1) = Append(Answers(s, n), None)
<1> DEFINE t == [s EXCEPT ![n + 1] = Pending(@.id, <<>>)]
           u == NewHeaders(t, n + 1)
           v == NewHeaders(s, n)
<1>1. /\ n + 1 \in 1..Len(s) /\ t \in Seq(Requests) /\ Len(t) = Len(s) /\ Leads(t, n + 1)
      /\ t[n + 1] = Pending(s[n + 1].id, <<>>)
      /\ \A i \in 1..Len(s) : i # n + 1 => t[i] = s[i]
    BY HandOver
<1>2. Len(s) \in Nat /\ n \in 0..Len(s) /\ n \in Nat
    BY RequestFacts
<1> HIDE DEF t
<1>3. /\ u \in Seq(Headers) /\ Len(u) = Len(s) - (n + 1)
      /\ \A i \in 1..(Len(s) - (n + 1)) : u[i] = t[(n + 1) + i].header
    BY <1>1, MappedRequests
<1>4. /\ v \in Seq(Headers) /\ Len(v) = Len(s) - n
      /\ \A i \in 1..(Len(s) - n) : v[i] = s[n + i].header
    BY MappedRequests
<1>5. /\ Answers(t, n + 1) \in Seq(Bodies \cup {None}) /\ Len(Answers(t, n + 1)) = n + 1
      /\ \A i \in 1..(n + 1) : Answers(t, n + 1)[i] = IF t[i].answers = <<>>
                                                      THEN None ELSE Head(t[i].answers)
    BY <1>1, MappedRequests
<1>6. /\ Answers(s, n) \in Seq(Bodies \cup {None}) /\ Len(Answers(s, n)) = n
      /\ \A i \in 1..n : Answers(s, n)[i] = IF s[i].answers = <<>>
                                            THEN None ELSE Head(s[i].answers)
    BY MappedRequests
<1> HIDE DEF u, v
<1>7. v # <<>> /\ Head(v) = s[n + 1].header
    <2>1. 1 \in 1..(Len(s) - n) /\ Len(v) # 0
        BY <1>1, <1>2, <1>4
    <2>2. v # <<>>
        BY <2>1, <1>4, EmptySeq
    <2>3. Head(v) = v[1]
        BY <1>4, <2>2
    <2> QED
        BY <2>1, <2>2, <2>3, <1>4
<1>8. u = Tail(v)
    <2> DEFINE w == Tail(v)
    <2>1. /\ w \in Seq(Headers) /\ Len(w) = Len(v) - 1
          /\ \A i \in 1..(Len(v) - 1) : w[i] = v[i + 1]
        BY <1>4, <1>7, HeadTailProperties
    <2> HIDE DEF w
    <2>2. Len(w) = Len(u)
        BY <2>1, <1>2, <1>3, <1>4
    <2>3. ASSUME NEW i \in 1..Len(u) PROVE w[i] = u[i]
        <3>1. /\ i \in 1..(Len(s) - (n + 1)) /\ i \in 1..(Len(v) - 1)
              /\ i + 1 \in 1..(Len(s) - n) /\ n + (i + 1) = (n + 1) + i
              /\ (n + 1) + i \in 1..Len(s) /\ (n + 1) + i # n + 1
            BY <1>1, <1>2, <1>3, <1>4
        <3>2. u[i] = s[(n + 1) + i].header
            BY <3>1, <1>1, <1>3
        <3>3. w[i] = s[n + (i + 1)].header
            BY <3>1, <2>1, <1>4
        <3> QED
            BY <3>1, <3>2, <3>3
    <2>4. w = u
        BY <1>3, <2>1, <2>2, <2>3, SeqEqual
    <2> QED
        BY <2>4 DEF w
<1>9. Answers(t, n + 1) = Append(Answers(s, n), None)
    <2> DEFINE a == Answers(t, n + 1)
               c == Answers(s, n)
               w == Append(c, None)
    <2>1. /\ w \in Seq(Bodies \cup {None}) /\ Len(w) = n + 1 /\ w[n + 1] = None
          /\ \A i \in 1..n : w[i] = c[i]
        BY <1>6, AppendProperties
    <2>2. t[n + 1].answers = <<>>
        BY <1>1 DEF Pending
    <2> HIDE DEF a, c, w
    <2>3. ASSUME NEW i \in 1..(n + 1) PROVE a[i] = w[i]
        <3>1. CASE i = n + 1
            BY <3>1, <2>1, <2>2, <1>5 DEF a
        <3>2. CASE i # n + 1
            <4>1. i \in 1..n /\ i \in 1..Len(s)
                BY <3>2, <1>2
            <4>2. t[i] = s[i]
                BY <4>1, <3>2, <1>1
            <4> QED
                BY <4>1, <4>2, <2>1, <1>5, <1>6 DEF a, c
        <3> QED
            BY <3>1, <3>2
    <2>4. a = w
        BY <2>1, <2>3, <1>5, SeqEqual DEF a
    <2> QED
        BY <2>4 DEF a, c, w
<1> QED
    BY <1>7, <1>8, <1>9 DEF t, u, v

\* The first answer to a request is its response, others are not looked at.
LEMMA GiveIsAnswer ==
    ASSUME NEW s \in Seq(Requests), NEW n, Leads(s, n),
           NEW i \in 1..n, NEW body \in Bodies,
           NEW t \in Seq(Requests), Leads(t, n), Gives(s, t, i, body)
    PROVE  /\ NewHeaders(t, n) = NewHeaders(s, n)
           /\ \/ Answers(t, n) = Answers(s, n)
              \/ /\ Answers(s, n)[i] = None
                 /\ Answers(t, n) = [Answers(s, n) EXCEPT ![i] = body]
<1> DEFINE a == Answers(t, n)
           c == Answers(s, n)
<1>1. /\ i \in 1..n
      /\ t \in Seq(Requests) /\ Len(t) = Len(s) /\ Leads(t, n)
      /\ t[i].answers = Append(s[i].answers, body)
      /\ \A j \in 1..Len(s) : j # i => t[j] = s[j]
    BY DEF Gives
<1>2. Len(s) \in Nat /\ n \in 0..Len(s) /\ n \in Nat /\ s[i].answers \in Seq(Bodies)
    BY <1>1, RequestFacts
<1>3. /\ NewHeaders(t, n) \in Seq(Headers) /\ Len(NewHeaders(t, n)) = Len(s) - n
      /\ \A j \in 1..(Len(s) - n) : NewHeaders(t, n)[j] = t[n + j].header
      /\ a \in Seq(Bodies \cup {None}) /\ Len(a) = n
      /\ \A j \in 1..n : a[j] = IF t[j].answers = <<>> THEN None ELSE Head(t[j].answers)
    BY <1>1, MappedRequests
<1>4. /\ NewHeaders(s, n) \in Seq(Headers) /\ Len(NewHeaders(s, n)) = Len(s) - n
      /\ \A j \in 1..(Len(s) - n) : NewHeaders(s, n)[j] = s[n + j].header
      /\ c \in Seq(Bodies \cup {None}) /\ Len(c) = n
      /\ \A j \in 1..n : c[j] = IF s[j].answers = <<>> THEN None ELSE Head(s[j].answers)
    BY MappedRequests
<1> HIDE DEF a, c
<1>5. NewHeaders(t, n) = NewHeaders(s, n)
    <2>1. ASSUME NEW j \in 1..(Len(s) - n) PROVE NewHeaders(t, n)[j] = NewHeaders(s, n)[j]
        <3>1. n + j \in 1..Len(s) /\ n + j # i
            BY <1>1, <1>2
        <3>2. t[n + j] = s[n + j]
            BY <3>1, <1>1
        <3> QED
            BY <3>2, <1>3, <1>4
    <2> QED
        BY <2>1, <1>3, <1>4, SeqEqual
<1>6. \A j \in 1..n : j # i => a[j] = c[j]
    <2>1. ASSUME NEW j \in 1..n, j # i PROVE a[j] = c[j]
        <3>1. t[j] = s[j]
            BY <2>1, <1>1, <1>2
        <3> QED
            BY <3>1, <1>3, <1>4
    <2> QED
        BY <2>1
<1>7. CASE s[i].answers # <<>>
    <2>1. /\ Append(s[i].answers, body) # <<>>
          /\ Head(Append(s[i].answers, body)) = Head(s[i].answers)
        <3> DEFINE p == s[i].answers
        <3>1. p \in Seq(Bodies) /\ p # <<>>
            BY <1>2, <1>7
        <3> HIDE DEF p
        <3>2. /\ Append(p, body) \in Seq(Bodies) /\ Append(p, body) # <<>>
              /\ Append(p, body)[1] = p[1]
            BY <3>1
        <3>3. Head(Append(p, body)) = Append(p, body)[1] /\ Head(p) = p[1]
            BY <3>1, <3>2
        <3> QED
            BY <3>2, <3>3 DEF p
    <2>2. a[i] = c[i]
        BY <2>1, <1>1, <1>3, <1>4, <1>7
    <2>3. a = c
        BY <2>2, <1>3, <1>4, <1>6, SeqEqual
    <2> QED
        BY <2>3, <1>5 DEF a, c
<1>8. CASE s[i].answers = <<>>
    <2>1. c[i] = None
        BY <1>1, <1>4, <1>8
    <2>2. a[i] = body
        <3>1. Append(<<>>, body) = <<body>> /\ <<body>> # <<>> /\ Head(<<body>>) = body
            OBVIOUS
        <3> QED
            BY <3>1, <1>1, <1>3, <1>8
    <2>3. a = [c EXCEPT ![i] = body]
        <3> DEFINE w == [c EXCEPT ![i] = body]
        <3>1. body \in Bodies \cup {None} /\ i \in 1..Len(c)
            BY <1>1, <1>4
        <3>2. /\ w \in Seq(Bodies \cup {None}) /\ Len(w) = n
              /\ \A j \in 1..n : w[j] = IF j = i THEN body ELSE c[j]
            BY <3>1, <1>4, ExceptSeq
        <3> HIDE DEF w
        <3>3. a = w
            <4>1. \A j \in 1..n : a[j] = w[j]
                BY <3>2, <2>2, <1>6
            <4> QED
                BY <4>1, <3>2, <1>3, SeqEqual
        <3> QED
            BY <3>3 DEF w
    <2> QED
        BY <2>1, <2>3, <1>5 DEF a, c
<1> QED
    BY <1>7, <1>8

\* The first request goes, and its response with it.
LEMMA TakeIsRespond ==
    ASSUME NEW s \in Seq(Requests), NEW n, Leads(s, n), Distinct(s), s # <<>>,
           Head(s).type = "pending", Head(s).answers # <<>>
    PROVE  /\ NewHeaders(Tail(s), n - 1) = NewHeaders(s, n)
           /\ Answers(s, n) # <<>> /\ Head(Answers(s, n)) = Head(Head(s).answers)
           /\ Answers(Tail(s), n - 1) = Tail(Answers(s, n))
<1> DEFINE t == Tail(s)
           a == Answers(t, n - 1)
           c == Answers(s, n)
<1>1. /\ n \in 1..Len(s) /\ Head(s) = s[1]
      /\ t \in Seq(Requests) /\ Len(t) = Len(s) - 1 /\ Leads(t, n - 1)
      /\ \A i \in 1..(Len(s) - 1) : t[i] = s[i + 1]
    BY TakeAnswer
<1>2. Len(s) \in Nat /\ n \in Nat
    BY RequestFacts
<1> HIDE DEF t
<1>3. /\ NewHeaders(t, n - 1) \in Seq(Headers) /\ Len(NewHeaders(t, n - 1)) = Len(t) - (n - 1)
      /\ \A j \in 1..(Len(t) - (n - 1)) : NewHeaders(t, n - 1)[j] = t[(n - 1) + j].header
      /\ a \in Seq(Bodies \cup {None}) /\ Len(a) = n - 1
      /\ \A j \in 1..(n - 1) : a[j] = IF t[j].answers = <<>> THEN None ELSE Head(t[j].answers)
    BY <1>1, MappedRequests
<1>4. /\ NewHeaders(s, n) \in Seq(Headers) /\ Len(NewHeaders(s, n)) = Len(s) - n
      /\ \A j \in 1..(Len(s) - n) : NewHeaders(s, n)[j] = s[n + j].header
      /\ c \in Seq(Bodies \cup {None}) /\ Len(c) = n
      /\ \A j \in 1..n : c[j] = IF s[j].answers = <<>> THEN None ELSE Head(s[j].answers)
    BY MappedRequests
<1> HIDE DEF a, c
<1>5. NewHeaders(t, n - 1) = NewHeaders(s, n)
    <2>1. Len(t) - (n - 1) = Len(s) - n
        BY <1>1, <1>2
    <2>2. ASSUME NEW j \in 1..(Len(s) - n) PROVE NewHeaders(t, n - 1)[j] = NewHeaders(s, n)[j]
        <3>1. /\ j \in 1..(Len(t) - (n - 1)) /\ (n - 1) + j \in 1..(Len(s) - 1)
              /\ ((n - 1) + j) + 1 = n + j
            BY <1>1, <1>2
        <3>2. t[(n - 1) + j] = s[n + j]
            BY <3>1, <1>1
        <3> QED
            BY <3>1, <3>2, <1>3, <1>4
    <2> QED
        BY <2>1, <2>2, <1>3, <1>4, SeqEqual
<1>6. c # <<>> /\ Head(c) = Head(Head(s).answers)
    <2>1. 1 \in 1..n /\ Len(c) # 0
        BY <1>1, <1>2, <1>4
    <2>2. c # <<>>
        BY <2>1, <1>4, EmptySeq
    <2>3. Head(c) = c[1]
        BY <1>4, <2>2
    <2> QED
        BY <2>1, <2>2, <2>3, <1>1, <1>4
<1>7. a = Tail(c)
    <2> DEFINE w == Tail(c)
    <2>1. /\ w \in Seq(Bodies \cup {None}) /\ Len(w) = n - 1
          /\ \A i \in 1..(n - 1) : w[i] = c[i + 1]
        BY <1>4, <1>6, HeadTailProperties
    <2> HIDE DEF w
    <2>2. ASSUME NEW i \in 1..(n - 1) PROVE a[i] = w[i]
        <3>1. i + 1 \in 1..n /\ i \in 1..(Len(s) - 1)
            BY <1>1, <1>2
        <3>2. t[i] = s[i + 1]
            BY <3>1, <1>1
        <3> QED
            BY <3>1, <3>2, <2>1, <1>3, <1>4, ZenonT(60)
    <2>3. a = w
        BY <2>1, <2>2, <1>3, SeqEqual
    <2> QED
        BY <2>3 DEF w
<1> QED
    BY <1>5, <1>6, <1>7 DEF a, c, t

-----------------------------------------------------------------------------
(* The steps of the connection are steps of HttpExchange.                  *)

\* What the steps start from.
LEMMA Starts ==
    ASSUME HttpInv
    PROVE  /\ requests \in Seq(Requests) /\ http_events \in Seq(Asks)
           /\ tcp_actions \in Seq(Bodies \cup {Close})
           /\ Leads(requests, Handed) /\ Distinct(requests) /\ Handed \in Nat
           /\ Served => Awaits(requests, Handed, http_events)
BY RequestFacts DEF HttpInv, Types, InOrder

\* Steps that touch neither the requests nor what is sent are not seen.
LEMMA SameIsUnseen ==
    ASSUME UNCHANGED <<requests, http_events, tcp_actions>>, Served' = Served
    PROVE  UNCHANGED Exchange!evars
<1>1. Handed' = Handed
    BY DEF Handed
<1>2. Asked' = Asked /\ Responses' = Responses
    BY Mapped
<1>3. Unasked' = Unasked /\ Unanswered' = Unanswered
    BY <1>1, Mapped
<1> QED
    BY <1>2, <1>3 DEF Exchange!evars

\* A connection that stops or panics is closed.
LEMMA StopIsClose ==
    ASSUME Served, ~Served', UNCHANGED http_events, Sent(tcp_actions') = Sent(tcp_actions)
    PROVE  Exchange!Close
<1>1. Asked' = Asked /\ Responses' = Responses
    BY Mapped
<1>2. Unasked' = <<>> /\ Unanswered' = <<>>
    BY Mapped
<1>3. Served' = FALSE
    OBVIOUS
<1> QED
    BY <1>1, <1>2, <1>3 DEF Exchange!Close

\* A header that is complete is a request.
LEMMA HeaderRefines ==
    ASSUME HttpInv, CompleteHeader
    PROVE  Exchange!Request
<1>1. PICK r \in NewOnes : /\ requests' = Append(requests, r)
                           /\ \A i \in 1..Len(requests) : requests[i].id # r.id
    BY HeaderAdds
<1>2. /\ requests' \in Seq(Requests) /\ Leads(requests', Handed)
    BY <1>1, Starts, AddRequest
<1>3. Handed' = Handed
    BY <1>2, HandedIs
<1>4. /\ Len(NewHeaders(requests', Handed)) = Len(NewHeaders(requests, Handed)) + 1
      /\ SubSeq(NewHeaders(requests', Handed), 1, Len(NewHeaders(requests, Handed)))
             = NewHeaders(requests, Handed)
      /\ Answers(requests', Handed) = Answers(requests, Handed)
    BY <1>1, Starts, AddIsRequest
<1>5. Served /\ Served' = Served /\ UNCHANGED <<http_events, tcp_actions>>
    BY DEF CompleteHeader, Scanning, Served, mailboxes
<1>6. Asked' = Asked /\ Responses' = Responses
    BY <1>5, Mapped
<1>7. /\ Len(Unasked') = Len(Unasked) + 1
      /\ SubSeq(Unasked', 1, Len(Unasked)) = Unasked
      /\ Unanswered' = Unanswered
    BY <1>3, <1>4, <1>5, Mapped
<1> QED
    BY <1>5, <1>6, <1>7 DEF Exchange!Request

\* A request is handed to the user, if it is there.
LEMMA AskRefines ==
    ASSUME HttpInv, AskUser
    PROVE  Exchange!Ask \/ Exchange!Close
<1>1. ASSUME user = "there"
      PROVE  Exchange!Ask
    <2> DEFINE n == Handed
               e == [id |-> requests[n + 1].id, header |-> requests[n + 1].header]
    <2>1. /\ n # Len(requests)
          /\ requests' = [requests EXCEPT ![n + 1] = Pending(@.id, <<>>)]
          /\ http_events' = Append(http_events, e)
          /\ n + 1 \in 1..Len(requests) /\ requests[n + 1] \in NewOnes
          /\ requests[n + 1].header \in Headers
        BY <1>1, AskHandsOver
    <2>2. e \in Asks /\ e.header = requests[n + 1].header
        BY <2>1 DEF Asks, NewOnes
    <2> HIDE DEF e
    <2>3. requests' \in Seq(Requests) /\ Leads(requests', n + 1)
        BY <2>1, Starts, HandOver
    <2>4. Handed' = n + 1
        BY <2>3, HandedIs
    <2>5. /\ NewHeaders(requests, n) # <<>>
          /\ Head(NewHeaders(requests, n)) = requests[n + 1].header
          /\ NewHeaders(requests', n + 1) = Tail(NewHeaders(requests, n))
          /\ Answers(requests', n + 1) = Append(Answers(requests, n), None)
        BY <2>1, Starts, HandOverIsAsk
    <2>6. HeadersOf(http_events') = Append(HeadersOf(http_events), requests[n + 1].header)
        BY <2>1, <2>2, Starts, HeadersInOrder
    <2>7. Served /\ Served' = Served /\ UNCHANGED tcp_actions
        BY <1>1 DEF AskUser, Served
    <2> HIDE DEF n
    <2>8. /\ Unasked = NewHeaders(requests, n) /\ Unasked' = NewHeaders(requests', n + 1)
          /\ Unanswered = Answers(requests, n) /\ Unanswered' = Answers(requests', n + 1)
        BY <2>4, <2>7, Mapped DEF n
    <2>9. Responses' = Responses /\ Asked' = Append(Asked, requests[n + 1].header)
        BY <2>6, <2>7, Mapped
    <2> QED
        BY <2>5, <2>7, <2>8, <2>9 DEF Exchange!Ask
<1>2. ASSUME user # "there"
      PROVE  Exchange!Close
    <2>1. Served /\ ~Served' /\ UNCHANGED <<http_events, tcp_actions>>
        BY <1>2 DEF AskUser, Served
    <2> QED
        BY <2>1, StopIsClose
<1> QED
    BY <1>1, <1>2

\* What the user does: it takes a request, answers one, or leaves.
LEMMA UserRefines ==
    ASSUME HttpInv
    PROVE  /\ UserTakes => Exchange!UserTakes
           /\ UserLeaves => UNCHANGED Exchange!evars
           /\ \A i \in DOMAIN requests, body \in Bodies :
                 UserAnswers(i, body) => [Exchange!Next]_Exchange!evars
<1>1. ASSUME UserTakes \/ UserLeaves
      PROVE  /\ Unasked' = Unasked /\ Unanswered' = Unanswered /\ Responses' = Responses
             /\ Served' = Served
    <2>1. UNCHANGED <<requests, pc, tcp_actions>>
        BY <1>1 DEF UserTakes, UserLeaves, service, mailboxes
    <2>2. Handed' = Handed /\ Served' = Served
        BY <2>1 DEF Handed, Served
    <2> QED
        BY <2>1, <2>2, Mapped
<1>2. ASSUME UserTakes PROVE Exchange!UserTakes
    <2>1. http_events # <<>> /\ http_events' = Tail(http_events)
        BY <1>2 DEF UserTakes
    <2>2. /\ HeadersOf(http_events) # <<>>
          /\ HeadersOf(http_events') = Tail(HeadersOf(http_events))
        BY <2>1, Starts, HeadersInOrder
    <2>3. Asked # <<>> /\ Asked' = Tail(Asked)
        BY <2>2, Mapped
    <2> QED
        BY <1>1, <1>2, <2>3 DEF Exchange!UserTakes
<1>3. ASSUME UserLeaves PROVE UNCHANGED Exchange!evars
    <2>1. http_events' = http_events
        BY <1>3 DEF UserLeaves, mailboxes
    <2>2. Asked' = Asked
        BY <2>1, Mapped
    <2> QED
        BY <1>1, <1>3, <2>2 DEF Exchange!evars
<1>4. ASSUME NEW i \in DOMAIN requests, NEW body \in Bodies, UserAnswers(i, body)
      PROVE  [Exchange!Next]_Exchange!evars
    <2> DEFINE n == Handed
    <2>1. i \in 1..Len(requests)
        BY Starts, LenProperties
    <2>2. /\ requests[i].type = "pending"
          /\ requests[i].id \notin {r.id : r \in ToSet(http_events)}
          /\ requests' = [requests EXCEPT ![i].answers = Append(@, body)]
          /\ UNCHANGED <<http_events, tcp_actions, pc>> /\ Served
        BY <1>4 DEF UserAnswers, Served
    <2>a. /\ requests \in Seq(Requests) /\ http_events \in Seq(Asks)
          /\ Leads(requests, n) /\ Distinct(requests) /\ Awaits(requests, n, http_events)
        BY <2>2, Starts
    <2> HIDE DEF n
    <2>3. requests' \in Seq(Requests) /\ Leads(requests', n)
        BY <2>1, <2>2, <2>a, GiveAnswer
    <2>4. Handed' = n
        BY <2>3, HandedIs DEF n
    <2>b. i \in 1..n /\ i <= n - Len(http_events)
        BY <2>1, <2>2, <2>a, GiveAnswer
    <2>c. Gives(requests, requests', i, body)
        BY <2>1, <2>2, <2>a, GiveAnswer
    <2>5. NewHeaders(requests', n) = NewHeaders(requests, n)
        BY <2>3, <2>a, <2>b, <2>c, GiveIsAnswer
    <2>6. \/ Answers(requests', n) = Answers(requests, n)
          \/ /\ Answers(requests, n)[i] = None
             /\ Answers(requests', n) = [Answers(requests, n) EXCEPT ![i] = body]
        BY <2>3, <2>a, <2>b, <2>c, GiveIsAnswer
    <2>7. Len(HeadersOf(http_events)) = Len(http_events)
        BY Starts, HeadersInOrder
    <2>8. Len(Answers(requests, n)) = n /\ DOMAIN Answers(requests, n) = 1..n
        BY <2>a, MappedRequests, LenProperties
    <2>9. Served /\ Served' = Served
        BY <2>2 DEF Served
    <2>10. /\ Unanswered = Answers(requests, n) /\ Unanswered' = Answers(requests', n)
           /\ Unasked' = Unasked
        BY <2>4, <2>5, <2>9, Mapped DEF n
    <2>11. Asked' = Asked /\ Responses' = Responses /\ Len(Asked) = Len(http_events)
        BY <2>2, <2>7, Mapped
    <2>12. CASE Answers(requests', n) = Answers(requests, n)
        BY <2>12, <2>9, <2>10, <2>11 DEF Exchange!evars
    <2>13. CASE /\ Answers(requests, n)[i] = None
                /\ Answers(requests', n) = [Answers(requests, n) EXCEPT ![i] = body]
        <3>1. i \in 1..(Len(Unanswered) - Len(Asked)) /\ i \in DOMAIN Unanswered
            BY <2>a, <2>b, <2>8, <2>10, <2>11, LenProperties
        <3>2. Unanswered[i] = None /\ Unanswered' = [Unanswered EXCEPT ![i] = body]
            BY <2>10, <2>13
        <3>3. Exchange!Answer(i, body)
            BY <3>1, <3>2, <2>9, <2>10, <2>11 DEF Exchange!Answer
        <3> QED
            BY <3>1, <3>3 DEF Exchange!Next
    <2> QED
        BY <2>6, <2>12, <2>13
<1> QED
    BY <1>2, <1>3, <1>4

\* What the stream takes: a response, or the word to close.
LEMMA StreamRefines ==
    ASSUME HttpInv, StreamTakes
    PROVE  Exchange!Transmit \/ Exchange!CutOff
<1>1. UNCHANGED <<requests, http_events, pc>> /\ tcp_actions # <<>>
    BY DEF StreamTakes, service
<1>2. Handed' = Handed /\ Served' = Served
    BY <1>1 DEF Handed, Served
<1>3. Unasked' = Unasked /\ Unanswered' = Unanswered /\ Asked' = Asked
    BY <1>1, <1>2, Mapped
<1>4. CASE Head(tcp_actions) = Close
    <2>1. tcp_actions' = <<>>
        BY <1>4 DEF StreamTakes
    <2>2. Responses' = <<>>
        BY <2>1, SentInOrder, Mapped
    <2> QED
        BY <2>2, <1>2, <1>3 DEF Exchange!CutOff
<1>5. CASE Head(tcp_actions) # Close
    <2>1. tcp_actions' = Tail(tcp_actions)
        BY <1>5 DEF StreamTakes
    <2>2. Sent(tcp_actions) # <<>> /\ Sent(tcp_actions') = Tail(Sent(tcp_actions))
        BY <2>1, <1>1, <1>5, Starts, SentInOrder
    <2>3. Responses # <<>> /\ Responses' = Tail(Responses)
        BY <2>2, Mapped
    <2> QED
        BY <2>3, <1>2, <1>3 DEF Exchange!Transmit
<1> QED
    BY <1>4, <1>5

\* The response to the first request is sent, if the stream is there.
LEMMA ResolveRefines ==
    ASSUME HttpInv, Resolve
    PROVE  Exchange!Respond \/ Exchange!Close
<1>1. /\ requests # <<>> /\ Head(requests).type = "pending" /\ Head(requests).answers # <<>>
      /\ requests' = Tail(requests) /\ UNCHANGED http_events /\ Served
    BY DEF Resolve, HeadIsAnswered, Served
<1>2. CASE stream = "closed"
    <2>1. ~Served' /\ UNCHANGED tcp_actions
        BY <1>2 DEF Resolve, SendToStream, Served
    <2> QED
        BY <1>1, <2>1, StopIsClose
<1>3. CASE stream # "closed"
    <2> DEFINE n == Handed
               body == Head(Head(requests).answers)
    <2>1. body \in Bodies
        BY <1>1, Starts, TakeAnswer
    <2>2. requests' \in Seq(Requests) /\ Leads(requests', n - 1)
        BY <1>1, Starts, TakeAnswer
    <2>3. Handed' = n - 1
        BY <2>2, HandedIs
    <2>4. /\ NewHeaders(requests', n - 1) = NewHeaders(requests, n)
          /\ Answers(requests, n) # <<>> /\ Head(Answers(requests, n)) = body
          /\ Answers(requests', n - 1) = Tail(Answers(requests, n))
        BY <1>1, Starts, TakeIsRespond
    <2>5. tcp_actions' = Append(tcp_actions, body) /\ Served' = Served
        BY <1>1, <1>3 DEF Resolve, SendToStream, Served
    <2>6. body # None
        BY <2>1, ConstantsAssumption
    <2> HIDE DEF n, body
    <2>7. Sent(tcp_actions') = Append(Sent(tcp_actions), body)
        BY <2>1, <2>5, Starts, SentInOrder
    <2>8. /\ Unanswered = Answers(requests, n) /\ Unanswered' = Answers(requests', n - 1)
          /\ Unasked' = Unasked
        BY <1>1, <2>3, <2>4, <2>5, Mapped DEF n
    <2>9. Asked' = Asked /\ Responses' = Append(Responses, body)
        BY <1>1, <2>7, Mapped
    <2> QED
        BY <1>1, <2>4, <2>5, <2>6, <2>8, <2>9 DEF Exchange!Respond
<1> QED
    BY <1>2, <1>3

\* The connection stops, or is told to by its opener.
LEMMA CloseRefines ==
    ASSUME HttpInv, Stop \/ HandleClose
    PROVE  Exchange!Close \/ UNCHANGED Exchange!evars
<1>1. /\ UNCHANGED http_events /\ Served
      /\ tcp_actions' = tcp_actions \/ tcp_actions' = Append(tcp_actions, Close)
    BY DEF Stop, HandleClose, SendToStream, Served
<1>2. Sent(tcp_actions') = Sent(tcp_actions)
    BY <1>1, Starts, SentInOrder
<1>3. CASE ~Served'
    BY <1>1, <1>2, <1>3, StopIsClose
<1>4. CASE Served'
    <2>1. UNCHANGED requests /\ Served' = Served
        BY <1>1, <1>4 DEF Stop, HandleClose, Served
    <2>2. Handed' = Handed
        BY <2>1 DEF Handed
    <2>3. Asked' = Asked /\ Responses' = Responses
        BY <1>1, <1>2, Mapped
    <2>4. Unasked' = Unasked /\ Unanswered' = Unanswered
        BY <2>1, <2>2, Mapped
    <2> QED
        BY <2>1, <2>3, <2>4 DEF Exchange!evars
<1> QED
    BY <1>3, <1>4

\* The connection implements HttpExchange (connection.rs, Request in
\* process_requests): every request is handed to the user once and in the order
\* in which they came, and responses go to the stream in that order, one for
\* each, however the user's answers, the stream and the listener interleave.
THEOREM ConnectionImplementsExchange == Spec => ImplementsExchange
<1>1. Init => Exchange!Init
    <2> SUFFICES ASSUME Init PROVE Exchange!Init
        OBVIOUS
    <2>1. tcp_actions = <<>> /\ http_events = <<>> /\ pc = "idle" /\ requests = <<>>
        BY DEF Init
    <2>2. Leads(<<>>, 0) /\ <<>> \in Seq(Requests)
        BY DEF Leads
    <2>3. Handed = 0
        BY <2>1, <2>2, HandedIs
    <2>4. NewHeaders(<<>>, 0) = <<>> /\ Answers(<<>>, 0) = <<>>
        <3>1. SubSeq(<<>>, 0 + 1, Len(<<>>)) = <<>>
            OBVIOUS
        <3>2. Answers(<<>>, 0) = <<>>
            BY DEF Answers
        <3> QED
            BY <3>1, <3>2, HeadersInOrder, Zenon DEF NewHeaders
    <2>5. Asked = <<>> /\ Responses = <<>>
        BY <2>1, HeadersInOrder, SentInOrder, Mapped
    <2>6. Unasked = <<>> /\ Unanswered = <<>>
        BY <2>1, <2>3, <2>4, Mapped
    <2>7. Served = TRUE
        BY <2>1 DEF Served
    <2> QED
        BY <2>5, <2>6, <2>7 DEF Exchange!Init
<1>2. ASSUME HttpInv, [Next]_vars
      PROVE  [Exchange!Next]_Exchange!evars
    <2>1. CASE CompleteHeader
        BY <1>2, <2>1, HeaderRefines DEF Exchange!Next
    <2>2. CASE AskUser
        BY <1>2, <2>2, AskRefines DEF Exchange!Next
    <2>3. CASE UserTakes \/ UserLeaves
        BY <1>2, <2>3, UserRefines DEF Exchange!Next
    <2>4. ASSUME NEW i \in DOMAIN requests, NEW body \in Bodies, UserAnswers(i, body)
          PROVE  [Exchange!Next]_Exchange!evars
        BY <1>2, <2>4, UserRefines
    <2>5. CASE StreamTakes
        BY <1>2, <2>5, StreamRefines DEF Exchange!Next
    <2>6. CASE Resolve
        BY <1>2, <2>6, ResolveRefines DEF Exchange!Next
    <2>7. CASE Stop \/ HandleClose
        BY <1>2, <2>7, CloseRefines DEF Exchange!Next
    <2>8. CASE \/ StreamReceives \/ StreamEnds \/ ListenerCloses \/ UNCHANGED vars
        <3>1. UNCHANGED <<requests, http_events, tcp_actions, pc>>
            BY <2>8 DEF StreamReceives, StreamEnds, ListenerCloses, StreamEvent,
               service, mailboxes, vars
        <3> QED
            BY <3>1, SameIsUnseen DEF Served
    <2>9. CASE \/ StartHandle \/ ReceiveTcp \/ ConsumeNext \/ ConsumeReturnsNone \/ EndTcp
               \/ EndActions \/ EndAsk \/ EndHandle
        <3>1. UNCHANGED <<requests, http_events, tcp_actions>>
            BY <2>9 DEF StartHandle, ReceiveTcp, ConsumeNext, ConsumeReturnsNone, EndTcp,
               EndActions, EndAsk, EndHandle, mailboxes
        <3>2. Served' = Served
            BY <2>9 DEF StartHandle, ReceiveTcp, ConsumeNext, ConsumeReturnsNone, EndTcp,
               EndActions, EndAsk, EndHandle, Scanning, Served
        <3> QED
            BY <3>1, <3>2, SameIsUnseen
    <2> QED
        BY <1>2, <2>1, <2>2, <2>3, <2>4, <2>5, <2>6, <2>7, <2>8, <2>9 DEF Next, HandlerStep
<1> QED
    BY <1>1, <1>2, HttpInvariant, PTL DEF Spec, ImplementsExchange, Exchange!Spec

=============================================================================
