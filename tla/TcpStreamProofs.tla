-------------------------- MODULE TcpStreamProofs --------------------------
(***************************************************************************)
(* Proofs about TcpStream, for any bytes and messages, any send buffer and *)
(* any sizes of the receive buffer, with reads that may be interrupted:    *)
(* read is never called without space, write events are asked for exactly  *)
(* while there is something to write, and the service implements           *)
(* ByteStream.  As long as no read is interrupted it also keeps to the     *)
(* protocol of the registry.                                               *)
(***************************************************************************)
EXTENDS TcpStream, SequenceLemmas

RP == INSTANCE MioRegistryProofs
      WITH Sources <- {Socket}, Capacity <- 1, ready <- Ready

\* What the mailboxes of the service and of its user hold.
Actions == {Send(m) : m \in Messages} \cup {Close}
Events  == {Recv(m) : m \in Seq(Bytes) \ {<<>>}} \cup {Closed}

\* The types of what is not the registry's.
Types ==
    /\ inbox \in Seq(Bytes) /\ outbox \in Seq(Bytes) /\ Len(outbox) <= SendBuffer
    /\ fin \in BOOLEAN /\ closed \in BOOLEAN /\ told \in BOOLEAN
    /\ actions \in Seq(Actions)
    /\ queue \in Seq(Seq(Bytes))
    /\ space \in Nat /\ read \in Seq(Bytes)
    /\ events \in Seq(Events)

\* Nothing is waiting outside of the life of the service.
OnlyWhileOpen == ~Open => actions = <<>> /\ queue = <<>>

\* There is an interest in writing if there is something to write, and also in
\* the handler that has just written the last of it.
WriteInterest ==
    Open =>
        /\ queue # <<>> => "writable" \in interest[Socket]
        /\ "writable" \in interest[Socket] => queue # <<>> \/ "writable" \in taken[Socket]

\* While the read loop runs its buffer has room, and when it ends nothing is
\* left in the buffer.
ReadBuffer ==
    IF "readable" \in taken[Socket] THEN Len(read) < space ELSE read = <<>>

\* The service takes the stream for ended when it has, and when it has read
\* and passed on all of it; the user hears of that from then on, and of
\* nothing else.
EndIsLast ==
    /\ closed => fin /\ inbox = <<>> /\ read = <<>>
    /\ told \/ (\E i \in DOMAIN events : events[i] = Closed) => closed
    /\ \A i, j \in DOMAIN events : i < j /\ events[i] = Closed => events[j] = Closed

TcpInv ==
    /\ R!TypeOK
    /\ Types
    /\ OnlyWhileOpen
    /\ WriteInterest
    /\ ReadBuffer
    /\ EndIsLast

-----------------------------------------------------------------------------
(* The registry.                                                           *)

\* The registry of the proofs is that of the service.
LEMMA SameRegistry ==
    /\ R!TypeOK <=> RP!TypeOK
    /\ R!Init <=> RP!Init
    /\ [R!Next]_R!vars => [RP!Next]_RP!vars
<1>1. (R!TypeOK <=> RP!TypeOK) /\ (R!Init <=> RP!Init)
    BY DEF R!TypeOK, RP!TypeOK, R!Init, RP!Init, R!Dirs, RP!Dirs, R!Nothing, RP!Nothing
<1>2. [R!Next]_R!vars => [RP!Next]_RP!vars
    BY DEF R!Next, R!vars, R!HandlerStep, R!LoopStep, R!Dirs, R!kernel, R!Nothing, R!Handling, R!InHandler, R!Idle,
           R!BecomeReady, R!SetInterest, R!Register, R!RegisterFails, R!Reregister,
           R!Deregister, R!Take, R!Poll, R!PollFails, R!Deliver, R!StartProcess,
           R!EndProcess, R!ProcessFails, R!Signal, R!StartHandler, R!Exhaust, R!Blocked, R!EndOfStream,
           R!NothingToWrite, R!EndHandler, R!Panic, R!Cardinality,
           RP!Next, RP!vars, RP!HandlerStep, RP!LoopStep, RP!Dirs, RP!kernel, RP!Nothing, RP!Handling, RP!InHandler, RP!Idle,
           RP!BecomeReady, RP!SetInterest, RP!Register, RP!RegisterFails, RP!Reregister,
           RP!Deregister, RP!Take, RP!Poll, RP!PollFails, RP!Deliver, RP!StartProcess,
           RP!EndProcess, RP!ProcessFails, RP!Signal, RP!StartHandler, RP!Exhaust, RP!Blocked, RP!EndOfStream,
           RP!NothingToWrite, RP!EndHandler, RP!Panic, RP!Cardinality
<1> QED
    BY <1>1, <1>2

\* What the types of the registry say of the one socket.
LEMMA RegistryFacts ==
    ASSUME R!TypeOK
    PROVE  /\ entry \in [{Socket} -> {"none", "open", "leaked", "closed"}]
           /\ interest \in [{Socket} -> SUBSET {"readable", "writable"}]
           /\ taken \in [{Socket} -> SUBSET {"readable", "writable"}]
           /\ handler \in [{Socket} -> {"idle", "start", "drain"}]
           /\ handler[Socket] # "idle" => Open
           /\ handler[Socket] # "drain" => taken[Socket] = {}
BY DEF R!TypeOK, R!Dirs, Open

\* Bytes and the end of the stream reach the socket, and leave it, as the
\* registry expects of a kernel.
LEMMA NetworkUsesRegistry ==
    ASSUME TcpInv, (\E b \in Bytes : Arrive(b)) \/ PeerEnds \/ Transmit
    PROVE  [R!Next]_R!vars
<1>1. ASSUME NEW b \in Bytes, Arrive(b)
      PROVE  [R!Next]_R!vars
    <2>1. CASE inbox = <<>>
        BY <1>1, <2>1 DEF Arrive, R!Next, R!Dirs
    <2>2. CASE inbox # <<>>
        <3>1. inbox \in Seq(Bytes) /\ inbox' = Append(inbox, b)
            BY <1>1 DEF Arrive, TcpInv, Types
        <3>2. inbox' # <<>>
            BY <3>1, AppendProperties
        <3>3. UNCHANGED registry /\ UNCHANGED outbox /\ UNCHANGED fin
            BY <1>1, <2>2 DEF Arrive
        <3> QED
            BY <2>2, <3>2, <3>3 DEF registry, R!vars, Ready
    <2> QED
        BY <2>1, <2>2
<1>2. CASE PeerEnds
    <2>1. CASE inbox = <<>>
        BY <1>2, <2>1 DEF PeerEnds, R!Next, R!Dirs
    <2>2. CASE inbox # <<>>
        BY <1>2, <2>2 DEF PeerEnds, registry, R!vars, Ready
    <2> QED
        BY <2>1, <2>2
<1>3. CASE Transmit
    <2>1. CASE Connected /\ Len(outbox) = SendBuffer
        BY <1>3, <2>1 DEF Transmit, R!Next, R!Dirs
    <2>2. CASE ~(Connected /\ Len(outbox) = SendBuffer)
        <3>1. outbox \in Seq(Bytes) /\ outbox # <<>> /\ outbox' = Tail(outbox)
              /\ UNCHANGED <<inbox, fin>> /\ UNCHANGED registry
            BY <1>3, <2>2 DEF Transmit, TcpInv, Types
        <3>2. Len(outbox) \in Nat /\ SendBuffer \in Nat /\ Len(outbox') = Len(outbox) - 1
              /\ Len(outbox) <= SendBuffer
            BY <3>1, HeadTailProperties, ConstantsAssumption DEF TcpInv, Types
        <3>3. CASE Connected
            <4>1. Len(outbox) < SendBuffer /\ Len(outbox') < SendBuffer
                BY <2>2, <3>2, <3>3
            <4> QED
                BY <3>1, <4>1 DEF registry, R!vars, Ready
        <3>4. CASE ~Connected
            BY <3>1, <3>4 DEF registry, R!vars, Ready, Connected
        <3> QED
            BY <3>3, <3>4
    <2> QED
        BY <2>1, <2>2
<1> QED
    BY <1>1, <1>2, <1>3

\* What a call of read leaves in the socket.
LEMMA ReadBytes ==
    ASSUME TcpInv, NEW n \in 1..MaxIncoming, Read(n)
    PROVE  /\ inbox # <<>> /\ n \in 0..Len(inbox) /\ n <= space - Len(read)
           /\ inbox' = SubSeq(inbox, n + 1, Len(inbox)) /\ inbox' \in Seq(Bytes)
           /\ Len(inbox') = Len(inbox) - n
           /\ SubSeq(inbox, 1, n) \in Seq(Bytes) /\ Len(SubSeq(inbox, 1, n)) = n
           /\ read' = read \o SubSeq(inbox, 1, n) /\ read' \in Seq(Bytes)
           /\ Len(read') = Len(read) + n
           /\ SubSeq(inbox, 1, n) \o inbox' = inbox
<1>1. inbox \in Seq(Bytes) /\ read \in Seq(Bytes) /\ Len(inbox) \in Nat /\ n \in Nat
      /\ n >= 1 /\ n <= Len(inbox) /\ n <= space - Len(read)
    BY ConstantsAssumption DEF Read, TcpInv, Types
<1>2. inbox # <<>> /\ n \in 0..Len(inbox)
    BY <1>1
<1>3. /\ inbox' = SubSeq(inbox, n + 1, Len(inbox)) /\ read' = read \o SubSeq(inbox, 1, n)
    BY DEF Read
<1>4. /\ SubSeq(inbox, 1, n) \in Seq(Bytes) /\ Len(SubSeq(inbox, 1, n)) = n
      /\ SubSeq(inbox, n + 1, Len(inbox)) \in Seq(Bytes)
      /\ Len(SubSeq(inbox, n + 1, Len(inbox))) = Len(inbox) - n
      /\ SubSeq(inbox, 1, n) \o SubSeq(inbox, n + 1, Len(inbox)) = inbox
    BY <1>1, <1>2, SplitSeq
<1>5. read \o SubSeq(inbox, 1, n) \in Seq(Bytes)
      /\ Len(read \o SubSeq(inbox, 1, n)) = Len(read) + n
    BY <1>1, <1>4, ConcatProperties
<1> QED
    BY <1>1, <1>2, <1>3, <1>4, <1>5

\* What a call of write leaves in the queue: nothing of the message, or the
\* rest of it.
LEMMA WriteBytes ==
    ASSUME TcpInv, NEW n \in 0..SendBuffer, Write(n)
    PROVE  /\ queue # <<>> /\ Head(queue) \in Seq(Bytes) /\ Tail(queue) \in Seq(Seq(Bytes))
           /\ n \in 0..Len(Head(queue)) /\ n <= SendBuffer - Len(outbox)
           /\ SubSeq(Head(queue), 1, n) \in Seq(Bytes) /\ Len(SubSeq(Head(queue), 1, n)) = n
           /\ SubSeq(Head(queue), n + 1, Len(Head(queue))) \in Seq(Bytes)
           /\ SubSeq(Head(queue), 1, n) \o SubSeq(Head(queue), n + 1, Len(Head(queue)))
                  = Head(queue)
           /\ outbox' = outbox \o SubSeq(Head(queue), 1, n) /\ outbox' \in Seq(Bytes)
           /\ Len(outbox') = Len(outbox) + n
           /\ queue' = IF n < Len(Head(queue))
                       THEN <<SubSeq(Head(queue), n + 1, Len(Head(queue)))>> \o Tail(queue)
                       ELSE Tail(queue)
<1> DEFINE m == Head(queue)
<1>1. queue # <<>> /\ n <= Len(m) /\ n <= SendBuffer - Len(outbox)
      /\ outbox' = outbox \o SubSeq(m, 1, n)
      /\ queue' = IF n < Len(m)
                  THEN <<SubSeq(m, n + 1, Len(m))>> \o Tail(queue)
                  ELSE Tail(queue)
    BY DEF Write
<1>2. m \in Seq(Bytes) /\ Tail(queue) \in Seq(Seq(Bytes)) /\ Len(m) \in Nat /\ n \in Nat
    BY <1>1, HeadTailProperties, ConstantsAssumption DEF TcpInv, Types
<1> HIDE DEF m
<1>3. n \in 0..Len(m)
    BY <1>1, <1>2
<1>4. /\ SubSeq(m, 1, n) \in Seq(Bytes) /\ Len(SubSeq(m, 1, n)) = n
      /\ SubSeq(m, n + 1, Len(m)) \in Seq(Bytes)
      /\ SubSeq(m, 1, n) \o SubSeq(m, n + 1, Len(m)) = m
    BY <1>2, <1>3, SplitSeq
<1>5. outbox \o SubSeq(m, 1, n) \in Seq(Bytes)
      /\ Len(outbox \o SubSeq(m, 1, n)) = Len(outbox) + n
    BY <1>4, ConcatProperties DEF TcpInv, Types
<1> QED
    BY <1>1, <1>2, <1>3, <1>4, <1>5 DEF m

\* So does the actor: the last byte leaves the socket without anything to
\* read, unless its end is there, and the last free place without room to
\* write.
LEMMA HandlerUsesRegistry ==
    ASSUME TcpInv, HandlerStep \/ IoError
    PROVE  [R!Next]_R!vars
<1>1. CASE OnActionSend
    <2>1. CASE queue = <<>>
        BY <1>1, <2>1 DEF OnActionSend, R!Next, R!HandlerStep
    <2>2. CASE queue # <<>>
        BY <1>1, <2>2 DEF OnActionSend, registry, kernel, R!vars, Ready
    <2> QED
        BY <2>1, <2>2
<1>2. CASE OnActionClose
    BY <1>2 DEF OnActionClose, R!Next, R!HandlerStep
<1>3. CASE TakeReady
    BY <1>3 DEF TakeReady, R!Next, R!HandlerStep
<1>4. ASSUME NEW n \in 1..MaxIncoming, Read(n)
      PROVE  [R!Next]_R!vars
    <2>1. CASE n = Len(inbox) /\ ~fin
        BY <1>4, <2>1 DEF Read, R!Next, R!HandlerStep, R!Dirs
    <2>2. CASE ~(n = Len(inbox) /\ ~fin)
        <3>1. UNCHANGED registry /\ UNCHANGED <<fin, outbox>>
            BY <1>4, <2>2 DEF Read
        <3>2. inbox # <<>> /\ (inbox' # <<>> \/ fin)
            <4>1. inbox # <<>> /\ inbox' \in Seq(Bytes) /\ Len(inbox') = Len(inbox) - n
                  /\ Len(inbox) \in Nat /\ n \in 0..Len(inbox)
                BY <1>4, ReadBytes DEF TcpInv, Types
            <4>2. n = Len(inbox) \/ inbox' # <<>>
                BY <4>1
            <4> QED
                BY <2>2, <4>1, <4>2
        <3> QED
            BY <3>1, <3>2 DEF registry, R!vars, Ready
    <2> QED
        BY <2>1, <2>2
<1>5. CASE ReadBlocked
    BY <1>5 DEF ReadBlocked, R!Next, R!HandlerStep, R!Dirs
<1>6. CASE ReadEnd
    BY <1>6 DEF ReadEnd, R!Next, R!HandlerStep
<1>7. ASSUME NEW n \in 0..SendBuffer, Write(n)
      PROVE  [R!Next]_R!vars
    <2>1. CASE n > 0 /\ Len(outbox') = SendBuffer
        BY <1>7, <2>1 DEF Write, R!Next, R!HandlerStep, R!Dirs
    <2>2. CASE ~(n > 0 /\ Len(outbox') = SendBuffer)
        <3>1. UNCHANGED registry /\ UNCHANGED <<inbox, fin>>
            BY <1>7, <2>2 DEF Write
        <3>2. Len(outbox) < SendBuffer <=> Len(outbox') < SendBuffer
            <4>1. Len(outbox') = Len(outbox) + n /\ n <= SendBuffer - Len(outbox)
                BY <1>7, WriteBytes
            <4>2. Len(outbox) \in Nat /\ n \in Nat /\ SendBuffer \in Nat
                BY ConstantsAssumption DEF TcpInv, Types
            <4> QED
                BY <2>2, <4>1, <4>2
        <3> QED
            BY <3>1, <3>2 DEF registry, R!vars, Ready
    <2> QED
        BY <2>1, <2>2
<1>8. CASE WriteBlocked
    BY <1>8 DEF WriteBlocked, R!Next, R!HandlerStep, R!Dirs
<1>9. CASE WriteDone
    BY <1>9 DEF WriteDone, R!Next, R!HandlerStep
<1>10. CASE EndHandle
    BY <1>10 DEF EndHandle, R!Next, R!HandlerStep
<1>11. CASE IoError
    BY <1>11 DEF IoError, R!Next, R!HandlerStep
<1> QED
    BY <1>1, <1>2, <1>3, <1>4, <1>5, <1>6, <1>7, <1>8, <1>9, <1>10, <1>11
       DEF HandlerStep

\* Every step of the service is one that the registry allows, but for the end
\* of a read loop that was interrupted.
LEMMA StreamUsesRegistry ==
    ASSUME TcpInv, [Next]_vars, ~ReadInterrupted
    PROVE  [R!Next]_R!vars
<1>1. CASE (\E b \in Bytes : Arrive(b)) \/ PeerEnds \/ Transmit
    BY <1>1, NetworkUsesRegistry
<1>2. CASE HandlerStep \/ IoError
    BY <1>2, HandlerUsesRegistry
<1>3. CASE OpenStream
    BY <1>3 DEF OpenStream, R!Next
<1>4. CASE OpenFails
    BY <1>4 DEF OpenFails, R!Next
<1>5. CASE UserReceive
    BY <1>5 DEF UserReceive, registry, kernel, R!vars, Ready
<1>6. ASSUME NEW action, Act(action)
      PROVE  [R!Next]_R!vars
    BY <1>6 DEF Act, R!Next
<1>7. CASE LoopStep
    BY <1>7 DEF LoopStep, R!Next
<1>8. CASE UNCHANGED vars
    BY <1>8 DEF vars, data, registry, kernel, R!vars, Ready
<1> QED
    BY <1>1, <1>2, <1>3, <1>4, <1>5, <1>6, <1>7, <1>8 DEF Next

-----------------------------------------------------------------------------
(* The invariant is kept.                                                  *)

\* What is known of the registry stays so, also when a read is interrupted.
LEMMA RegistryKeepsType ==
    ASSUME TcpInv, [Next]_vars
    PROVE  R!TypeOK'
<1>1. CASE ReadInterrupted
    <2>1. /\ handler[Socket] = "drain"
          /\ taken' = [taken EXCEPT ![Socket] = @ \ {"readable"}]
          /\ UNCHANGED <<interest, edges, entry, state, signalled, batch, loop, handler, ended>>
          /\ UNCHANGED <<inbox, fin, outbox>>
        BY <1>1 DEF ReadInterrupted, Reading, R!Handling, kernel
    <2>2. Ready' = Ready
        BY <2>1 DEF Ready
    <2> QED
        BY <2>1, <2>2 DEF TcpInv, R!TypeOK
<1>2. CASE ~ReadInterrupted
    <2>1. RP!TypeOK /\ [RP!Next]_RP!vars
        BY <1>2, StreamUsesRegistry, SameRegistry DEF TcpInv
    <2>2. RP!TypeOK'
        BY <2>1, RP!NextType
    <2> QED
        BY <2>2 DEF R!TypeOK, RP!TypeOK, R!Dirs, RP!Dirs
<1> QED
    BY <1>1, <1>2

\* The messages and events that the service passes on.
LEMMA PassedOn ==
    ASSUME TcpInv
    PROVE  /\ FinishRead => /\ events' \in Seq(Events) /\ read' = <<>> /\ read' \in Seq(Bytes)
                            /\ read = <<>> => events' = events
                            /\ read # <<>> => events' = Append(events, Recv(read))
           /\ read # <<>> => Recv(read) \in Events
           /\ actions # <<>> => /\ Head(actions) \in Actions /\ Tail(actions) \in Seq(Actions)
                                /\ Head(actions) # Close => Head(actions).data \in Seq(Bytes)
           /\ Append(events, Closed) \in Seq(Events)
           /\ events # <<>> => Head(events) \in Events /\ Tail(events) \in Seq(Events)
<1> USE DEF TcpInv, Types
<1>1. read # <<>> => Recv(read) \in Events
    BY DEF Events
<1>2. FinishRead => /\ events' \in Seq(Events) /\ read' = <<>> /\ read' \in Seq(Bytes)
                    /\ read = <<>> => events' = events
                    /\ read # <<>> => events' = Append(events, Recv(read))
    <2>1. <<>> \in Seq(Bytes)
        OBVIOUS
    <2>2. read # <<>> => Append(events, Recv(read)) \in Seq(Events)
        BY <1>1, AppendProperties
    <2> QED
        BY <2>1, <2>2 DEF FinishRead
<1>3. ASSUME actions # <<>>
      PROVE  /\ Head(actions) \in Actions /\ Tail(actions) \in Seq(Actions)
             /\ Head(actions) # Close => Head(actions).data \in Seq(Bytes)
    <2>1. Head(actions) \in Actions /\ Tail(actions) \in Seq(Actions)
        BY <1>3, HeadTailProperties
    <2>2. ASSUME NEW a \in Actions, a # Close PROVE a.data \in Seq(Bytes)
        BY <2>2, ConstantsAssumption DEF Actions, Send, Close
    <2> QED
        BY <2>1, <2>2
<1>4. Append(events, Closed) \in Seq(Events)
    <2>1. Closed \in Events
        BY DEF Events
    <2> QED
        BY <2>1, AppendProperties
<1>5. events # <<>> => Head(events) \in Events /\ Tail(events) \in Seq(Events)
    BY HeadTailProperties
<1> QED
    BY <1>1, <1>2, <1>3, <1>4, <1>5

\* The buffers and mailboxes hold what they are for.
LEMMA StepKeepsTypes ==
    ASSUME TcpInv, [Next]_vars
    PROVE  Types'
<1> USE DEF TcpInv, Types
<1>1. ASSUME NEW b \in Bytes, Arrive(b)
      PROVE  Types'
    <2>1. inbox' = Append(inbox, b)
          /\ UNCHANGED <<fin, outbox, actions, queue, space, read, closed, events, told>>
        BY <1>1 DEF Arrive, user
    <2>2. inbox' \in Seq(Bytes)
        BY <2>1, AppendProperties
    <2> QED
        BY <2>1, <2>2
<1>2. CASE PeerEnds
    BY <1>2 DEF PeerEnds, user
<1>3. CASE Transmit
    <2>1. outbox # <<>> /\ outbox' = Tail(outbox)
          /\ UNCHANGED <<inbox, fin, actions, queue, space, read, closed, events, told>>
        BY <1>3 DEF Transmit, user
    <2>2. outbox' \in Seq(Bytes) /\ Len(outbox') = Len(outbox) - 1
        BY <2>1, HeadTailProperties
    <2> QED
        BY <2>1, <2>2, ConstantsAssumption
<1>4. CASE OpenFails
    <2>1. <<>> \in Seq(Bytes)
        OBVIOUS
    <2> QED
        BY <1>4, <2>1 DEF OpenFails, user
<1>5. CASE UserReceive
    <2>1. events # <<>> /\ events' = Tail(events) /\ told' = (told \/ Head(events) = Closed)
          /\ UNCHANGED <<inbox, fin, outbox, actions, queue, space, read, closed>>
        BY <1>5 DEF UserReceive, kernel
    <2>2. events' \in Seq(Events) /\ told' \in BOOLEAN
        BY <2>1, HeadTailProperties
    <2> QED
        BY <2>1, <2>2
<1>6. ASSUME NEW action \in Actions, Act(action)
      PROVE  Types'
    <2>1. actions' = Append(actions, action)
          /\ UNCHANGED <<inbox, fin, outbox, queue, space, read, closed, events, told>>
        BY <1>6 DEF Act, kernel, user
    <2>2. actions' \in Seq(Actions)
        BY <2>1, AppendProperties
    <2> QED
        BY <2>1, <2>2
<1>7. CASE OnActionSend
    <2>1. actions # <<>> /\ Head(actions) # Close /\ actions' = Tail(actions)
          /\ queue' = Append(queue, Head(actions).data)
          /\ UNCHANGED <<inbox, fin, outbox, space, read, closed, events, told>>
        BY <1>7 DEF OnActionSend, kernel, user
    <2>2. Tail(actions) \in Seq(Actions) /\ Head(actions).data \in Seq(Bytes)
        BY <2>1, PassedOn
    <2>3. queue' \in Seq(Seq(Bytes))
        BY <2>1, <2>2, AppendProperties
    <2> QED
        BY <2>1, <2>2, <2>3
<1>8. CASE OnActionClose
    <2>1. <<>> \in Seq(Bytes) /\ <<>> \in Seq(Seq(Bytes)) /\ <<>> \in Seq(Actions)
        OBVIOUS
    <2> QED
        BY <1>8, <2>1 DEF OnActionClose, user
<1>9. CASE TakeReady
    <2>1. space' \in Nat
        BY <1>9, BufferAssumption DEF TakeReady
    <2>2. UNCHANGED <<inbox, fin, outbox, actions, queue, read, closed, events, told>>
        BY <1>9 DEF TakeReady, kernel, user
    <2> QED
        BY <2>1, <2>2
<1>10. ASSUME NEW n \in 1..MaxIncoming, Read(n)
       PROVE  Types'
    <2>1. inbox' \in Seq(Bytes) /\ read' \in Seq(Bytes)
        BY <1>10, ReadBytes
    <2>2. UNCHANGED <<fin, outbox, actions, queue, closed, events, told>>
          /\ space' \in {space, space + BufferStep}
        BY <1>10 DEF Read, user
    <2>3. space' \in Nat
        BY <2>2, BufferAssumption
    <2> QED
        BY <2>1, <2>2, <2>3
<1>11. CASE ReadBlocked \/ ReadEnd \/ ReadInterrupted
    <2>1. FinishRead /\ closed' \in {closed, TRUE}
          /\ UNCHANGED <<inbox, fin, outbox, actions, queue, told>>
        BY <1>11 DEF ReadBlocked, ReadEnd, ReadInterrupted, kernel
    <2>2. events' \in Seq(Events) /\ read' \in Seq(Bytes)
        BY <2>1, PassedOn
    <2>3. space' \in Nat
        <3>1. space' = space - Len(read)
            BY <2>1 DEF FinishRead
        <3>2. Len(read) <= space
            BY DEF ReadBuffer
        <3> QED
            BY <3>1, <3>2
    <2> QED
        BY <2>1, <2>2, <2>3
<1>12. ASSUME NEW n \in 0..SendBuffer, Write(n)
       PROVE  Types'
    <2>1. UNCHANGED <<inbox, fin, actions, space, read, closed, events, told>>
        BY <1>12 DEF Write, user
    <2>2. outbox' \in Seq(Bytes) /\ Len(outbox') <= SendBuffer
        <3>1. outbox' \in Seq(Bytes) /\ Len(outbox') = Len(outbox) + n
              /\ n <= SendBuffer - Len(outbox)
            BY <1>12, WriteBytes
        <3> QED
            BY <3>1, ConstantsAssumption
    <2>3. queue' \in Seq(Seq(Bytes))
        <3> DEFINE rest == SubSeq(Head(queue), n + 1, Len(Head(queue)))
        <3>1. rest \in Seq(Bytes) /\ Tail(queue) \in Seq(Seq(Bytes))
              /\ queue' \in {<<rest>> \o Tail(queue), Tail(queue)}
            BY <1>12, WriteBytes
        <3> HIDE DEF rest
        <3>2. <<rest>> \o Tail(queue) \in Seq(Seq(Bytes))
            BY <3>1, ConcatFront
        <3> QED
            BY <3>1, <3>2
    <2> QED
        BY <2>1, <2>2, <2>3
<1>13. CASE EndHandle
    <2>1. events' \in {events, Append(events, Closed)}
          /\ UNCHANGED <<inbox, fin, outbox, actions, queue, space, read, closed, told>>
        BY <1>13 DEF EndHandle, kernel
    <2>2. events' \in Seq(Events)
        BY <2>1, PassedOn
    <2> QED
        BY <2>1, <2>2
<1>14. CASE UNCHANGED data
    BY <1>14 DEF data, kernel, user
<1>15. CASE UNCHANGED vars
    BY <1>15 DEF vars, data, kernel, user
<1>16. (\A m \in Messages : Send(m) \in Actions) /\ Close \in Actions
    BY DEF Actions
<1> QED
    BY <1>1, <1>2, <1>3, <1>4, <1>5, <1>6, <1>7, <1>8, <1>9, <1>10, <1>11, <1>12,
       <1>13, <1>14, <1>15, <1>16
       DEF Next, HandlerStep, OpenStream, WriteBlocked, WriteDone, IoError, LoopStep

\* A service that waits to write has asked for it: the queue and the interest
\* change together.
LEMMA StepKeepsInterest ==
    ASSUME TcpInv, [Next]_vars
    PROVE  OnlyWhileOpen' /\ WriteInterest'
<1> USE RegistryFacts DEF TcpInv, OnlyWhileOpen, WriteInterest, Open
<1>1. CASE UNCHANGED <<entry, interest, taken, actions, queue>>
    BY <1>1
<1>2. CASE OpenStream
    BY <1>2 DEF OpenStream, data, R!Register, R!SetInterest
<1>3. CASE OpenFails
    BY <1>3 DEF OpenFails, R!RegisterFails
<1>4. ASSUME NEW action, Act(action)
      PROVE  OnlyWhileOpen' /\ WriteInterest'
    BY <1>4 DEF Act, R!Signal, R!kernel
<1>5. CASE OnActionSend
    <2>1. entry[Socket] = "open" /\ UNCHANGED <<entry, taken>>
        BY <1>5 DEF OnActionSend, R!Handling, R!Reregister, registry
    <2>2. queue' # <<>>
        <3>1. Head(actions).data \in Seq(Bytes) /\ queue' = Append(queue, Head(actions).data)
            BY <1>5, PassedOn DEF OnActionSend
        <3> QED
            BY <3>1, AppendProperties, SMTT(30) DEF Types
    <2>3. "writable" \in interest'[Socket]
        BY <1>5, <2>1 DEF OnActionSend, R!Reregister, R!SetInterest, R!Dirs, registry
    <2> QED
        BY <2>1, <2>2, <2>3
<1>6. CASE OnActionClose
    BY <1>6 DEF OnActionClose, R!Deregister
<1>7. CASE TakeReady
    BY <1>7 DEF TakeReady, R!Take, R!Handling, R!kernel
<1>8. CASE ReadBlocked
    BY <1>8 DEF ReadBlocked, R!Blocked, R!kernel
<1>9. CASE ReadEnd
    BY <1>9 DEF ReadEnd, R!EndOfStream, R!kernel
<1>10. CASE ReadInterrupted
    BY <1>10 DEF ReadInterrupted
<1>11. ASSUME NEW n \in 0..SendBuffer, Write(n)
       PROVE  OnlyWhileOpen' /\ WriteInterest'
    BY <1>11 DEF Write, Writing, R!Handling, R!Exhaust, registry
<1>12. CASE WriteBlocked
    BY <1>12 DEF WriteBlocked, data, R!Blocked, R!kernel
<1>13. CASE WriteDone
    BY <1>13 DEF WriteDone, data, Writing, R!NothingToWrite, R!SetInterest
<1>14. CASE EndHandle
    BY <1>14 DEF EndHandle, R!EndHandler, R!kernel
<1>15. ASSUME \/ \E b \in Bytes : Arrive(b)
              \/ PeerEnds \/ Transmit \/ UserReceive
              \/ \E n \in 1..MaxIncoming : Read(n)
       PROVE  OnlyWhileOpen' /\ WriteInterest'
    <2>1. UNCHANGED <<entry, interest, taken, actions, queue>>
        BY <1>15 DEF Arrive, PeerEnds, Transmit, UserReceive, Read, registry,
           R!BecomeReady, R!Exhaust
    <2> QED
        BY <2>1
<1>16. ASSUME IoError \/ LoopStep \/ UNCHANGED vars
       PROVE  OnlyWhileOpen' /\ WriteInterest'
    <2>1. UNCHANGED <<entry, interest, taken, actions, queue>>
        BY <1>16 DEF IoError, LoopStep, vars, data, registry, R!Panic, R!LoopStep, R!Poll,
           R!PollFails, R!StartProcess, R!EndProcess, R!ProcessFails, R!StartHandler, R!Deliver, R!kernel
    <2> QED
        BY <2>1
<1> QED
    BY <1>2, <1>3, <1>4, <1>5, <1>6, <1>7, <1>8, <1>9, <1>10, <1>11, <1>12, <1>13,
       <1>14, <1>15, <1>16 DEF Next, HandlerStep

\* There is room before every read: the handler sees to it when it begins to
\* read, and again whenever it has filled the buffer.
LEMMA StepKeepsReadBuffer ==
    ASSUME TcpInv, [Next]_vars
    PROVE  ReadBuffer'
<1> USE RegistryFacts DEF TcpInv, ReadBuffer
<1>1. ASSUME UNCHANGED <<taken, space, read>>
      PROVE  ReadBuffer'
    BY <1>1
<1>2. CASE OnActionClose
    <2>1. taken[Socket] = {} /\ taken'[Socket] = {} /\ read' = read
        BY <1>2 DEF OnActionClose, R!Handling, R!Deregister
    <2> QED
        BY <2>1
<1>3. CASE TakeReady
    <2>1. read = <<>> /\ read' = <<>> /\ taken'[Socket] = state[Socket]
        BY <1>3 DEF TakeReady, R!Take, R!Handling
    <2>2. "readable" \in state[Socket] => space' > 0
        BY <1>3, BufferAssumption DEF TakeReady, Types
    <2> QED
        BY <2>1, <2>2
<1>4. ASSUME NEW n \in 1..MaxIncoming, Read(n)
      PROVE  ReadBuffer'
    <2>1. "readable" \in taken[Socket] /\ UNCHANGED taken
        BY <1>4 DEF Read, Reading, R!Exhaust, registry
    <2>2. space' = IF Len(read') = space THEN space + BufferStep ELSE space
        BY <1>4 DEF Read
    <2>3. Len(read') = Len(read) + n /\ n <= space - Len(read)
        BY <1>4, ReadBytes
    <2>4. Len(read) \in Nat /\ space \in Nat /\ BufferStep \in Nat \ {0} /\ n \in Nat
        BY BufferAssumption DEF Types
    <2>5. Len(read') < space'
        BY <2>2, <2>3, <2>4
    <2> QED
        BY <2>1, <2>5
<1>5. CASE ReadBlocked \/ ReadEnd \/ ReadInterrupted
    <2>1. taken' = [taken EXCEPT ![Socket] = @ \ {"readable"}] /\ read' = <<>>
        BY <1>5 DEF ReadBlocked, ReadEnd, ReadInterrupted, FinishRead, R!Blocked,
           R!EndOfStream
    <2> QED
        BY <2>1
<1>6. CASE WriteBlocked
    <2>1. "readable" \notin taken[Socket] /\ read' = read
          /\ taken' = [taken EXCEPT ![Socket] = @ \ {"writable"}]
        BY <1>6 DEF WriteBlocked, Writing, data, R!Blocked
    <2> QED
        BY <2>1
<1>7. CASE WriteDone
    <2>1. "readable" \notin taken[Socket] /\ read' = read
          /\ taken' = [taken EXCEPT ![Socket] = @ \ {"writable"}]
        BY <1>7 DEF WriteDone, Writing, data, R!NothingToWrite
    <2> QED
        BY <2>1
<1>8. ASSUME \/ \E b \in Bytes : Arrive(b)
             \/ \E m \in Messages : Act(Send(m))
             \/ \E n \in 0..SendBuffer : Write(n)
             \/ PeerEnds \/ Transmit \/ OpenStream \/ OpenFails \/ UserReceive \/ Act(Close)
             \/ OnActionSend \/ EndHandle \/ IoError
             \/ LoopStep \/ UNCHANGED vars
      PROVE  ReadBuffer'
    <2>1. CASE LoopStep
        BY <2>1 DEF LoopStep, data, R!LoopStep, R!Poll, R!PollFails, R!StartProcess,
           R!EndProcess, R!ProcessFails, R!StartHandler, R!Deliver
    <2>2. CASE ~LoopStep
        <3>1. UNCHANGED <<taken, space, read>>
            BY <1>8, <2>2 DEF Arrive, PeerEnds, Transmit, OpenStream, OpenFails,
               UserReceive, Act, OnActionSend, Write, EndHandle, IoError, vars, data,
               registry, R!BecomeReady, R!Register, R!RegisterFails, R!Signal,
               R!Reregister, R!Exhaust, R!EndHandler, R!Panic
        <3> QED
            BY <3>1
    <2> QED
        BY <2>1, <2>2
<1> QED
    BY <1>2, <1>3, <1>4, <1>5, <1>6, <1>7, <1>8 DEF Next, HandlerStep

\* Closed and messages are told apart.
LEMMA ClosedIsNoMessage == \A m : Recv(m) # Closed
BY DEF Recv, Closed

\* The end of the stream stays where it is, after all that was received: what
\* the peer has ended brings no more bytes, and a service that has passed on
\* everything has nothing but Closed to say.
LEMMA StepKeepsEnd ==
    ASSUME TcpInv, [Next]_vars
    PROVE  EndIsLast'
<1> USE DEF TcpInv, EndIsLast
<1>1. ASSUME UNCHANGED <<closed, told, events, read>>,
             fin' = fin \/ fin' = TRUE,
             inbox' = inbox \/ inbox' = <<>> \/ ~closed
      PROVE  EndIsLast'
    BY <1>1
<1>2. ASSUME NEW b \in Bytes, Arrive(b)
      PROVE  EndIsLast'
    BY <1>2, <1>1 DEF Arrive, user
<1>3. CASE UserReceive
    <2>1. events # <<>> /\ events' = Tail(events) /\ told' = (told \/ Head(events) = Closed)
          /\ UNCHANGED <<inbox, fin, read, closed>>
        BY <1>3 DEF UserReceive, kernel
    <2>2. /\ Len(events) \in Nat \ {0} /\ DOMAIN events = 1..Len(events)
          /\ DOMAIN events' = 1..(Len(events) - 1) /\ Head(events) = events[1]
          /\ \A i \in 1..(Len(events) - 1) : events'[i] = events[i + 1]
        BY <2>1, HeadTailProperties, LenProperties DEF Types
    <2>3. \A i \in DOMAIN events' : i + 1 \in DOMAIN events /\ events'[i] = events[i + 1]
        BY <2>2
    <2>4. told' => closed
        <3>1. told => closed
            OBVIOUS
        <3>2. Head(events) = Closed => closed
            <4>1. 1 \in DOMAIN events
                BY <2>2
            <4> QED
                BY <2>2, <4>1
        <3> QED
            BY <2>1, <3>1, <3>2, Zenon
    <2>5. (\E i \in DOMAIN events' : events'[i] = Closed) => closed
        BY <2>3
    <2>6. ASSUME NEW i \in DOMAIN events', NEW j \in DOMAIN events', i < j,
                 events'[i] = Closed
          PROVE  events'[j] = Closed
        <3>1. i + 1 < j + 1
            BY <2>2, <2>6
        <3> QED
            BY <2>3, <2>6, <3>1
    <2> QED
        BY <2>1, <2>4, <2>5, <2>6
<1>4. ASSUME NEW e \in Events, events' = Append(events, e),
             e = Closed => closed, e # Closed => ~closed,
             UNCHANGED <<told, fin, inbox>>, closed' = closed \/ closed' = TRUE,
             closed' => fin /\ inbox = <<>> /\ read' = <<>>
      PROVE  EndIsLast'
    <2>1. /\ Len(events) \in Nat /\ DOMAIN events = 1..Len(events)
          /\ DOMAIN events' = 1..(Len(events) + 1) /\ events'[Len(events) + 1] = e
          /\ \A i \in 1..Len(events) : events'[i] = events[i]
        BY <1>4, AppendProperties, LenProperties DEF Types
    <2>2. \A i \in DOMAIN events' : i = Len(events) + 1 \/ i \in DOMAIN events
        BY <2>1
    <2>3. told' => closed'
        BY <1>4
    <2>4. (\E i \in DOMAIN events' : events'[i] = Closed) => closed'
        BY <1>4, <2>1, <2>2
    <2>5. ASSUME NEW i \in DOMAIN events', NEW j \in DOMAIN events', i < j,
                 events'[i] = Closed
          PROVE  events'[j] = Closed
        <3>1. i \in DOMAIN events
            BY <2>1, <2>5
        <3>2. events[i] = Closed
            BY <2>1, <2>5, <3>1
        <3>3. CASE j = Len(events) + 1
            BY <1>4, <2>1, <3>1, <3>2, <3>3
        <3>4. CASE j \in DOMAIN events
            BY <2>1, <2>5, <3>1, <3>2, <3>4
        <3> QED
            BY <2>2, <3>3, <3>4
    <2> QED
        BY <1>4, <2>3, <2>4, <2>5
<1>5. ASSUME NEW n \in 1..MaxIncoming, Read(n)
      PROVE  EndIsLast'
    <2>1. ~closed
        BY <1>5, ReadBytes
    <2> QED
        BY <1>5, <2>1 DEF Read, user
<1>6. CASE ReadBlocked \/ ReadInterrupted
    <2>1. FinishRead /\ UNCHANGED <<inbox, fin, closed, told>>
        BY <1>6 DEF ReadBlocked, ReadInterrupted, kernel
    <2>2. CASE read = <<>>
        <3>1. events' = events /\ read' = read
            BY <2>1, <2>2, PassedOn
        <3> QED
            BY <2>1, <3>1
    <2>3. CASE read # <<>>
        <3>1. events' = Append(events, Recv(read)) /\ Recv(read) \in Events
              /\ Recv(read) # Closed /\ ~closed
            BY <2>1, <2>3, PassedOn, ClosedIsNoMessage
        <3> QED
            BY <2>1, <3>1, <1>4
    <2> QED
        BY <2>2, <2>3
<1>7. CASE ReadEnd
    <2>1. FinishRead /\ UNCHANGED <<inbox, fin, told>> /\ closed' = TRUE
        BY <1>7 DEF ReadEnd, kernel
    <2>2. inbox = <<>> /\ fin /\ read' = <<>>
        <3>1. "readable" \in taken[Socket]
            BY <1>7 DEF ReadEnd, R!EndOfStream
        <3>2. Len(read) < space /\ Len(read) \in Nat /\ space \in Nat
            BY <3>1 DEF ReadBuffer, Types
        <3>3. Len(read) # space
            BY <3>2
        <3> QED
            BY <1>7, <2>1, <3>3, PassedOn DEF ReadEnd
    <2>3. CASE read = <<>>
        <3>1. events' = events
            BY <2>1, <2>3, PassedOn
        <3> QED
            BY <2>1, <2>2, <3>1
    <2>4. CASE read # <<>>
        <3>1. events' = Append(events, Recv(read)) /\ Recv(read) \in Events
              /\ Recv(read) # Closed /\ ~closed
            BY <2>1, <2>4, PassedOn, ClosedIsNoMessage
        <3> QED
            BY <2>1, <2>2, <3>1, <1>4
    <2> QED
        BY <2>3, <2>4
<1>8. CASE EndHandle
    <2>1. UNCHANGED <<inbox, fin, told, closed, read>>
          /\ events' = IF closed THEN Append(events, Closed) ELSE events
        BY <1>8 DEF EndHandle, kernel
    <2>2. CASE closed
        <3>1. Closed \in Events
            BY DEF Events
        <3> QED
            BY <2>1, <2>2, <3>1, <1>4
    <2>3. CASE ~closed
        BY <2>1, <2>3
    <2> QED
        BY <2>2, <2>3
<1>9. ASSUME \/ \E m \in Messages : Act(Send(m))
             \/ \E n \in 0..SendBuffer : Write(n)
             \/ PeerEnds \/ Transmit \/ OpenStream \/ OpenFails \/ Act(Close)
             \/ OnActionSend \/ OnActionClose \/ TakeReady \/ WriteBlocked \/ WriteDone
             \/ IoError \/ LoopStep \/ UNCHANGED vars
      PROVE  EndIsLast'
    <2>1. /\ UNCHANGED <<closed, told, events, read>> /\ fin' \in {fin, TRUE}
          /\ inbox' \in {inbox, <<>>}
        BY <1>9 DEF PeerEnds, Transmit, OpenStream, OpenFails, Act, OnActionSend,
           OnActionClose, TakeReady, Write, WriteBlocked, WriteDone, IoError, LoopStep,
           vars, data, kernel, user
    <2> QED
        BY <2>1, <1>1
<1> QED
    BY <1>2, <1>3, <1>5, <1>6, <1>7, <1>8, <1>9 DEF Next, HandlerStep

\* Every step keeps the invariant.
LEMMA TcpNextInv == TcpInv /\ [Next]_vars => TcpInv'
<1> SUFFICES ASSUME TcpInv, [Next]_vars PROVE TcpInv'
    OBVIOUS
<1>1. R!TypeOK' /\ Types'
    BY RegistryKeepsType, StepKeepsTypes
<1>2. OnlyWhileOpen' /\ WriteInterest' /\ ReadBuffer' /\ EndIsLast'
    BY StepKeepsInterest, StepKeepsReadBuffer, StepKeepsEnd
<1> QED
    BY <1>1, <1>2 DEF TcpInv

\* The initial states satisfy the invariant.
LEMMA TcpInitInv == Init => TcpInv
<1> SUFFICES ASSUME Init PROVE TcpInv
    OBVIOUS
<1>1. R!TypeOK
    BY RP!InitInv, SameRegistry DEF Init, RP!RegistryInv
<1>2. Types
    <2>1. /\ <<>> \in Seq(Bytes) /\ <<>> \in Seq(Actions) /\ <<>> \in Seq(Seq(Bytes))
          /\ <<>> \in Seq(Events) /\ Len(<<>>) = 0
        OBVIOUS
    <2>2. inbox \in Seq(Bytes) /\ outbox \in Seq(Bytes) /\ Len(outbox) <= SendBuffer
        BY <2>1, ConstantsAssumption DEF Init
    <2>3. fin \in BOOLEAN /\ closed \in BOOLEAN /\ told \in BOOLEAN
        BY Zenon DEF Init
    <2>4. space \in Nat
        BY DEF Init
    <2>5. actions \in Seq(Actions) /\ queue \in Seq(Seq(Bytes)) /\ read \in Seq(Bytes)
          /\ events \in Seq(Events)
        BY <2>1, Zenon DEF Init
    <2> QED
        BY <2>2, <2>3, <2>4, <2>5 DEF Types
<1>3. taken[Socket] = {}
    BY DEF Init, R!Init, R!Nothing
<1>4. EndIsLast
    <2>1. DOMAIN events = {}
        BY DEF Init
    <2> QED
        BY <2>1 DEF Init, EndIsLast
<1> QED
    BY <1>1, <1>2, <1>3, <1>4 DEF TcpInv, Init, OnlyWhileOpen, WriteInterest, Open, ReadBuffer

\* The invariant holds throughout.
LEMMA TcpInvariant == Spec => []TcpInv
BY TcpInitInv, TcpNextInv, PTL DEF Spec

\* The state keeps its type, the kernel's buffer its limit, what is read fits
\* the buffer, and a service that has stopped leaves nothing in its queues.
THEOREM StreamTypeCorrect == Spec => []TypeOK
<1>1. ASSUME TcpInv PROVE TypeOK
    <2> USE <1>1 DEF TcpInv, Types
    <2>1. {fin, closed, told} \subseteq BOOLEAN
        OBVIOUS
    <2>2. \A i \in DOMAIN actions : actions[i] \in {Send(m) : m \in Messages} \cup {Close}
        BY ElementOfSeq, LenProperties DEF Actions
    <2>3. ASSUME NEW i \in DOMAIN events
          PROVE  \/ events[i] = Closed
                 \/ events[i] = Recv(events[i].data) /\ events[i].data \in Seq(Bytes) \ {<<>>}
        <3>1. events[i] \in Events
            BY ElementOfSeq, LenProperties
        <3>2. CASE events[i] = Closed
            BY <3>2
        <3>3. ASSUME NEW m \in Seq(Bytes) \ {<<>>}, events[i] = Recv(m)
              PROVE  events[i] = Recv(events[i].data) /\ events[i].data \in Seq(Bytes) \ {<<>>}
            BY <3>3 DEF Recv
        <3> QED
            BY <3>1, <3>2, <3>3 DEF Events
    <2>4. Len(read) <= space
        BY DEF ReadBuffer
    <2>5. ~Open => actions = <<>> /\ queue = <<>> /\ read = <<>>
        <3>1. ~Open => taken[Socket] = {}
            BY RegistryFacts
        <3> QED
            BY <3>1 DEF OnlyWhileOpen, ReadBuffer
    <2> QED
        BY <2>1, <2>2, <2>3, <2>4, <2>5 DEF TypeOK
<1> QED
    BY <1>1, TcpInvariant, PTL

\* For every queue and every buffer, write events are asked for exactly while
\* something waits to be written.
THEOREM StreamWritesAreAwaited == Spec => []InterestMatchesQueue
<1>1. TcpInv => InterestMatchesQueue
    BY RegistryFacts DEF TcpInv, WriteInterest, InterestMatchesQueue
<1> QED
    BY <1>1, TcpInvariant, PTL

\* For all sizes of the buffer, and all numbers of bytes that the calls give,
\* none of them is made without space: zero bytes mean the end.
THEOREM ReadsHaveSpace == Spec => []ReadHasSpace
<1>1. TcpInv => ReadHasSpace
    BY DEF TcpInv, ReadBuffer, ReadHasSpace, Reading
<1> QED
    BY <1>1, TcpInvariant, PTL

\* As long as no read is interrupted the service does what the registry
\* expects of it, bytes and the end of the stream coming at any time.
THEOREM StreamKeepsProtocol ==
    ASSUME ~Interrupts
    PROVE  Spec => UsesRegistryProperly
<1>1. Init => R!Init
    BY DEF Init
<1>2. TcpInv /\ [Next]_vars => [R!Next]_R!vars
    BY StreamUsesRegistry DEF ReadInterrupted
<1> QED
    BY <1>1, <1>2, TcpInvariant, PTL DEF Spec, UsesRegistryProperly, R!Spec

\* Hence no readiness of the socket is lost, and the event loop does not fail
\* on one of its events.
THEOREM StreamLosesNothing ==
    ASSUME ~Interrupts
    PROVE  Spec => [](NoLostReadiness /\ R!LoopNeverFails)
<1>1. RP!RegistryInv => NoLostReadiness /\ R!LoopNeverFails
    BY DEF RP!RegistryInv, RP!NoLostReadiness, NoLostReadiness, R!NoLostReadiness,
           RP!LoopNeverFails, R!LoopNeverFails
<1>2. Init => RP!RegistryInv
    BY RP!InitInv, SameRegistry DEF Init
<1>3. RP!RegistryInv /\ TcpInv /\ [Next]_vars => RP!RegistryInv'
    BY StreamUsesRegistry, SameRegistry, RP!NextInv DEF ReadInterrupted
<1> QED
    BY <1>1, <1>2, <1>3, TcpInvariant, PTL DEF Spec

-----------------------------------------------------------------------------
(* The refinement of ByteStream.                                           *)

\* The bytes of an action or an event.
Items  == Actions \cup Events
DataOf == [x \in Items |-> x.data]

\* Payload flattens them.
LEMMA PayloadOfEach ==
    /\ DataOf \in [Items -> Seq(Bytes)]
    /\ \A ms \in Seq(Items) : Payload(ms) = FlattenSeq(Each(DataOf, ms))
<1>1. DataOf \in [Items -> Seq(Bytes)]
    <2>1. <<>> \in Seq(Bytes)
        OBVIOUS
    <2>2. \A x \in Items : x.data \in Seq(Bytes)
        <3>1. \A m \in Messages : Send(m).data \in Seq(Bytes)
            BY ConstantsAssumption DEF Send
        <3>2. \A m \in Seq(Bytes) : Recv(m).data \in Seq(Bytes)
            BY DEF Recv
        <3>3. Close.data \in Seq(Bytes) /\ Closed.data \in Seq(Bytes)
            BY <2>1 DEF Close, Closed
        <3> QED
            BY <3>1, <3>2, <3>3 DEF Items, Actions, Events
    <2> QED
        BY <2>2 DEF DataOf
<1>2. ASSUME NEW ms \in Seq(Items)
      PROVE  Payload(ms) = FlattenSeq(Each(DataOf, ms))
    <2>1. \A i \in DOMAIN ms : ms[i] \in Items
        <3>1. DOMAIN ms = 1..Len(ms)
            BY LenProperties
        <3> QED
            BY <3>1, ElementOfSeq
    <2>2. [i \in DOMAIN ms |-> ms[i].data] = Each(DataOf, ms)
        BY <2>1 DEF DataOf, Each
    <2> QED
        BY <2>2, Zenon DEF Payload
<1> QED
    BY <1>1, <1>2

\* The bytes are in the order of their messages.
LEMMA PayloadInOrder ==
    /\ Payload(<<>>) = <<>>
    /\ \A ms \in Seq(Items) : Payload(ms) \in Seq(Bytes)
    /\ \A ms \in Seq(Items), x \in Items : Payload(Append(ms, x)) = Payload(ms) \o x.data
    /\ \A ms \in Seq(Items) :
          ms # <<>> => Payload(ms) = Head(ms).data \o Payload(Tail(ms))
<1>1. DataOf \in [Items -> Seq(Bytes)]
    BY PayloadOfEach
<1>2. \A x \in Items : DataOf[x] = x.data
    BY DEF DataOf
<1>3. /\ FlattenSeq(Each(DataOf, <<>>)) = <<>>
      /\ \A ms \in Seq(Items) : FlattenSeq(Each(DataOf, ms)) \in Seq(Bytes)
    BY <1>1, FlattenEachType
<1>4. \A ms \in Seq(Items), x \in Items :
          FlattenSeq(Each(DataOf, Append(ms, x))) = FlattenSeq(Each(DataOf, ms)) \o DataOf[x]
    BY <1>1, FlattenEachAppend
<1>5. \A ms \in Seq(Items) : ms # <<>> =>
          FlattenSeq(Each(DataOf, ms))
              = DataOf[Head(ms)] \o FlattenSeq(Each(DataOf, Tail(ms)))
    BY <1>1, FlattenEachHead
<1>6. Payload(<<>>) = <<>>
    <2>1. <<>> \in Seq(Items)
        OBVIOUS
    <2> QED
        BY <2>1, <1>3, PayloadOfEach
<1>7. ASSUME NEW ms \in Seq(Items) PROVE Payload(ms) \in Seq(Bytes)
    BY <1>3, PayloadOfEach
<1>8. ASSUME NEW ms \in Seq(Items), NEW x \in Items
      PROVE  Payload(Append(ms, x)) = Payload(ms) \o x.data
    <2>1. Append(ms, x) \in Seq(Items)
        BY AppendProperties
    <2> QED
        BY <2>1, <1>2, <1>4, PayloadOfEach
<1>9. ASSUME NEW ms \in Seq(Items), ms # <<>>
      PROVE  Payload(ms) = Head(ms).data \o Payload(Tail(ms))
    <2>1. Head(ms) \in Items /\ Tail(ms) \in Seq(Items)
        BY <1>9, HeadTailProperties
    <2> QED
        BY <1>9, <2>1, <1>2, <1>5, PayloadOfEach
<1> QED
    BY <1>6, <1>7, <1>8, <1>9

\* Closed events have no bytes.
LEMMA ClosedHasNoBytes == \A ms \in Seq({Closed}) : Payload(ms) = <<>>
<1> SUFFICES ASSUME NEW ms \in Seq({Closed}) PROVE Payload(ms) = <<>>
    OBVIOUS
<1> DEFINE f == [x \in {Closed} |-> <<>>]
<1>1. f \in [{Closed} -> Seq({})]
    <2>1. <<>> \in Seq({})
        OBVIOUS
    <2> QED
        BY <2>1
<1>2. [i \in DOMAIN ms |-> ms[i].data] = Each(f, ms)
    <2>1. \A i \in DOMAIN ms : ms[i] = Closed
        BY LenProperties, ElementOfSeq
    <2>2. \A i \in DOMAIN ms : ms[i].data = f[ms[i]]
        BY <2>1 DEF Closed
    <2> HIDE DEF f
    <2> QED
        BY <2>2, Zenon DEF Each
<1> HIDE DEF f
<1>3. FlattenSeq(Each(f, ms)) \in Seq({})
    BY <1>1, FlattenEachType
<1> QED
    BY <1>2, <1>3, SeqOfNothing, Zenon DEF Payload

\* The bytes between the user and the network.
LEMMA StreamBytes ==
    ASSUME TcpInv
    PROVE  /\ actions \in Seq(Items) /\ events \in Seq(Items)
           /\ FlattenSeq(queue) \in Seq(Bytes)
           /\ Payload(actions) \in Seq(Bytes) /\ Payload(events) \in Seq(Bytes)
           /\ outbox \o FlattenSeq(queue) \in Seq(Bytes)
           /\ FlattenSeq(queue) \o Payload(actions) \in Seq(Bytes)
           /\ Outgoing \in Seq(Bytes)
           /\ Outgoing = outbox \o (FlattenSeq(queue) \o Payload(actions))
           /\ Payload(events) \o read \in Seq(Bytes)
           /\ Incoming \in Seq(Bytes)
<1> USE DEF TcpInv, Types
<1>1. actions \in Seq(Items) /\ events \in Seq(Items)
    BY SeqMonotonic DEF Items
<1>2. Payload(actions) \in Seq(Bytes) /\ Payload(events) \in Seq(Bytes)
    BY <1>1, PayloadInOrder
<1>3. FlattenSeq(queue) \in Seq(Bytes)
    BY FlattenType
<1>4. /\ outbox \o FlattenSeq(queue) \in Seq(Bytes)
      /\ FlattenSeq(queue) \o Payload(actions) \in Seq(Bytes)
      /\ Payload(events) \o read \in Seq(Bytes)
    BY <1>2, <1>3, ConcatProperties
<1>5. Outgoing \in Seq(Bytes) /\ Incoming \in Seq(Bytes)
    BY <1>2, <1>4, ConcatProperties DEF Outgoing, Incoming
<1>6. Outgoing = outbox \o (FlattenSeq(queue) \o Payload(actions))
    <2>1. outbox \in Seq(Bytes)
        OBVIOUS
    <2> HIDE DEF TcpInv, Types
    <2>2. (outbox \o FlattenSeq(queue)) \o Payload(actions)
              = outbox \o (FlattenSeq(queue) \o Payload(actions))
        BY <2>1, <1>2, <1>3, ConcatAssociative
    <2> QED
        BY <2>2 DEF Outgoing
<1> QED
    BY <1>1, <1>2, <1>3, <1>4, <1>5, <1>6

\* A first part is what a cut leaves of both.
LEMMA FirstIsPrefix ==
    \A s, t \in Seq(Bytes) : s \in Stream!Prefixes(s \o t)
<1> SUFFICES ASSUME NEW s \in Seq(Bytes), NEW t \in Seq(Bytes)
             PROVE  s \in Stream!Prefixes(s \o t)
    OBVIOUS
<1>1. Len(s) \in 0..Len(s \o t) /\ SubSeq(s \o t, 1, Len(s)) = s
    BY ConcatPrefix
<1> QED
    BY <1>1 DEF Stream!Prefixes

\* The steps on the side of the network.
LEMMA NetworkRefines ==
    ASSUME TcpInv, (\E b \in Bytes : Arrive(b)) \/ PeerEnds \/ Transmit
    PROVE  Stream!Next
<1>1. ASSUME NEW b \in Bytes, Arrive(b)
      PROVE  Stream!Arrive(b)
    <2>1. /\ Connected /\ ~fin /\ inbox' = Append(inbox, b) /\ entry' = entry
          /\ UNCHANGED <<fin, outbox, actions, queue, read, events, told>>
        BY <1>1 DEF Arrive, R!BecomeReady, registry, user
    <2>2. StreamState # "closed" /\ StreamState' = StreamState
        BY <2>1 DEF StreamState, Open, Connected
    <2>3. Incoming' = Append(Incoming, b)
        <3>1. Payload(events) \o read \in Seq(Bytes) /\ inbox \in Seq(Bytes)
            BY StreamBytes DEF TcpInv, Types
        <3>2. (Payload(events) \o read) \o Append(inbox, b)
                  = Append((Payload(events) \o read) \o inbox, b)
            BY <3>1, ConcatAppend
        <3> QED
            BY <2>1, <3>2 DEF Incoming
    <2>4. End = "none" /\ End' = End /\ Outgoing' = Outgoing
        BY <2>1 DEF TcpInv, EndIsLast, End, Outgoing
    <2> QED
        BY <2>2, <2>3, <2>4 DEF Stream!Arrive
<1>2. ASSUME PeerEnds
      PROVE  Stream!PeerEnds
    <2>1. /\ Connected /\ ~fin /\ fin' = TRUE /\ entry' = entry
          /\ UNCHANGED <<inbox, outbox, actions, queue, read, events, told>>
        BY <1>2 DEF PeerEnds, R!BecomeReady, registry, user
    <2>2. StreamState # "closed" /\ StreamState' = StreamState
        BY <2>1 DEF StreamState, Open, Connected
    <2>3. End = "none" /\ End' = "pending"
        BY <2>1 DEF TcpInv, EndIsLast, End
    <2>4. Outgoing' = Outgoing /\ Incoming' = Incoming
        BY <2>1 DEF Outgoing, Incoming
    <2> QED
        BY <2>2, <2>3, <2>4 DEF Stream!PeerEnds
<1>3. ASSUME Transmit
      PROVE  Stream!Transmit
    <2>1. /\ outbox # <<>> /\ outbox' = Tail(outbox) /\ entry' = entry
          /\ UNCHANGED <<inbox, fin, actions, queue, read, events, told>>
        BY <1>3 DEF Transmit, R!BecomeReady, registry, user
    <2>2. StreamState' = StreamState /\ Incoming' = Incoming /\ End' = End
        BY <2>1 DEF StreamState, Open, Incoming, End
    <2> DEFINE rest == FlattenSeq(queue) \o Payload(actions)
    <2>3. Outgoing # <<>> /\ Tail(Outgoing) = Tail(outbox) \o rest
        BY <2>1, StreamBytes, ConcatTail, ZenonT(60) DEF TcpInv, Types
    <2>4. Outgoing' = Tail(outbox) \o rest
        <3>1. Tail(outbox) \in Seq(Bytes)
            BY <2>1, HeadTailProperties DEF TcpInv, Types
        <3>2. Outgoing' = (Tail(outbox) \o FlattenSeq(queue)) \o Payload(actions)
            BY <2>1 DEF Outgoing
        <3>3. FlattenSeq(queue) \in Seq(Bytes) /\ Payload(actions) \in Seq(Bytes)
            BY StreamBytes
        <3>4. (Tail(outbox) \o FlattenSeq(queue)) \o Payload(actions) = Tail(outbox) \o rest
            BY <3>1, <3>3, ConcatAssociative
        <3> QED
            BY <3>2, <3>4
    <2> QED
        BY <2>2, <2>3, <2>4 DEF Stream!Transmit
<1> QED
    BY <1>1, <1>2, <1>3 DEF Stream!Next

\* The first event is a message, and its bytes are the first that the user
\* gets, or it is the end, and there are no more.
LEMMA UserReceives ==
    ASSUME TcpInv, UserReceive
    PROVE  Stream!Receive \/ Stream!LearnEnd \/ UNCHANGED Stream!bvars
<1> USE DEF TcpInv, Types
<1>1. /\ events # <<>> /\ events' = Tail(events) /\ told' = (told \/ Head(events) = Closed)
      /\ UNCHANGED <<entry, inbox, fin, outbox, actions, queue, read>>
    BY DEF UserReceive, registry, kernel
<1>2. Head(events) \in Events /\ Tail(events) \in Seq(Events)
    BY <1>1, HeadTailProperties
<1>3. StreamState' = StreamState /\ Outgoing' = Outgoing
    BY <1>1 DEF StreamState, Open, Outgoing
<1>4. ASSUME NEW m \in Seq(Bytes) \ {<<>>}, Head(events) = Recv(m)
      PROVE  Stream!Receive
    <2>1. told' = told
        BY <1>1, <1>4, ClosedIsNoMessage, Zenon
    <2>2. End' = End
        BY <1>1, <2>1 DEF End
    <2> DEFINE rest == Payload(Tail(events))
    <2>3. Payload(events) = m \o rest /\ rest \in Seq(Bytes)
        <3>1. Tail(events) \in Seq(Items)
            BY <1>2, SeqMonotonic DEF Items
        <3>2. Payload(events) = Recv(m).data \o rest
            BY <1>1, <1>4, StreamBytes, PayloadInOrder
        <3>3. Recv(m).data = m
            BY DEF Recv
        <3> QED
            BY <3>1, <3>2, <3>3, PayloadInOrder
    <2>4. Incoming' = rest \o read \o inbox
        BY <1>1 DEF Incoming
    <2> HIDE DEF rest
    <2>5. rest \o read \in Seq(Bytes) /\ rest \o read \o inbox \in Seq(Bytes)
        <3>1. rest \o read \in Seq(Bytes)
            BY <2>3, ConcatProperties
        <3> QED
            BY <3>1, ConcatProperties
    <2>6. Incoming = m \o (rest \o read \o inbox)
        <3>1. m \in Seq(Bytes) /\ rest \in Seq(Bytes) /\ read \in Seq(Bytes)
            BY <2>3
        <3>2. rest \o read \in Seq(Bytes) /\ inbox \in Seq(Bytes)
            BY <2>5
        <3> HIDE DEF TcpInv, Types
        <3>3. (m \o rest) \o read = m \o (rest \o read)
            BY <3>1, ConcatAssociative
        <3>4. (m \o (rest \o read)) \o inbox = m \o ((rest \o read) \o inbox)
            <4> DEFINE middle == rest \o read
            <4>1. middle \in Seq(Bytes)
                BY <3>2
            <4> HIDE DEF middle
            <4>2. (m \o middle) \o inbox = m \o (middle \o inbox)
                BY <3>1, <3>2, <4>1, ConcatAssociative, SMTT(30)
            <4> QED
                BY <4>2 DEF middle
        <3> QED
            BY <2>3, <3>3, <3>4 DEF Incoming
    <2>7. Len(m) \in 1..Len(Incoming)
        BY <2>5, <2>6, ConcatProperties
    <2>8. SubSeq(Incoming, Len(m) + 1, Len(Incoming)) = Incoming'
        BY <2>4, <2>5, <2>6, ConcatDrop
    <2> QED
        BY <1>3, <2>2, <2>7, <2>8 DEF Stream!Receive
<1>5. ASSUME Head(events) = Closed
      PROVE  Stream!LearnEnd \/ UNCHANGED Stream!bvars
    <2>1. /\ Len(events) \in Nat \ {0} /\ DOMAIN events = 1..Len(events)
          /\ Head(events) = events[1] /\ events \in [1..Len(events) -> Events]
        BY <1>1, LenProperties
    <2>2. ASSUME NEW i \in 1..Len(events) PROVE events[i] \in {Closed}
        <3>1. 1 \in DOMAIN events /\ i \in DOMAIN events /\ (i = 1 \/ 1 < i)
            BY <2>1
        <3> QED
            BY <1>5, <2>1, <3>1 DEF EndIsLast
    <2>3. events \in Seq({Closed})
        <3>1. events \in [1..Len(events) -> {Closed}]
            BY <2>1, <2>2
        <3>2. Len(events) \in Nat
            BY <2>1
        <3> HIDE DEF TcpInv, Types
        <3> QED
            BY <3>1, <3>2
    <2>4. Payload(events) = <<>> /\ Payload(Tail(events)) = <<>>
        BY <1>1, <2>3, HeadTailProperties, ClosedHasNoBytes
    <2>5. closed /\ fin /\ inbox = <<>> /\ read = <<>>
        <3>1. 1 \in DOMAIN events /\ events[1] = Closed
            BY <1>5, <2>1
        <3> QED
            BY <3>1 DEF EndIsLast
    <2>6. Incoming = <<>> /\ Incoming' = <<>>
        <3>1. <<>> \o <<>> = <<>>
            OBVIOUS
        <3> QED
            BY <1>1, <2>4, <2>5, <3>1 DEF Incoming
    <2>7. End \in {"pending", "told"} /\ End' = "told"
        BY <1>1, <1>5, <2>5 DEF End
    <2> QED
        BY <1>3, <2>6, <2>7 DEF Stream!LearnEnd, Stream!bvars
<1> QED
    BY <1>2, <1>4, <1>5 DEF Events

\* The steps on the side of the user.
LEMMA UserRefines ==
    ASSUME TcpInv,
           \/ OpenStream \/ OpenFails \/ UserReceive
           \/ (\E m \in Messages : Act(Send(m))) \/ Act(Close)
    PROVE  [Stream!Next]_Stream!bvars
<1>1. CASE OpenStream
    <2>1. /\ entry[Socket] = "none" /\ UNCHANGED data
          /\ entry' = [entry EXCEPT ![Socket] = "open"]
        BY <1>1 DEF OpenStream, R!Register
    <2>2. StreamState = "new" /\ StreamState' = "open"
        BY <2>1, RegistryFacts DEF TcpInv, StreamState, Open
    <2>3. Outgoing' = Outgoing /\ Incoming' = Incoming /\ End' = End
        BY <2>1 DEF data, kernel, user, Outgoing, Incoming, End
    <2> QED
        BY <2>2, <2>3 DEF Stream!Next, Stream!Open
<1>2. CASE OpenFails
    <2>1. /\ entry[Socket] = "none" /\ entry' = [entry EXCEPT ![Socket] = "leaked"]
          /\ inbox' = <<>> /\ UNCHANGED <<fin, outbox, actions, queue, read, events, told>>
        BY <1>2 DEF OpenFails, R!RegisterFails, user
    <2>2. StreamState = "new" /\ StreamState' = "closed"
        BY <2>1, RegistryFacts DEF TcpInv, StreamState, Open
    <2>3. Outgoing' = Outgoing /\ End' = End
        BY <2>1 DEF Outgoing, End
    <2>4. Outgoing' \in Stream!Prefixes(Outgoing)
        <3>1. <<>> \in Seq(Bytes) /\ Outgoing \o <<>> = Outgoing
            BY StreamBytes, ConcatEmptySeq
        <3> QED
            BY <2>3, <3>1, StreamBytes, FirstIsPrefix
    <2>5. Incoming' \in Stream!Prefixes(Incoming)
        <3>1. Incoming' = Payload(events) \o read
            BY <2>1, StreamBytes, ConcatEmptySeq DEF Incoming
        <3> QED
            BY <3>1, StreamBytes, FirstIsPrefix DEF Incoming, TcpInv, Types
    <2> QED
        BY <2>2, <2>3, <2>4, <2>5 DEF Stream!Next, Stream!Close
<1>3. CASE UserReceive
    BY <1>3, UserReceives DEF Stream!Next
<1>4. ASSUME NEW action \in Actions, Act(action)
      PROVE  /\ StreamState = "open" /\ UNCHANGED <<StreamState, Incoming, End>>
             /\ Outgoing' = Outgoing \o action.data
    <2>1. /\ Open /\ actions' = Append(actions, action)
          /\ UNCHANGED <<entry, inbox, fin, outbox, queue, read, events, told>>
        BY <1>4 DEF Act, R!Signal, Open, kernel, user
    <2>2. StreamState = "open" /\ UNCHANGED <<StreamState, Incoming, End>>
        BY <2>1 DEF StreamState, Open, Incoming, End
    <2>3. action \in Items /\ action.data \in Seq(Bytes)
        BY PayloadOfEach DEF Items, DataOf
    <2>4. Payload(actions') = Payload(actions) \o action.data
        BY <2>1, <2>3, StreamBytes, PayloadInOrder
    <2>5. Outgoing' = (outbox \o FlattenSeq(queue)) \o (Payload(actions) \o action.data)
        BY <2>1, <2>4 DEF Outgoing
    <2>6. /\ outbox \o FlattenSeq(queue) \in Seq(Bytes) /\ Payload(actions) \in Seq(Bytes)
          /\ action.data \in Seq(Bytes)
        BY <2>3, StreamBytes
    <2>7. ((outbox \o FlattenSeq(queue)) \o Payload(actions)) \o action.data
              = (outbox \o FlattenSeq(queue)) \o (Payload(actions) \o action.data)
        <3> DEFINE both == outbox \o FlattenSeq(queue)
                   bytes == action.data
        <3>1. both \in Seq(Bytes) /\ Payload(actions) \in Seq(Bytes) /\ bytes \in Seq(Bytes)
            BY <2>6
        <3> HIDE DEF both, bytes
        <3>2. (both \o Payload(actions)) \o bytes = both \o (Payload(actions) \o bytes)
            BY <3>1, ConcatAssociative, SMTT(30)
        <3> QED
            BY <3>2 DEF both, bytes
    <2> QED
        BY <2>2, <2>5, <2>7 DEF Outgoing
<1>5. ASSUME NEW m \in Messages, Act(Send(m))
      PROVE  Stream!Write(m)
    <2>1. Send(m) \in Actions /\ Send(m).data = m
        BY DEF Actions, Send
    <2> QED
        BY <1>4, <1>5, <2>1 DEF Stream!Write
<1>6. CASE Act(Close)
    <2>1. Close \in Actions /\ Close.data = <<>>
        BY DEF Actions, Close
    <2>2. Outgoing \o <<>> = Outgoing
        BY StreamBytes, ConcatEmptySeq
    <2> QED
        BY <1>4, <1>6, <2>1, <2>2 DEF Stream!bvars
<1> QED
    BY <1>1, <1>2, <1>3, <1>5, <1>6 DEF Stream!Next

\* A message goes from the mailbox to the queue, and its bytes from the queue
\* to the kernel, without a change of what is under way.
LEMMA WritingRefines ==
    ASSUME TcpInv, OnActionSend \/ \E n \in 0..SendBuffer : Write(n)
    PROVE  UNCHANGED Stream!bvars
<1>1. CASE OnActionSend
    <2> DEFINE m    == Head(actions).data
               rest == Payload(Tail(actions))
    <2>1. /\ actions # <<>> /\ Head(actions) # Close /\ actions' = Tail(actions)
          /\ queue' = Append(queue, m)
          /\ UNCHANGED <<entry, inbox, fin, outbox, read, events, told>>
        BY <1>1 DEF OnActionSend, R!Reregister, registry, kernel, user
    <2>2. UNCHANGED <<StreamState, Incoming, End>>
        BY <2>1 DEF StreamState, Open, Incoming, End
    <2>3. m \in Seq(Bytes) /\ Tail(actions) \in Seq(Items)
        <3>1. m \in Seq(Bytes) /\ Tail(actions) \in Seq(Actions)
            BY <2>1, PassedOn
        <3> QED
            BY <3>1, SeqMonotonic DEF Items
    <2>4. Payload(actions) = m \o rest
        BY <2>1, StreamBytes, PayloadInOrder
    <2>5. FlattenSeq(queue') = FlattenSeq(queue) \o m
        BY <2>1, <2>3, FlattenAppend DEF TcpInv, Types
    <2>6. rest \in Seq(Bytes)
        BY <2>3, PayloadInOrder
    <2>7. Outgoing' = (outbox \o (FlattenSeq(queue) \o m)) \o rest
        BY <2>1, <2>5 DEF Outgoing
    <2>8. Outgoing = outbox \o (FlattenSeq(queue) \o (m \o rest))
        BY <2>4, StreamBytes
    <2> HIDE DEF m, rest
    <2>9. outbox \in Seq(Bytes) /\ FlattenSeq(queue) \in Seq(Bytes) /\ m \in Seq(Bytes)
        BY <2>3, StreamBytes DEF TcpInv, Types
    <2>10. FlattenSeq(queue) \o m \in Seq(Bytes)
        BY <2>9, ConcatProperties
    <2>11. (outbox \o (FlattenSeq(queue) \o m)) \o rest
               = outbox \o ((FlattenSeq(queue) \o m) \o rest)
        <3> DEFINE both == FlattenSeq(queue) \o m
        <3>1. outbox \in Seq(Bytes) /\ both \in Seq(Bytes) /\ rest \in Seq(Bytes)
            BY <2>6, <2>9, <2>10
        <3> HIDE DEF both
        <3>2. (outbox \o both) \o rest = outbox \o (both \o rest)
            BY <3>1, ConcatAssociative
        <3> QED
            BY <3>2 DEF both
    <2>12. (FlattenSeq(queue) \o m) \o rest = FlattenSeq(queue) \o (m \o rest)
        BY <2>6, <2>9, ConcatAssociative
    <2>13. Outgoing' = Outgoing
        BY <2>7, <2>8, <2>11, <2>12
    <2> QED
        BY <2>2, <2>13 DEF Stream!bvars
<1>2. ASSUME NEW n \in 0..SendBuffer, Write(n)
      PROVE  UNCHANGED Stream!bvars
    <2> DEFINE m      == Head(queue)
               first  == SubSeq(m, 1, n)
               second == SubSeq(m, n + 1, Len(m))
               rest   == FlattenSeq(Tail(queue))
    <2>1. UNCHANGED <<entry, inbox, fin, actions, read, events, told>>
        BY <1>2 DEF Write, R!Exhaust, registry, user
    <2>2. UNCHANGED <<StreamState, Incoming, End>>
        BY <2>1 DEF StreamState, Open, Incoming, End
    <2>3. /\ queue # <<>> /\ m \in Seq(Bytes) /\ Tail(queue) \in Seq(Seq(Bytes))
          /\ first \in Seq(Bytes) /\ second \in Seq(Bytes) /\ first \o second = m
          /\ outbox' = outbox \o first
          /\ queue' = IF n < Len(m) THEN <<second>> \o Tail(queue) ELSE Tail(queue)
          /\ n \in 0..Len(m)
        BY <1>2, WriteBytes
    <2>4. FlattenSeq(queue) = m \o rest /\ rest \in Seq(Bytes)
        BY <2>3, FlattenHead, FlattenType DEF TcpInv, Types
    <2>5. FlattenSeq(queue') = second \o rest
        <3>1. CASE n < Len(m)
            <4>1. second \in Seq(Bytes) /\ Tail(queue) \in Seq(Seq(Bytes))
                BY <2>3
            <4> HIDE DEF second
            <4>2. /\ <<second>> \o Tail(queue) \in Seq(Seq(Bytes))
                  /\ <<second>> \o Tail(queue) # <<>>
                  /\ Head(<<second>> \o Tail(queue)) = second
                  /\ Tail(<<second>> \o Tail(queue)) = Tail(queue)
                BY <4>1, ConcatFront
            <4>3. FlattenSeq(<<second>> \o Tail(queue)) = second \o rest
                BY <4>2, FlattenHead
            <4> QED
                BY <2>3, <3>1, <4>3
        <3>2. CASE ~(n < Len(m))
            <4>1. queue' = Tail(queue) /\ n = Len(m)
                BY <2>3, <3>2
            <4>2. second = <<>>
                <5>1. Len(m) + 1 \in Int /\ Len(m) \in Int /\ Len(m) < Len(m) + 1
                    BY <2>3
                <5> QED
                    BY <4>1, <5>1, SubSeqEmpty
            <4>3. <<>> \o rest = rest
                BY <2>4, ConcatEmptySeq
            <4> QED
                BY <4>1, <4>2, <4>3
        <3> QED
            BY <3>1, <3>2
    <2>6. /\ outbox \in Seq(Bytes) /\ first \in Seq(Bytes) /\ second \in Seq(Bytes)
          /\ rest \in Seq(Bytes)
        BY <2>3, <2>4 DEF TcpInv, Types
    <2>7. Outgoing' = ((outbox \o first) \o (second \o rest)) \o Payload(actions)
        BY <2>1, <2>3, <2>5 DEF Outgoing
    <2>8. Outgoing = (outbox \o ((first \o second) \o rest)) \o Payload(actions)
        BY <2>3, <2>4 DEF Outgoing
    <2> HIDE DEF first, second, rest
    <2>9. second \o rest \in Seq(Bytes)
        BY <2>6, ConcatProperties
    <2>10. (first \o second) \o rest = first \o (second \o rest)
        BY <2>6, ConcatAssociative
    <2>11. (outbox \o first) \o (second \o rest) = outbox \o (first \o (second \o rest))
        <3> DEFINE last == second \o rest
        <3>1. last \in Seq(Bytes)
            BY <2>9
        <3> HIDE DEF last, TcpInv, Types
        <3>2. (outbox \o first) \o last = outbox \o (first \o last)
            BY <2>6, <3>1, ConcatAssociative, SMTT(30)
        <3> QED
            BY <3>2 DEF last
    <2>12. Outgoing' = Outgoing
        BY <2>7, <2>8, <2>10, <2>11
    <2> QED
        BY <2>2, <2>12 DEF Stream!bvars
<1> QED
    BY <1>1, <1>2

\* Bytes go from the socket to the buffer, and from there to the mailbox of
\* the user, in their order; that the stream has ended adds none.
LEMMA ReadingRefines ==
    ASSUME TcpInv,
           \/ \E n \in 1..MaxIncoming : Read(n)
           \/ ReadBlocked \/ ReadEnd \/ ReadInterrupted \/ EndHandle
    PROVE  UNCHANGED Stream!bvars
<1>1. ASSUME NEW n \in 1..MaxIncoming, Read(n)
      PROVE  UNCHANGED Stream!bvars
    <2> DEFINE first == SubSeq(inbox, 1, n)
    <2>1. UNCHANGED <<entry, fin, outbox, actions, queue, events, told>>
        BY <1>1 DEF Read, R!Exhaust, registry, user
    <2>2. UNCHANGED <<StreamState, Outgoing, End>>
        BY <2>1 DEF StreamState, Open, Outgoing, End
    <2>3. /\ first \in Seq(Bytes) /\ inbox' \in Seq(Bytes) /\ first \o inbox' = inbox
          /\ read' = read \o first
        BY <1>1, ReadBytes
    <2> HIDE DEF first
    <2>4. Payload(events) \in Seq(Bytes) /\ read \in Seq(Bytes) /\ first \in Seq(Bytes)
        BY <2>3, StreamBytes DEF TcpInv, Types
    <2>5. Incoming' = (Payload(events) \o (read \o first)) \o inbox'
        BY <2>1, <2>3 DEF Incoming
    <2>6. (Payload(events) \o read) \o first = Payload(events) \o (read \o first)
        BY <2>4, ConcatAssociative, SMTT(30)
    <2>7. ((Payload(events) \o read) \o first) \o inbox'
              = (Payload(events) \o read) \o (first \o inbox')
        <3> DEFINE both == Payload(events) \o read
        <3>1. both \in Seq(Bytes) /\ first \in Seq(Bytes) /\ inbox' \in Seq(Bytes)
            BY <2>3, StreamBytes
        <3> HIDE DEF both
        <3>2. (both \o first) \o inbox' = both \o (first \o inbox')
            BY <3>1, ConcatAssociative, SMTT(30)
        <3> QED
            BY <3>2 DEF both
    <2>8. Incoming' = Incoming
        BY <2>3, <2>5, <2>6, <2>7 DEF Incoming
    <2> QED
        BY <2>2, <2>8 DEF Stream!bvars
<1>2. CASE ReadBlocked \/ ReadEnd \/ ReadInterrupted
    <2>1. FinishRead /\ UNCHANGED <<entry, inbox, fin, outbox, actions, queue, told>>
        BY <1>2 DEF ReadBlocked, ReadEnd, ReadInterrupted, kernel, R!Blocked, R!EndOfStream
    <2>2. UNCHANGED <<StreamState, Outgoing, End>>
        BY <2>1 DEF StreamState, Open, Outgoing, End
    <2>3. CASE read = <<>>
        <3>1. events' = events /\ read' = read
            BY <2>1, <2>3, PassedOn
        <3> QED
            BY <2>1, <2>2, <3>1 DEF Incoming, Stream!bvars
    <2>4. CASE read # <<>>
        <3>1. events' = Append(events, Recv(read)) /\ Recv(read) \in Items /\ read' = <<>>
            BY <2>1, <2>4, PassedOn DEF Items
        <3>2. Payload(events') = Payload(events) \o Recv(read).data
            BY <3>1, StreamBytes, PayloadInOrder
        <3>3. Recv(read).data = read
            BY DEF Recv
        <3>4. (Payload(events) \o read) \o <<>> = Payload(events) \o read
            BY StreamBytes, ConcatEmptySeq
        <3> QED
            BY <2>1, <2>2, <3>1, <3>2, <3>3, <3>4 DEF Incoming, Stream!bvars
    <2> QED
        BY <2>3, <2>4
<1>3. CASE EndHandle
    <2>1. /\ UNCHANGED <<entry, inbox, fin, outbox, actions, queue, read, told>>
          /\ events' = IF closed THEN Append(events, Closed) ELSE events
        BY <1>3 DEF EndHandle, kernel, R!EndHandler
    <2>2. UNCHANGED <<StreamState, Outgoing, End>>
        BY <2>1 DEF StreamState, Open, Outgoing, End
    <2>3. Payload(events') = Payload(events)
        <3>1. Closed \in Items /\ Closed.data = <<>>
            BY DEF Items, Events, Closed
        <3>2. Payload(Append(events, Closed)) = Payload(events) \o Closed.data
            BY <3>1, StreamBytes, PayloadInOrder
        <3>3. Payload(events) \o <<>> = Payload(events)
            BY StreamBytes, ConcatEmptySeq
        <3> QED
            BY <2>1, <3>1, <3>2, <3>3
    <2> QED
        BY <2>1, <2>2, <2>3 DEF Incoming, Stream!bvars
<1> QED
    BY <1>1, <1>2, <1>3

\* Closing cuts off what the kernel has not taken and the user not been given.
LEMMA ClosingRefines ==
    ASSUME TcpInv, OnActionClose
    PROVE  Stream!Close
<1>1. /\ Open /\ entry' = [entry EXCEPT ![Socket] = "closed"] /\ taken[Socket] = {}
      /\ actions' = <<>> /\ queue' = <<>> /\ inbox' = <<>>
      /\ UNCHANGED <<fin, outbox, read, events, told>>
    BY RegistryFacts DEF OnActionClose, R!Handling, R!Deregister, TcpInv, user
<1>2. StreamState = "open" /\ StreamState' = "closed" /\ End' = End
    BY <1>1, RegistryFacts DEF TcpInv, StreamState, Open, End
<1>3. Outgoing' \in Stream!Prefixes(Outgoing)
    <2>1. Outgoing' = (outbox \o FlattenSeq(<<>>)) \o Payload(<<>>)
        BY <1>1 DEF Outgoing
    <2>2. outbox \in Seq(Bytes) /\ outbox \o <<>> = outbox
        BY ConcatEmptySeq DEF TcpInv, Types
    <2>3. Outgoing' = outbox
        BY <2>1, <2>2, FlattenEmpty, PayloadInOrder
    <2>4. FlattenSeq(queue) \o Payload(actions) \in Seq(Bytes)
          /\ Outgoing = outbox \o (FlattenSeq(queue) \o Payload(actions))
        BY StreamBytes
    <2>5. outbox \in Stream!Prefixes(outbox \o (FlattenSeq(queue) \o Payload(actions)))
        BY <2>2, <2>4, FirstIsPrefix
    <2> QED
        BY <2>3, <2>4, <2>5
<1>4. Incoming' \in Stream!Prefixes(Incoming)
    <2>1. Incoming' = Payload(events) \o read
        BY <1>1, StreamBytes, ConcatEmptySeq DEF Incoming
    <2> QED
        BY <2>1, StreamBytes, FirstIsPrefix DEF Incoming, TcpInv, Types
<1> QED
    BY <1>2, <1>3, <1>4 DEF Stream!Close

\* For any bytes, messages, buffers, sizes of reads and writes, and
\* interleavings, with reads interrupted or not, the service is two streams of
\* bytes: none is lost, made up or out of its place while the stream is open,
\* and its end is announced only when it came, after the last byte.
THEOREM ServiceImplementsStream == Spec => ImplementsStream
<1>1. Init => Stream!Init
    <2> SUFFICES ASSUME Init PROVE Stream!Init
        OBVIOUS
    <2>1. /\ entry[Socket] = "none" /\ outbox = <<>> /\ queue = <<>> /\ actions = <<>>
          /\ events = <<>> /\ read = <<>> /\ inbox = <<>> /\ told = FALSE /\ fin = FALSE
        BY DEF Init
    <2>2. StreamState = "new" /\ End = "none"
        BY <2>1 DEF StreamState, Open, End
    <2>3. <<>> \o <<>> = <<>>
        OBVIOUS
    <2>4. Outgoing = <<>> /\ Incoming = <<>>
        BY <2>1, <2>3, FlattenEmpty, PayloadInOrder DEF Outgoing, Incoming
    <2> QED
        BY <2>2, <2>4 DEF Stream!Init
<1>2. ASSUME TcpInv, [Next]_vars
      PROVE  [Stream!Next]_Stream!bvars
    <2>1. CASE (\E b \in Bytes : Arrive(b)) \/ PeerEnds \/ Transmit
        BY <1>2, <2>1, NetworkRefines
    <2>2. CASE \/ OpenStream \/ OpenFails \/ UserReceive
               \/ (\E m \in Messages : Act(Send(m))) \/ Act(Close)
        BY <1>2, <2>2, UserRefines
    <2>3. CASE OnActionSend \/ \E n \in 0..SendBuffer : Write(n)
        BY <1>2, <2>3, WritingRefines
    <2>4. CASE \/ \E n \in 1..MaxIncoming : Read(n)
               \/ ReadBlocked \/ ReadEnd \/ ReadInterrupted \/ EndHandle
        BY <1>2, <2>4, ReadingRefines
    <2>5. CASE OnActionClose
        BY <1>2, <2>5, ClosingRefines DEF Stream!Next
    <2>6. CASE TakeReady \/ WriteBlocked \/ WriteDone \/ IoError \/ LoopStep \/ UNCHANGED vars
        <3>1. UNCHANGED <<entry, inbox, fin, outbox, actions, queue, read, events, told>>
            BY <2>6 DEF TakeReady, WriteBlocked, WriteDone, IoError, LoopStep, vars, data,
               registry, kernel, user, R!Take, R!Blocked, R!NothingToWrite, R!Panic,
               R!LoopStep, R!Poll, R!PollFails, R!StartProcess, R!EndProcess, R!ProcessFails,
               R!StartHandler, R!Deliver
        <3> QED
            BY <3>1 DEF StreamState, Open, Outgoing, Incoming, End, Stream!bvars
    <2> QED
        BY <1>2, <2>1, <2>2, <2>3, <2>4, <2>5, <2>6 DEF Next, HandlerStep
<1> QED
    BY <1>1, <1>2, TcpInvariant, PTL DEF Spec, ImplementsStream, Stream!Spec

=============================================================================
