-------------------------- MODULE UdpSocketProofs --------------------------
(***************************************************************************)
(* Proofs about UdpSocket, for any set of datagrams, any send buffer and   *)
(* any bound: the service keeps to the protocol of the registry, asks for  *)
(* write events exactly while it has something to write, and implements    *)
(* DatagramPort.                                                           *)
(***************************************************************************)
EXTENDS UdpSocket, SequenceLemmas

RP == INSTANCE MioRegistryProofs
      WITH Sources <- {Socket}, Capacity <- 1, ready <- Ready,
           ended <- [s \in {Socket} |-> {}]

\* The types of what is not the registry's.
Types ==
    /\ inbox \in Seq(Packets) /\ Len(inbox) <= MaxIncoming
    /\ outbox \in Seq(Packets) /\ Len(outbox) <= SendBuffer
    /\ actions \in Seq(Packets \cup {Close})
    /\ queue \in Seq(Packets)
    /\ events \in Seq(Packets)

\* Nothing is waiting outside of the life of the service, but for what arrived
\* before it began and for what the kernel took before it closed.
OnlyWhileOpen ==
    /\ ~Open => actions = <<>> /\ queue = <<>>
    /\ entry[Socket] = "none" => outbox = <<>> /\ events = <<>>
    /\ entry[Socket] \notin {"none", "open"} => inbox = <<>>

\* There is an interest in writing if there is something to write, and also in
\* the handler that has just written the last of it.
WriteInterest ==
    Open =>
        /\ queue # <<>> => "writable" \in interest[Socket]
        /\ "writable" \in interest[Socket] => queue # <<>> \/ "writable" \in taken[Socket]

UdpInv ==
    /\ R!TypeOK
    /\ Types
    /\ OnlyWhileOpen
    /\ WriteInterest

-----------------------------------------------------------------------------
(* The registry.                                                           *)

\* The registry of the proofs is that of the service.
LEMMA SameRegistry ==
    /\ R!TypeOK <=> RP!TypeOK
    /\ R!Init <=> RP!Init
    /\ [R!Next]_R!vars => [RP!Next]_RP!vars
<1>1. (R!TypeOK <=> RP!TypeOK) /\ (R!Init <=> RP!Init)
    BY DEF R!TypeOK, RP!TypeOK, R!Init, RP!Init, R!Dirs, RP!Dirs, R!Nothing, RP!Nothing
<1>2. [R!Next]_R!vars => [RP!Next]_RP!vars
    BY DEF R!Next, R!vars, R!HandlerStep, R!LoopStep, R!Dirs, R!kernel, R!Nothing, R!Handling, R!InHandler, R!Idle,
           R!BecomeReady, R!SetInterest, R!Register, R!RegisterFails, R!Reregister,
           R!Deregister, R!Take, R!Poll, R!PollFails, R!Deliver, R!StartProcess,
           R!EndProcess, R!ProcessFails, R!Signal, R!StartHandler, R!Exhaust, R!Blocked, R!EndOfStream,
           R!NothingToWrite, R!EndHandler, R!Panic, R!Cardinality,
           RP!Next, RP!vars, RP!HandlerStep, RP!LoopStep, RP!Dirs, RP!kernel, RP!Nothing, RP!Handling, RP!InHandler, RP!Idle,
           RP!BecomeReady, RP!SetInterest, RP!Register, RP!RegisterFails, RP!Reregister,
           RP!Deregister, RP!Take, RP!Poll, RP!PollFails, RP!Deliver, RP!StartProcess,
           RP!EndProcess, RP!ProcessFails, RP!Signal, RP!StartHandler, RP!Exhaust, RP!Blocked, RP!EndOfStream,
           RP!NothingToWrite, RP!EndHandler, RP!Panic, RP!Cardinality
<1> QED
    BY <1>1, <1>2

\* What the types of the registry say of the one socket.
LEMMA RegistryFacts ==
    ASSUME R!TypeOK
    PROVE  /\ entry \in [{Socket} -> {"none", "open", "leaked", "closed"}]
           /\ interest \in [{Socket} -> SUBSET {"readable", "writable"}]
           /\ taken \in [{Socket} -> SUBSET {"readable", "writable"}]
           /\ handler \in [{Socket} -> {"idle", "start", "drain"}]
           /\ handler[Socket] # "idle" => Open
           /\ handler[Socket] # "drain" => taken[Socket] = {}
BY DEF R!TypeOK, R!Dirs, Open

\* The network uses the registry as a kernel does: a socket becomes readable
\* with the first datagram and writable with the first free place.
LEMMA NetworkUsesRegistry ==
    ASSUME UdpInv, (\E p \in Packets : Arrive(p)) \/ Transmit
    PROVE  [R!Next]_R!vars
<1>1. ASSUME NEW p \in Packets, Arrive(p)
      PROVE  [R!Next]_R!vars
    <2>1. CASE inbox = <<>>
        BY <1>1, <2>1 DEF Arrive, R!Next, R!Dirs
    <2>2. CASE inbox # <<>>
        <3>1. inbox \in Seq(Packets) /\ inbox' = Append(inbox, p)
            BY <1>1 DEF Arrive, UdpInv, Types
        <3>2. inbox' # <<>>
            BY <3>1, AppendProperties
        <3>3. UNCHANGED registry /\ UNCHANGED outbox
            BY <1>1, <2>2 DEF Arrive
        <3> QED
            BY <2>2, <3>2, <3>3 DEF registry, R!vars, Ready
    <2> QED
        BY <2>1, <2>2
<1>2. ASSUME Transmit
      PROVE  [R!Next]_R!vars
    <2>1. CASE Open /\ Len(outbox) = SendBuffer
        BY <1>2, <2>1 DEF Transmit, R!Next, R!Dirs
    <2>2. CASE ~(Open /\ Len(outbox) = SendBuffer)
        <3>1. outbox \in Seq(Packets) /\ outbox # <<>> /\ outbox' = Tail(outbox)
              /\ UNCHANGED inbox /\ UNCHANGED registry
            BY <1>2, <2>2 DEF Transmit, UdpInv, Types
        <3>2. Len(outbox) \in Nat /\ SendBuffer \in Nat /\ Len(outbox') = Len(outbox) - 1
              /\ Len(outbox) <= SendBuffer
            BY <3>1, HeadTailProperties, ConstantsAssumption DEF UdpInv, Types
        <3>3. CASE Open
            <4>1. Len(outbox) < SendBuffer /\ Len(outbox') < SendBuffer
                BY <2>2, <3>2, <3>3
            <4> QED
                BY <3>1, <4>1 DEF registry, R!vars, Ready
        <3>4. CASE ~Open
            <4>1. entry[Socket] \in {"leaked", "closed"}
                BY <3>1, <3>4, RegistryFacts DEF UdpInv, OnlyWhileOpen, Open
            <4> QED
                BY <3>1, <4>1 DEF registry, R!vars, Ready
        <3> QED
            BY <3>3, <3>4
    <2> QED
        BY <2>1, <2>2
<1> QED
    BY <1>1, <1>2

\* So does the actor: its last datagram leaves the socket without anything to
\* read, the last free place without room to write.
LEMMA HandlerUsesRegistry ==
    ASSUME UdpInv, HandlerStep \/ IoError
    PROVE  [R!Next]_R!vars
<1>1. CASE OnActionSend
    <2>1. CASE queue = <<>>
        BY <1>1, <2>1 DEF OnActionSend, R!Next, R!HandlerStep
    <2>2. CASE queue # <<>>
        BY <1>1, <2>2 DEF OnActionSend, registry, R!vars, Ready
    <2> QED
        BY <2>1, <2>2
<1>2. CASE OnActionClose
    BY <1>2 DEF OnActionClose, R!Next, R!HandlerStep
<1>3. CASE TakeReady
    BY <1>3 DEF TakeReady, R!Next, R!HandlerStep
<1>4. CASE TryRecv
    <2>1. CASE Len(inbox) = 1
        BY <1>4, <2>1 DEF TryRecv, R!Next, R!HandlerStep, R!Dirs
    <2>2. CASE Len(inbox) # 1
        <3>1. inbox \in Seq(Packets) /\ inbox # <<>> /\ inbox' = Tail(inbox)
              /\ UNCHANGED registry /\ UNCHANGED outbox
            BY <1>4, <2>2 DEF TryRecv, UdpInv, Types
        <3>2. inbox' # <<>>
            BY <3>1, <2>2, TailElements
        <3> QED
            BY <3>1, <3>2 DEF registry, R!vars, Ready
    <2> QED
        BY <2>1, <2>2
<1>5. CASE RecvBlocked
    BY <1>5 DEF RecvBlocked, R!Next, R!HandlerStep, R!Dirs
<1>6. CASE TrySend
    <2>1. CASE Len(outbox) + 1 = SendBuffer
        BY <1>6, <2>1 DEF TrySend, R!Next, R!HandlerStep, R!Dirs
    <2>2. CASE Len(outbox) + 1 # SendBuffer
        <3>1. outbox \in Seq(Packets) /\ Len(outbox) < SendBuffer
              /\ Head(queue) \in Packets /\ outbox' = Append(outbox, Head(queue))
              /\ UNCHANGED registry /\ UNCHANGED inbox
            BY <1>6, <2>2, HeadTailProperties DEF TrySend, UdpInv, Types
        <3>2. Len(outbox') < SendBuffer
            BY <3>1, <2>2, AppendProperties, ConstantsAssumption
        <3> QED
            BY <3>1, <3>2 DEF registry, R!vars, Ready
    <2> QED
        BY <2>1, <2>2
<1>7. CASE SendBlocked
    BY <1>7 DEF SendBlocked, R!Next, R!HandlerStep, R!Dirs
<1>8. CASE SendDone
    BY <1>8 DEF SendDone, R!Next, R!HandlerStep
<1>9. CASE EndHandle
    BY <1>9 DEF EndHandle, R!Next, R!HandlerStep
<1>10. CASE IoError
    BY <1>10 DEF IoError, R!Next, R!HandlerStep
<1> QED
    BY <1>1, <1>2, <1>3, <1>4, <1>5, <1>6, <1>7, <1>8, <1>9, <1>10 DEF HandlerStep

\* Every step of the service is one that the registry allows.
LEMMA SocketUsesRegistry ==
    ASSUME UdpInv, [Next]_vars
    PROVE  [R!Next]_R!vars
<1>1. CASE (\E p \in Packets : Arrive(p)) \/ Transmit
    BY <1>1, NetworkUsesRegistry
<1>2. CASE HandlerStep \/ IoError
    BY <1>2, HandlerUsesRegistry
<1>3. CASE Bind
    BY <1>3 DEF Bind, R!Next
<1>4. CASE BindFails
    BY <1>4 DEF BindFails, R!Next
<1>5. CASE UserReceive
    BY <1>5 DEF UserReceive, registry, R!vars, Ready
<1>6. ASSUME NEW action \in Packets \cup {Close}, Act(action)
      PROVE  [R!Next]_R!vars
    BY <1>6 DEF Act, R!Next
<1>7. CASE LoopStep
    BY <1>7 DEF LoopStep, R!Next
<1>8. CASE UNCHANGED vars
    BY <1>8 DEF vars, R!vars, Ready
<1> QED
    BY <1>1, <1>2, <1>3, <1>4, <1>5, <1>6, <1>7, <1>8 DEF Next

-----------------------------------------------------------------------------
(* The invariant is kept.                                                  *)

\* The registry is the one of the proofs, and what is known of it stays so.
LEMMA RegistryKeepsType ==
    ASSUME UdpInv, [Next]_vars
    PROVE  R!TypeOK'
<1>1. RP!TypeOK /\ [RP!Next]_RP!vars
    BY SocketUsesRegistry, SameRegistry DEF UdpInv
<1>2. RP!TypeOK'
    BY <1>1, RP!NextType
<1> QED
    BY <1>2 DEF R!TypeOK, RP!TypeOK, R!Dirs, RP!Dirs

\* The sequences of the socket hold datagrams.
LEMMA StepKeepsTypes ==
    ASSUME UdpInv, [Next]_vars
    PROVE  Types'
<1> USE DEF UdpInv, Types
<1>1. ASSUME NEW p \in Packets, Arrive(p)
      PROVE  Types'
    <2>1. inbox' = Append(inbox, p) /\ UNCHANGED <<outbox, actions, queue, events>>
          /\ Len(inbox) + Len(events) < MaxIncoming
        BY <1>1 DEF Arrive
    <2>2. inbox' \in Seq(Packets) /\ Len(inbox') = Len(inbox) + 1
        BY <2>1, AppendProperties
    <2> QED
        BY <2>1, <2>2, ConstantsAssumption
<1>2. CASE Transmit
    BY <1>2, HeadTailProperties, ConstantsAssumption DEF Transmit
<1>3. CASE UserReceive
    BY <1>3, HeadTailProperties DEF UserReceive
<1>4. ASSUME NEW action \in Packets \cup {Close}, Act(action)
      PROVE  Types'
    BY <1>4, AppendProperties DEF Act
<1>5. CASE OnActionSend
    <2>1. actions # <<>> /\ Head(actions) # Close /\ actions' = Tail(actions)
          /\ queue' = Append(queue, Head(actions)) /\ UNCHANGED <<inbox, outbox, events>>
        BY <1>5 DEF OnActionSend
    <2>2. Head(actions) \in Packets /\ Tail(actions) \in Seq(Packets \cup {Close})
        BY <2>1, HeadTailProperties
    <2> QED
        BY <2>1, <2>2, AppendProperties
<1>6. CASE OnActionClose
    <2>1. <<>> \in Seq(Packets) /\ <<>> \in Seq(Packets \cup {Close}) /\ Len(<<>>) = 0
        OBVIOUS
    <2> QED
        BY <1>6, <2>1, ConstantsAssumption DEF OnActionClose
<1>7. CASE TryRecv
    <2>1. inbox # <<>> /\ inbox' = Tail(inbox) /\ events' = Append(events, Head(inbox))
          /\ UNCHANGED <<outbox, actions, queue>>
        BY <1>7 DEF TryRecv
    <2>2. Head(inbox) \in Packets /\ Tail(inbox) \in Seq(Packets)
          /\ Len(Tail(inbox)) = Len(inbox) - 1
        BY <2>1, HeadTailProperties
    <2> QED
        BY <2>1, <2>2, AppendProperties, ConstantsAssumption
<1>8. CASE TrySend
    <2>1. queue # <<>> /\ queue' = Tail(queue) /\ outbox' = Append(outbox, Head(queue))
          /\ Len(outbox) < SendBuffer /\ UNCHANGED <<inbox, actions, events>>
        BY <1>8 DEF TrySend
    <2>2. Head(queue) \in Packets /\ Tail(queue) \in Seq(Packets)
        BY <2>1, HeadTailProperties
    <2>3. outbox' \in Seq(Packets) /\ Len(outbox') = Len(outbox) + 1
        BY <2>1, <2>2, AppendProperties
    <2> QED
        BY <2>1, <2>2, <2>3, ConstantsAssumption
<1>9. CASE UNCHANGED data
    BY <1>9 DEF data
<1>10. CASE BindFails
    <2>1. <<>> \in Seq(Packets) /\ Len(<<>>) = 0
        OBVIOUS
    <2> QED
        BY <1>10, <2>1, ConstantsAssumption DEF BindFails
<1>11. CASE UNCHANGED vars
    BY <1>11 DEF vars
<1> QED
    BY <1>1, <1>2, <1>3, <1>4, <1>5, <1>6, <1>7, <1>8, <1>9, <1>10, <1>11
       DEF Next, HandlerStep, Bind, TakeReady, RecvBlocked, SendBlocked,
           SendDone, EndHandle, IoError, LoopStep

\* Opening and closing the socket.
LEMMA LifeKeepsInv ==
    ASSUME UdpInv, Bind \/ BindFails \/ OnActionClose
    PROVE  OnlyWhileOpen' /\ WriteInterest'
<1> USE RegistryFacts DEF UdpInv, OnlyWhileOpen, WriteInterest, Open
<1>1. CASE Bind
    BY <1>1 DEF Bind, data, R!Register, R!SetInterest
<1>2. CASE BindFails
    BY <1>2 DEF BindFails, R!RegisterFails
<1>3. CASE OnActionClose
    BY <1>3 DEF OnActionClose, R!Deregister
<1> QED
    BY <1>1, <1>2, <1>3

\* The steps that only the registry takes part in.
LEMMA QuietStepKeepsInv ==
    ASSUME UdpInv, UNCHANGED <<data, entry>>,
           \/ UNCHANGED <<interest, taken>>
           \/ TakeReady \/ RecvBlocked \/ SendBlocked \/ SendDone \/ EndHandle
    PROVE  OnlyWhileOpen' /\ WriteInterest'
<1> USE RegistryFacts DEF UdpInv, OnlyWhileOpen, WriteInterest, Open, data
<1>1. CASE UNCHANGED <<interest, taken>>
    BY <1>1
<1>2. CASE TakeReady
    BY <1>2 DEF TakeReady, R!Take, R!Handling, R!kernel
<1>3. CASE RecvBlocked
    BY <1>3 DEF RecvBlocked, R!Blocked, R!kernel
<1>4. CASE SendBlocked
    BY <1>4 DEF SendBlocked, R!Blocked, R!kernel
<1>5. CASE SendDone
    BY <1>5 DEF SendDone, Writing, R!NothingToWrite, R!SetInterest
<1>6. CASE EndHandle
    BY <1>6 DEF EndHandle, R!EndHandler, R!kernel
<1> QED
    BY <1>1, <1>2, <1>3, <1>4, <1>5, <1>6

\* The steps that move datagrams.
LEMMA DataStepKeepsInv ==
    ASSUME UdpInv,
           \/ \E p \in Packets : Arrive(p)
           \/ \E action \in Packets \cup {Close} : Act(action)
           \/ Transmit \/ UserReceive \/ OnActionSend \/ TryRecv \/ TrySend
    PROVE  OnlyWhileOpen' /\ WriteInterest'
<1> USE RegistryFacts DEF UdpInv, OnlyWhileOpen, WriteInterest, Open
<1>1. ASSUME NEW p \in Packets, Arrive(p)
      PROVE  OnlyWhileOpen' /\ WriteInterest'
    BY <1>1 DEF Arrive, R!BecomeReady, registry
<1>2. ASSUME NEW action \in Packets \cup {Close}, Act(action)
      PROVE  OnlyWhileOpen' /\ WriteInterest'
    BY <1>2 DEF Act, R!Signal, R!kernel
<1>3. CASE Transmit
    BY <1>3 DEF Transmit, R!BecomeReady, registry
<1>4. CASE UserReceive
    BY <1>4 DEF UserReceive, registry
<1>5. CASE OnActionSend
    <2>1. Open /\ UNCHANGED <<entry, taken, outbox, inbox>>
        BY <1>5 DEF OnActionSend, R!Handling, R!Reregister, registry
    <2>2. queue' # <<>>
        <3>1. Head(actions) \in Packets /\ queue' = Append(queue, Head(actions))
            BY <1>5, HeadTailProperties DEF OnActionSend, Types
        <3> QED
            BY <3>1, AppendProperties DEF Types
    <2>3. "writable" \in interest'[Socket]
        BY <1>5, <2>1 DEF OnActionSend, R!Reregister, R!SetInterest, R!Dirs, registry
    <2> QED
        BY <2>1, <2>2, <2>3
<1>6. CASE TryRecv
    BY <1>6 DEF TryRecv, R!Handling, R!Exhaust, registry
<1>7. CASE TrySend
    BY <1>7 DEF TrySend, Writing, R!Handling, R!Exhaust, registry
<1> QED
    BY <1>1, <1>2, <1>3, <1>4, <1>5, <1>6, <1>7

\* Every step keeps the invariant.
LEMMA UdpNextInv == UdpInv /\ [Next]_vars => UdpInv'
<1> SUFFICES ASSUME UdpInv, [Next]_vars PROVE UdpInv'
    OBVIOUS
<1>1. R!TypeOK' /\ Types'
    BY RegistryKeepsType, StepKeepsTypes
<1>2. OnlyWhileOpen' /\ WriteInterest'
    <2>1. CASE Bind \/ BindFails \/ OnActionClose
        BY <2>1, LifeKeepsInv
    <2>2. CASE \/ \E p \in Packets : Arrive(p)
               \/ \E action \in Packets \cup {Close} : Act(action)
               \/ Transmit \/ UserReceive \/ OnActionSend \/ TryRecv \/ TrySend
        BY <2>2, DataStepKeepsInv
    <2>3. CASE TakeReady \/ RecvBlocked \/ SendBlocked \/ SendDone \/ EndHandle
        <3>1. UNCHANGED <<data, entry>>
            BY <2>3 DEF TakeReady, RecvBlocked, SendBlocked, SendDone, EndHandle,
               R!Take, R!Blocked, R!NothingToWrite, R!EndHandler
        <3> QED
            BY <2>3, <3>1, QuietStepKeepsInv
    <2>4. CASE IoError \/ LoopStep \/ UNCHANGED vars
        <3>1. UNCHANGED <<data, entry>> /\ UNCHANGED <<interest, taken>>
            BY <2>4 DEF IoError, LoopStep, vars, data, R!Panic, R!LoopStep, R!Poll,
               R!PollFails, R!StartProcess, R!EndProcess, R!ProcessFails, R!StartHandler, R!Deliver, R!kernel
        <3> QED
            BY <3>1, QuietStepKeepsInv
    <2> QED
        BY <2>1, <2>2, <2>3, <2>4 DEF Next, HandlerStep
<1> QED
    BY <1>1, <1>2 DEF UdpInv

\* The initial states satisfy the invariant.
LEMMA UdpInitInv == Init => UdpInv
<1> SUFFICES ASSUME Init PROVE UdpInv
    OBVIOUS
<1>1. R!TypeOK
    BY RP!InitInv, SameRegistry DEF Init, RP!RegistryInv
<1>2. Types
    <2>1. <<>> \in Seq(Packets) /\ <<>> \in Seq(Packets \cup {Close}) /\ Len(<<>>) = 0
        OBVIOUS
    <2> QED
        BY <2>1, ConstantsAssumption DEF Init, Types
<1> QED
    BY <1>1, <1>2 DEF UdpInv, Init, OnlyWhileOpen, WriteInterest, Open

\* The invariant holds throughout.
LEMMA UdpInvariant == Spec => []UdpInv
BY UdpInitInv, UdpNextInv, PTL DEF Spec

\* The state keeps its type, the kernel's buffers their limits, and a service
\* that has stopped leaves nothing in its queues.
THEOREM UdpTypeCorrect == Spec => []TypeOK
<1>1. UdpInv => TypeOK
    BY DEF UdpInv, Types, OnlyWhileOpen, TypeOK
<1> QED
    BY <1>1, UdpInvariant, PTL

\* For every queue and every buffer, write events are asked for exactly while
\* something waits to be written.
THEOREM WritesAreAwaited == Spec => []InterestMatchesQueue
<1>1. UdpInv => InterestMatchesQueue
    BY RegistryFacts DEF UdpInv, WriteInterest, InterestMatchesQueue
<1> QED
    BY <1>1, UdpInvariant, PTL

\* What the service and its kernel do, datagrams coming and places becoming
\* free at any time, is what the registry expects of them.
THEOREM SocketKeepsProtocol == Spec => UsesRegistryProperly
<1>1. Init => R!Init
    BY DEF Init
<1> QED
    BY <1>1, SocketUsesRegistry, UdpInvariant, PTL DEF Spec, UsesRegistryProperly, R!Spec

\* Hence no readiness of the socket is ever lost, and the event loop does not
\* fail on one of its events.
THEOREM SocketLosesNothing == Spec => [](R!NoLostReadiness /\ R!LoopNeverFails)
<1>1. RP!RegistryInv => R!NoLostReadiness /\ R!LoopNeverFails
    BY DEF RP!RegistryInv, RP!NoLostReadiness, R!NoLostReadiness, RP!LoopNeverFails,
           R!LoopNeverFails
<1>2. Init => RP!RegistryInv
    BY RP!InitInv, SameRegistry DEF Init
<1>3. RP!RegistryInv /\ UdpInv /\ [Next]_vars => RP!RegistryInv'
    BY SocketUsesRegistry, SameRegistry, RP!NextInv
<1> QED
    BY <1>1, <1>2, <1>3, UdpInvariant, PTL DEF Spec

-----------------------------------------------------------------------------
(* The refinement of DatagramPort.                                         *)

\* The datagrams that an action sends.
SentBy == [x \in Packets \cup {Close} |-> IF x = Close THEN <<>> ELSE <<x>>]

\* What a list of accesses sends is what each of them sends, one after the
\* other.
LEMMA SendsOfEach ==
    /\ SentBy \in [Packets \cup {Close} -> Seq(Packets)]
    /\ \A as \in Seq(Packets \cup {Close}) : Sends(as) = FlattenSeq(Each(SentBy, as))
<1>1. SentBy \in [Packets \cup {Close} -> Seq(Packets)]
    <2>1. <<>> \in Seq(Packets)
        OBVIOUS
    <2>2. ASSUME NEW x \in Packets PROVE <<x>> \in Seq(Packets)
        OBVIOUS
    <2> QED
        BY <2>1, <2>2 DEF SentBy
<1>2. ASSUME NEW as \in Seq(Packets \cup {Close})
      PROVE  Sends(as) = FlattenSeq(Each(SentBy, as))
    <2>1. \A i \in DOMAIN as : as[i] \in Packets \cup {Close}
        <3>1. DOMAIN as = 1..Len(as)
            BY LenProperties
        <3> QED
            BY <3>1, ElementOfSeq
    <2>2. [i \in DOMAIN as |-> IF as[i] = Close THEN <<>> ELSE <<as[i]>>] = Each(SentBy, as)
        BY <2>1 DEF SentBy, Each
    <2> QED
        BY <2>2, Zenon DEF Sends
<1> QED
    BY <1>1, <1>2

\* They are sent in the order of the actions; Close sends none.
LEMMA SendsInOrder ==
    /\ Sends(<<>>) = <<>>
    /\ \A as \in Seq(Packets \cup {Close}) :
        /\ Sends(as) \in Seq(Packets)
        /\ Sends(Append(as, Close)) = Sends(as)
        /\ \A p \in Packets : Sends(Append(as, p)) = Append(Sends(as), p)
        /\ as # <<>> /\ Head(as) # Close => Sends(as) = <<Head(as)>> \o Sends(Tail(as))
<1> DEFINE S == Packets \cup {Close}
<1>1. /\ FlattenSeq(Each(SentBy, <<>>)) = <<>>
      /\ \A as \in Seq(S) : FlattenSeq(Each(SentBy, as)) \in Seq(Packets)
      /\ \A as \in Seq(S), x \in S :
            FlattenSeq(Each(SentBy, Append(as, x)))
                = FlattenSeq(Each(SentBy, as)) \o SentBy[x]
      /\ \A as \in Seq(S) : as # <<>> =>
            FlattenSeq(Each(SentBy, as))
                = SentBy[Head(as)] \o FlattenSeq(Each(SentBy, Tail(as)))
    <2>1. SentBy \in [S -> Seq(Packets)]
        BY SendsOfEach
    <2> HIDE DEF S
    <2>2. /\ FlattenSeq(Each(SentBy, <<>>)) = <<>>
          /\ \A as \in Seq(S) : FlattenSeq(Each(SentBy, as)) \in Seq(Packets)
        BY <2>1, FlattenEachType
    <2>3. \A as \in Seq(S), x \in S :
              FlattenSeq(Each(SentBy, Append(as, x)))
                  = FlattenSeq(Each(SentBy, as)) \o SentBy[x]
        BY <2>1, FlattenEachAppend
    <2>4. \A as \in Seq(S) : as # <<>> =>
              FlattenSeq(Each(SentBy, as))
                  = SentBy[Head(as)] \o FlattenSeq(Each(SentBy, Tail(as)))
        BY <2>1, FlattenEachHead
    <2> QED
        BY <2>2, <2>3, <2>4
<1>2. Sends(<<>>) = <<>>
    <2>1. <<>> \in Seq(Packets \cup {Close})
        OBVIOUS
    <2> QED
        BY <2>1, <1>1, SendsOfEach
<1>3. ASSUME NEW as \in Seq(Packets \cup {Close})
      PROVE  Sends(as) \in Seq(Packets)
    BY <1>1, SendsOfEach
<1>4. ASSUME NEW as \in Seq(Packets \cup {Close}), NEW x \in Packets \cup {Close}
      PROVE  Sends(Append(as, x)) = Sends(as) \o SentBy[x]
    <2>1. Append(as, x) \in Seq(Packets \cup {Close})
        BY AppendProperties
    <2> QED
        BY <2>1, <1>1, SendsOfEach
<1>5. ASSUME NEW as \in Seq(Packets \cup {Close})
      PROVE  Sends(Append(as, Close)) = Sends(as)
    <2>1. SentBy[Close] = <<>>
        BY DEF SentBy
    <2>2. Sends(as) \o <<>> = Sends(as)
        BY <1>3, ConcatEmptySeq
    <2> QED
        BY <2>1, <2>2, <1>4
<1>6. ASSUME NEW as \in Seq(Packets \cup {Close}), NEW p \in Packets
      PROVE  Sends(Append(as, p)) = Append(Sends(as), p)
    <2>1. SentBy[p] = <<p>>
        BY ConstantsAssumption DEF SentBy
    <2>2. Sends(as) \o <<p>> = Append(Sends(as), p)
        BY <1>3, AppendIsConcat
    <2> QED
        BY <2>1, <2>2, <1>4
<1>7. ASSUME NEW as \in Seq(Packets \cup {Close}), as # <<>>, Head(as) # Close
      PROVE  Sends(as) = <<Head(as)>> \o Sends(Tail(as))
    <2>1. Head(as) \in Packets \cup {Close} /\ Tail(as) \in Seq(Packets \cup {Close})
        BY <1>7, HeadTailProperties
    <2>2. SentBy[Head(as)] = <<Head(as)>>
        BY <1>7, <2>1 DEF SentBy
    <2> QED
        BY <1>7, <2>1, <2>2, <1>1, SendsOfEach
<1> QED
    BY <1>2, <1>3, <1>5, <1>6, <1>7

\* What is on its way to the network, and who may still add to it.
LEMMA PortTypes ==
    ASSUME UdpInv
    PROVE  /\ Sends(actions) \in Seq(Packets)
           /\ queue \o Sends(actions) \in Seq(Packets)
           /\ outbox \o queue \in Seq(Packets)
           /\ Outgoing \in Seq(Packets) /\ Incoming \in Seq(Packets)
           /\ Outgoing = outbox \o (queue \o Sends(actions))
<1>1. Sends(actions) \in Seq(Packets)
    BY SendsInOrder DEF UdpInv, Types
<1>2. /\ queue \o Sends(actions) \in Seq(Packets) /\ outbox \o queue \in Seq(Packets)
      /\ Incoming \in Seq(Packets)
    BY <1>1, ConcatProperties DEF UdpInv, Types, Incoming
<1>3. Outgoing \in Seq(Packets)
    BY <1>1, <1>2, ConcatProperties DEF Outgoing
<1>4. Outgoing = outbox \o (queue \o Sends(actions))
    <2>1. outbox \in Seq(Packets) /\ queue \in Seq(Packets)
        BY DEF UdpInv, Types
    <2>2. (outbox \o queue) \o Sends(actions) = outbox \o (queue \o Sends(actions))
        BY <1>1, <2>1, ConcatAssociative
    <2> QED
        BY <2>2 DEF Outgoing
<1> QED
    BY <1>1, <1>2, <1>3, <1>4

\* The steps on the side of the network.
LEMMA NetworkRefines ==
    ASSUME UdpInv, (\E p \in Packets : Arrive(p)) \/ Transmit
    PROVE  Port!Next
<1>1. ASSUME NEW p \in Packets, Arrive(p)
      PROVE  Port!Arrive(p)
    <2>1. /\ entry[Socket] \in {"none", "open"}
          /\ inbox' = Append(inbox, p) /\ UNCHANGED <<outbox, actions, queue, events>>
          /\ entry' = entry
        BY <1>1 DEF Arrive, R!BecomeReady, registry
    <2>2. PortState # "closed" /\ PortState' = PortState
        BY <2>1 DEF PortState, Open
    <2>3. Incoming' = Append(Incoming, p)
        BY <2>1, ConcatAppend DEF UdpInv, Types, Incoming
    <2>4. Outgoing' = Outgoing
        BY <2>1 DEF Outgoing
    <2> QED
        BY <2>2, <2>3, <2>4 DEF Port!Arrive
<1>2. ASSUME Transmit
      PROVE  Port!Transmit
    <2>1. /\ outbox # <<>> /\ outbox' = Tail(outbox)
          /\ UNCHANGED <<inbox, actions, queue, events>> /\ entry' = entry
        BY <1>2 DEF Transmit, R!BecomeReady, registry
    <2>2. PortState' = PortState /\ Incoming' = Incoming
        BY <2>1 DEF PortState, Open, Incoming
    <2>3. Outgoing # <<>> /\ Tail(Outgoing) = Tail(outbox) \o (queue \o Sends(actions))
        BY <2>1, PortTypes, ConcatTail, ZenonT(60) DEF UdpInv, Types
    <2>4. Outgoing' = Tail(outbox) \o (queue \o Sends(actions))
        <3>1. Tail(outbox) \in Seq(Packets)
            BY <2>1, HeadTailProperties DEF UdpInv, Types
        <3>2. Outgoing' = (Tail(outbox) \o queue) \o Sends(actions)
            BY <2>1 DEF Outgoing
        <3>3. queue \in Seq(Packets) /\ Sends(actions) \in Seq(Packets)
            BY PortTypes DEF UdpInv, Types
        <3>4. (Tail(outbox) \o queue) \o Sends(actions)
                  = Tail(outbox) \o (queue \o Sends(actions))
            BY <3>1, <3>3, ConcatAssociative
        <3> QED
            BY <3>2, <3>4
    <2> QED
        BY <2>2, <2>3, <2>4 DEF Port!Transmit
<1> QED
    BY <1>1, <1>2 DEF Port!Next

\* The steps on the side of the user.
LEMMA UserRefines ==
    ASSUME UdpInv,
           \/ Bind \/ BindFails \/ UserReceive
           \/ \E action \in Packets \cup {Close} : Act(action)
    PROVE  [Port!Next]_Port!pvars
<1> USE RegistryFacts DEF UdpInv
<1>1. CASE Bind
    <2>1. /\ entry[Socket] = "none" /\ UNCHANGED data
          /\ entry' = [entry EXCEPT ![Socket] = "open"]
        BY <1>1 DEF Bind, R!Register
    <2>2. PortState = "new" /\ PortState' = "open"
        BY <2>1 DEF PortState, Open
    <2>3. Outgoing' = Outgoing /\ Incoming' = Incoming
        BY <2>1 DEF data, Outgoing, Incoming
    <2> QED
        BY <2>2, <2>3 DEF Port!Next, Port!Open
<1>2. CASE BindFails
    <2>1. /\ entry[Socket] = "none" /\ UNCHANGED <<outbox, actions, queue, events>>
          /\ inbox' = <<>> /\ events = <<>>
          /\ entry' = [entry EXCEPT ![Socket] = "leaked"]
        BY <1>2 DEF BindFails, R!RegisterFails, OnlyWhileOpen
    <2>2. PortState = "new" /\ PortState' = "closed"
        BY <2>1 DEF PortState, Open
    <2>3. Outgoing' = Outgoing
        BY <2>1 DEF Outgoing
    <2>4. Incoming' = <<>>
        <3>1. <<>> \o <<>> = <<>>
            OBVIOUS
        <3> QED
            BY <2>1, <3>1 DEF Incoming
    <2> QED
        BY <2>2, <2>3, <2>4 DEF Port!Next, Port!OpenFails
<1>3. CASE UserReceive
    <2>1. /\ events # <<>> /\ events' = Tail(events)
          /\ UNCHANGED <<entry, inbox, outbox, actions, queue>>
        BY <1>3 DEF UserReceive, registry
    <2>2. PortState' = PortState /\ PortState # "new" /\ Outgoing' = Outgoing
        BY <2>1 DEF PortState, Open, Outgoing, OnlyWhileOpen
    <2>3. Incoming # <<>> /\ Incoming' = Tail(Incoming)
        BY <2>1, ConcatTail DEF Types, Incoming
    <2> QED
        BY <2>2, <2>3 DEF Port!Next, Port!Receive
<1>4. ASSUME NEW action \in Packets \cup {Close}, Act(action)
      PROVE  [Port!Next]_Port!pvars
    <2>1. /\ Open /\ actions' = Append(actions, action)
          /\ UNCHANGED <<entry, inbox, outbox, queue, events>>
        BY <1>4 DEF Act, R!Signal, Open
    <2>2. PortState = "open" /\ PortState' = PortState /\ Incoming' = Incoming
        BY <2>1 DEF PortState, Open, Incoming
    <2>3. Outgoing' = outbox \o queue \o Sends(Append(actions, action))
        BY <2>1 DEF Outgoing
    <2>4. CASE action = Close
        <3>1. Outgoing' = Outgoing
            BY <2>3, <2>4, SendsInOrder DEF Types, Outgoing
        <3> QED
            BY <2>2, <3>1 DEF Port!pvars
    <2>5. CASE action \in Packets
        <3>1. Sends(Append(actions, action)) = Append(Sends(actions), action)
            BY <2>5, SendsInOrder DEF Types
        <3>2. Outgoing' = Append(Outgoing, action)
            <4>1. (outbox \o queue) \o Append(Sends(actions), action)
                      = Append((outbox \o queue) \o Sends(actions), action)
                BY <2>5, PortTypes, ConcatAppend
            <4> QED
                BY <2>3, <3>1, <4>1 DEF Outgoing
        <3> QED
            BY <2>2, <2>5, <3>2 DEF Port!Next, Port!Accept
    <2> QED
        BY <2>4, <2>5
<1> QED
    BY <1>1, <1>2, <1>3, <1>4

\* The handler moves datagrams along, and changes nothing between the user and
\* the network, until it closes the socket.
LEMMA HandlerRefines ==
    ASSUME UdpInv, HandlerStep
    PROVE  [Port!Next]_Port!pvars
<1> USE RegistryFacts DEF UdpInv
<1>1. CASE OnActionSend
    <2>1. /\ actions # <<>> /\ Head(actions) # Close /\ actions' = Tail(actions)
          /\ queue' = Append(queue, Head(actions))
          /\ UNCHANGED <<entry, inbox, outbox, events>>
        BY <1>1 DEF OnActionSend, R!Reregister, registry
    <2>2. PortState' = PortState /\ Incoming' = Incoming
        BY <2>1 DEF PortState, Open, Incoming
    <2>3. /\ Head(actions) \in Packets /\ Tail(actions) \in Seq(Packets \cup {Close})
          /\ Sends(actions) = <<Head(actions)>> \o Sends(Tail(actions))
          /\ Sends(Tail(actions)) \in Seq(Packets)
        <3>1. actions \in Seq(Packets \cup {Close})
            BY DEF Types
        <3>2. Head(actions) \in Packets /\ Tail(actions) \in Seq(Packets \cup {Close})
            BY <2>1, <3>1, HeadTailProperties
        <3>3. Sends(actions) = <<Head(actions)>> \o Sends(Tail(actions))
            BY <2>1, <3>1, SendsInOrder
        <3>4. Sends(Tail(actions)) \in Seq(Packets)
            BY <3>2, SendsInOrder
        <3> QED
            BY <3>2, <3>3, <3>4
    <2>4. queue' \o Sends(Tail(actions)) = queue \o Sends(actions)
        <3>1. <<Head(actions)>> \in Seq(Packets)
            BY <2>3
        <3>2. queue' = queue \o <<Head(actions)>>
            BY <2>1, <2>3, AppendIsConcat DEF Types
        <3>3. (queue \o <<Head(actions)>>) \o Sends(Tail(actions))
                  = queue \o (<<Head(actions)>> \o Sends(Tail(actions)))
            BY <2>3, <3>1, ConcatAssociative, SMTT(30) DEF Types
        <3> QED
            BY <2>3, <3>2, <3>3
    <2>5. Outgoing' = outbox \o (queue' \o Sends(Tail(actions)))
        <3>1. queue' \in Seq(Packets) /\ outbox \in Seq(Packets)
            BY <2>1, <2>3, AppendProperties DEF Types
        <3>2. (outbox \o queue') \o Sends(Tail(actions))
                  = outbox \o (queue' \o Sends(Tail(actions)))
            BY <2>3, <3>1, ConcatAssociative
        <3> QED
            BY <2>1, <3>2 DEF Outgoing
    <2>6. Outgoing' = Outgoing
        BY <2>4, <2>5, PortTypes
    <2> QED
        BY <2>2, <2>6 DEF Port!pvars
<1>2. CASE OnActionClose
    <2>1. /\ Open /\ entry' = [entry EXCEPT ![Socket] = "closed"]
          /\ actions' = <<>> /\ queue' = <<>> /\ inbox' = <<>>
          /\ UNCHANGED <<outbox, events>>
        BY <1>2 DEF OnActionClose, R!Handling, R!Deregister
    <2>2. PortState = "open" /\ PortState' = "closed"
        BY <2>1 DEF PortState, Open
    <2>3. Outgoing' = outbox /\ Incoming' = events
        <3>1. Outgoing' = (outbox \o <<>>) \o Sends(<<>>) /\ Incoming' = events \o <<>>
            BY <2>1 DEF Outgoing, Incoming
        <3>2. outbox \o <<>> = outbox /\ events \o <<>> = events
            BY ConcatEmptySeq DEF Types
        <3> QED
            BY <3>1, <3>2, SendsInOrder
    <2>4. Len(outbox) \in 0..Len(Outgoing) /\ SubSeq(Outgoing, 1, Len(outbox)) = outbox
        BY PortTypes, ConcatPrefix DEF Types
    <2>5. Len(events) \in 0..Len(Incoming) /\ SubSeq(Incoming, 1, Len(events)) = events
        BY ConcatPrefix DEF Types, Incoming
    <2> QED
        BY <2>2, <2>3, <2>4, <2>5 DEF Port!Next, Port!Close
<1>3. CASE TryRecv
    <2>1. /\ inbox # <<>> /\ inbox' = Tail(inbox) /\ events' = Append(events, Head(inbox))
          /\ UNCHANGED <<entry, outbox, actions, queue>>
        BY <1>3 DEF TryRecv, R!Exhaust, registry
    <2>2. PortState' = PortState /\ Outgoing' = Outgoing
        BY <2>1 DEF PortState, Open, Outgoing
    <2>3. Incoming' = Incoming
        BY <2>1, ConcatMoveHead DEF Types, Incoming
    <2> QED
        BY <2>2, <2>3 DEF Port!pvars
<1>4. CASE TrySend
    <2>1. /\ queue # <<>> /\ queue' = Tail(queue) /\ outbox' = Append(outbox, Head(queue))
          /\ UNCHANGED <<entry, inbox, actions, events>>
        BY <1>4 DEF TrySend, R!Exhaust, registry
    <2>2. PortState' = PortState /\ Incoming' = Incoming
        BY <2>1 DEF PortState, Open, Incoming
    <2>3. outbox' \o queue' = outbox \o queue
        BY <2>1, ConcatMoveHead DEF Types
    <2>4. Outgoing' = Outgoing
        BY <2>1, <2>3 DEF Outgoing
    <2> QED
        BY <2>2, <2>4 DEF Port!pvars
<1>5. CASE TakeReady \/ RecvBlocked \/ SendBlocked \/ SendDone \/ EndHandle
    <2>1. UNCHANGED data /\ UNCHANGED entry
        BY <1>5 DEF TakeReady, RecvBlocked, SendBlocked, SendDone, EndHandle, R!Take,
           R!Blocked, R!NothingToWrite, R!EndHandler
    <2> QED
        BY <2>1 DEF data, PortState, Open, Outgoing, Incoming, Port!pvars
<1> QED
    BY <1>1, <1>2, <1>3, <1>4, <1>5 DEF HandlerStep

\* Between the user of the service and the network nothing is lost or made up,
\* and nothing overtakes, while the socket is open: for any datagrams, buffers
\* and interleavings the service is two queues.
THEOREM SocketImplementsPort == Spec => ImplementsPort
<1>1. Init => Port!Init
    <2> SUFFICES ASSUME Init PROVE Port!Init
        OBVIOUS
    <2>1. entry[Socket] = "none" /\ outbox = <<>> /\ queue = <<>> /\ actions = <<>>
          /\ events = <<>> /\ inbox = <<>>
        BY DEF Init
    <2>2. PortState = "new"
        BY <2>1 DEF PortState, Open
    <2>3. <<>> \o <<>> = <<>>
        OBVIOUS
    <2>4. Outgoing = <<>> /\ Incoming = <<>>
        BY <2>1, <2>3, SendsInOrder DEF Outgoing, Incoming
    <2> QED
        BY <2>2, <2>4 DEF Port!Init
<1>2. ASSUME UdpInv, [Next]_vars
      PROVE  [Port!Next]_Port!pvars
    <2>1. CASE (\E p \in Packets : Arrive(p)) \/ Transmit
        BY <1>2, <2>1, NetworkRefines
    <2>2. CASE \/ Bind \/ BindFails \/ UserReceive
               \/ \E action \in Packets \cup {Close} : Act(action)
        BY <1>2, <2>2, UserRefines
    <2>3. CASE HandlerStep
        BY <1>2, <2>3, HandlerRefines
    <2>4. CASE IoError \/ LoopStep \/ UNCHANGED vars
        <3>1. UNCHANGED data /\ UNCHANGED entry
            BY <2>4 DEF IoError, LoopStep, vars, data, R!Panic, R!LoopStep, R!Poll,
               R!PollFails, R!StartProcess, R!EndProcess, R!ProcessFails, R!StartHandler, R!Deliver
        <3> QED
            BY <3>1 DEF data, PortState, Open, Outgoing, Incoming, Port!pvars
    <2> QED
        BY <1>2, <2>1, <2>2, <2>3, <2>4 DEF Next
<1> QED
    BY <1>1, <1>2, UdpInvariant, PTL DEF Spec, ImplementsPort, Port!Spec

=============================================================================
