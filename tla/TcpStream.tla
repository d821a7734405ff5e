----------------------------- MODULE TcpStream -----------------------------
(***************************************************************************)
(* The TCP stream service of `stewart-mio` (net/tcp/stream.rs): one        *)
(* connected socket, the actor that owns it and its user, on top of the    *)
(* registry and the event loop.  As in UdpSocket each action is an action  *)
(* of MioRegistry together with what the service does with its data.  What *)
(* is different: the kernel takes and gives any number of bytes, the peer  *)
(* may end the stream, and reading fills a buffer that is sent to the user *)
(* at the end of the loop.                                                 *)
(***************************************************************************)
EXTENDS Naturals, SequencesExt

CONSTANTS
    Socket,
    Bytes,
    Messages,    \* what the user sends, byte sequences
    MaxIncoming, \* bound: bytes received and not yet taken by the user
    MaxOutgoing, \* bound: actions and messages waiting to be sent
    MaxEvents,   \* bound: events the user lets pile up before it has its turn
    SendBuffer,  \* bytes that the kernel takes without blocking
    BufferMin,   \* 1024: the least space in the buffer when reading begins
    BufferSize,  \* 2048: its size when it had less
    BufferStep,  \* 1024: what it grows by when it is full
    IoErrors,    \* whether calls may fail with an error
    Interrupts   \* whether read may be interrupted

ASSUME ConstantsAssumption ==
    /\ Messages \subseteq Seq(Bytes)
    /\ {MaxIncoming, MaxOutgoing, MaxEvents, SendBuffer} \subseteq Nat

ASSUME BufferAssumption == {BufferMin, BufferSize, BufferStep} \subseteq Nat \ {0}

VARIABLES
    interest, edges, entry, state, signalled, batch, loop, handler, taken, ended,
    inbox,   \* the kernel's receive buffer
    fin,     \* whether the peer has ended its side
    outbox,  \* the kernel's send buffer
    actions, \* Service::actions
    queue,   \* Service::queue
    space,   \* Service::buffer, its length
    read,    \* the first bytes_read bytes of it while the read loop runs
    closed,  \* Service::closed
    events,  \* the user's mailbox for StreamEvents
    told     \* whether the user has seen StreamEvent::Closed

registry == <<interest, edges, entry, state, signalled, batch, loop, handler, taken, ended>>
kernel == <<inbox, fin, outbox>>
user == <<events, told>>
data == <<kernel, actions, queue, space, read, closed, user>>
vars == <<registry, data>>

Open == entry[Socket] = "open"

\* What the kernel would let the socket do; the end is there to be read, too.
Ready ==
    [s \in {Socket} |->
        IF entry[s] \in {"none", "open"}
        THEN {d \in {"readable", "writable"} :
                 \/ d = "readable" /\ (inbox # <<>> \/ fin)
                 \/ d = "writable" /\ Len(outbox) < SendBuffer}
        ELSE {}]

R == INSTANCE MioRegistry WITH Sources <- {Socket}, Capacity <- 1, ready <- Ready

\* StreamAction and StreamEvent
Send(m) == [type |-> "send", data |-> m]
Close   == [type |-> "close", data |-> <<>>]
Recv(m) == [type |-> "recv", data |-> m]
Closed  == [type |-> "closed", data |-> <<>>]

Payload(ms) == FlattenSeq([i \in DOMAIN ms |-> ms[i].data])

TypeOK ==
    /\ R!TypeOK
    /\ inbox \in Seq(Bytes) /\ outbox \in Seq(Bytes) /\ Len(outbox) <= SendBuffer
    /\ {fin, closed, told} \subseteq BOOLEAN
    /\ \A i \in DOMAIN actions : actions[i] \in {Send(m) : m \in Messages} \cup {Close}
    /\ queue \in Seq(Seq(Bytes))
    /\ space \in Nat /\ read \in Seq(Bytes) /\ Len(read) <= space
    /\ \A i \in DOMAIN events :
          \/ events[i] = Closed
          \/ events[i] = Recv(events[i].data) /\ events[i].data \in Seq(Bytes) \ {<<>>}
    /\ ~Open => actions = <<>> /\ queue = <<>> /\ read = <<>>

Init ==
    /\ inbox = <<>> /\ fin = FALSE /\ outbox = <<>>
    /\ actions = <<>> /\ queue = <<>>
    /\ space = 0 /\ read = <<>> /\ closed = FALSE
    /\ events = <<>> /\ told = FALSE
    /\ entry = [s \in {Socket} |-> "none"]
    /\ R!Init

-----------------------------------------------------------------------------
(* The network, also before the service is opened.                         *)

Connected == entry[Socket] \in {"none", "open"}

Arrive(b) ==
    /\ Connected /\ ~fin
    /\ Len(Payload(events) \o read \o inbox) < MaxIncoming
    /\ inbox' = Append(inbox, b)
    /\ UNCHANGED <<fin, outbox, actions, queue, space, read, closed, user>>
    /\ IF inbox = <<>> THEN R!BecomeReady(Socket, "readable") ELSE UNCHANGED registry

\* The peer ends its side of the connection.
PeerEnds ==
    /\ Connected /\ ~fin
    /\ fin' = TRUE
    /\ UNCHANGED <<inbox, outbox, actions, queue, space, read, closed, user>>
    /\ IF inbox = <<>> THEN R!BecomeReady(Socket, "readable") ELSE UNCHANGED registry

Transmit ==
    /\ outbox # <<>>
    /\ outbox' = Tail(outbox)
    /\ UNCHANGED <<inbox, fin, actions, queue, space, read, closed, user>>
    /\ IF Connected /\ Len(outbox) = SendBuffer
       THEN R!BecomeReady(Socket, "writable") ELSE UNCHANGED registry

-----------------------------------------------------------------------------
(* The user.                                                               *)

UserRuns == loop = "process" /\ handler[Socket] = "idle"

\* open, by the listener that accepted the connection
OpenStream ==
    /\ UNCHANGED data
    /\ R!Register(Socket)

\* The registration fails: the connection is dropped.
OpenFails ==
    /\ inbox' = <<>>
    /\ UNCHANGED <<fin, outbox, actions, queue, space, read, closed, user>>
    /\ R!RegisterFails(Socket)

\* The user puts an action into the mailbox of the service.
Act(action) ==
    /\ UserRuns
    /\ Len(actions) + Len(queue) < MaxOutgoing
    /\ actions' = Append(actions, action)
    /\ UNCHANGED <<kernel, queue, space, read, closed, user>>
    /\ R!Signal(Socket)

UserReceive ==
    /\ UserRuns
    /\ events # <<>>
    /\ events' = Tail(events)
    /\ told' = (told \/ Head(events) = Closed)
    /\ UNCHANGED <<registry, kernel, actions, queue, space, read, closed>>

-----------------------------------------------------------------------------
(* Actor::handle: the actions, then reading, then writing.                 *)

\* Mutant of OnActionSend: the interest in writing is renewed only when there
\* was something to write already.
OnActionSendLate ==
    /\ R!Handling(Socket, "start")
    /\ actions # <<>> /\ Head(actions) # Close
    /\ actions' = Tail(actions)
    /\ queue' = Append(queue, Head(actions).data)
    /\ UNCHANGED <<kernel, space, read, closed, user>>
    /\ IF queue # <<>> THEN R!Reregister(Socket, R!Dirs) ELSE UNCHANGED registry

\* on_action_send
OnActionSend ==
    /\ R!Handling(Socket, "start")
    /\ actions # <<>> /\ Head(actions) # Close
    /\ actions' = Tail(actions)
    /\ queue' = Append(queue, Head(actions).data)
    /\ UNCHANGED <<kernel, space, read, closed, user>>
    /\ IF queue = <<>> THEN R!Reregister(Socket, R!Dirs) ELSE UNCHANGED registry

\* Mutant of OnActionClose: what is queued outlives the actor.
OnActionCloseKeep ==
    /\ R!Handling(Socket, "start")
    /\ actions # <<>> /\ Head(actions) = Close
    /\ actions' = <<>> /\ inbox' = <<>>
    /\ UNCHANGED <<fin, outbox, queue, space, read, closed, user>>
    /\ R!Deregister(Socket)

\* StreamAction::Close: the actor stops, and what it and its socket have
\* buffered is dropped, but for what the kernel took.  The user is not told.
OnActionClose ==
    /\ R!Handling(Socket, "start")
    /\ actions # <<>> /\ Head(actions) = Close
    /\ actions' = <<>> /\ queue' = <<>> /\ inbox' = <<>>
    /\ UNCHANGED <<fin, outbox, space, read, closed, user>>
    /\ R!Deregister(Socket)

\* poll_actions is done, poll_ready begins; there is space for reading.
TakeReady ==
    /\ actions = <<>>
    /\ space' = IF "readable" \in state[Socket] /\ space < BufferMin
                THEN BufferSize ELSE space
    /\ UNCHANGED <<kernel, actions, queue, read, closed, user>>
    /\ R!Take(Socket)

Reading == R!Handling(Socket, "drain") /\ "readable" \in taken[Socket]

\* Mutant of Read: the buffer does not grow.
ReadNoGrow(n) ==
    /\ Reading
    /\ n <= Len(inbox) /\ n <= space - Len(read)
    /\ inbox' = SubSeq(inbox, n + 1, Len(inbox))
    /\ read' = read \o SubSeq(inbox, 1, n)
    /\ UNCHANGED <<fin, outbox, actions, queue, space, closed, user>>
    /\ IF n = Len(inbox) /\ ~fin THEN R!Exhaust(Socket, "readable") ELSE UNCHANGED registry

\* read gives n bytes, as many as it likes of those that there are and that
\* there is space for.
Read(n) ==
    /\ Reading
    /\ n <= Len(inbox) /\ n <= space - Len(read)
    /\ inbox' = SubSeq(inbox, n + 1, Len(inbox))
    /\ read' = read \o SubSeq(inbox, 1, n)
    /\ space' = IF Len(read') = space THEN space + BufferStep ELSE space
    /\ UNCHANGED <<fin, outbox, actions, queue, closed, user>>
    /\ IF n = Len(inbox) /\ ~fin THEN R!Exhaust(Socket, "readable") ELSE UNCHANGED registry

\* The read loop ends: what was read is split off and sent to the user.
FinishRead ==
    /\ events' = IF read = <<>> THEN events ELSE Append(events, Recv(read))
    /\ space' = space - Len(read)
    /\ read' = <<>>

\* read would block.
ReadBlocked ==
    /\ inbox = <<>> /\ ~fin
    /\ FinishRead
    /\ UNCHANGED <<kernel, actions, queue, closed, told>>
    /\ R!Blocked(Socket, "readable")

\* read gives zero bytes: at the end of the stream, or into no space.
ReadEnd ==
    /\ (inbox = <<>> /\ fin) \/ Len(read) = space
    /\ FinishRead
    /\ closed' = TRUE
    /\ UNCHANGED <<kernel, actions, queue, told>>
    /\ R!EndOfStream(Socket)

\* read is interrupted by a signal: the loop ends as if it would block.
ReadInterrupted ==
    /\ Interrupts
    /\ Reading
    /\ FinishRead
    /\ taken' = [taken EXCEPT ![Socket] = @ \ {"readable"}]
    /\ UNCHANGED <<interest, edges, entry, state, signalled, batch, loop, handler, ended>>
    /\ UNCHANGED <<kernel, actions, queue, closed, told>>

Writing == R!Handling(Socket, "drain") /\ taken[Socket] = {"writable"}

\* Mutant of Write: a message of which a part was written is done with.
WriteAndPop(n) ==
    /\ Writing
    /\ queue # <<>>
    /\ n <= Len(Head(queue)) /\ n <= SendBuffer - Len(outbox)
    /\ n = 0 => Head(queue) = <<>>
    /\ outbox' = outbox \o SubSeq(Head(queue), 1, n)
    /\ queue' = Tail(queue)
    /\ UNCHANGED <<inbox, fin, actions, space, read, closed, user>>
    /\ IF n > 0 /\ Len(outbox') = SendBuffer
       THEN R!Exhaust(Socket, "writable") ELSE UNCHANGED registry

\* write takes n bytes of the message at the head of the queue, none only of
\* an empty one; what is left of it stays there.
Write(n) ==
    /\ Writing
    /\ queue # <<>>
    /\ n <= Len(Head(queue)) /\ n <= SendBuffer - Len(outbox)
    /\ n = 0 => Head(queue) = <<>>
    /\ outbox' = outbox \o SubSeq(Head(queue), 1, n)
    /\ queue' = IF n < Len(Head(queue))
                THEN <<SubSeq(Head(queue), n + 1, Len(Head(queue)))>> \o Tail(queue)
                ELSE Tail(queue)
    /\ UNCHANGED <<inbox, fin, actions, space, read, closed, user>>
    /\ IF n > 0 /\ Len(outbox') = SendBuffer
       THEN R!Exhaust(Socket, "writable") ELSE UNCHANGED registry

\* write would block: the message stays in the queue.
WriteBlocked ==
    /\ Writing
    /\ queue # <<>> /\ Head(queue) # <<>>
    /\ UNCHANGED data
    /\ R!Blocked(Socket, "writable")

\* Mutant of WriteDone: the interest in writing is kept.
WriteDoneKeep ==
    /\ Writing
    /\ queue = <<>>
    /\ taken' = [taken EXCEPT ![Socket] = {}]
    /\ UNCHANGED <<interest, edges, entry, state, signalled, batch, loop, handler, ended>>
    /\ UNCHANGED data

\* on_ready_writable after the queue is empty
WriteDone ==
    /\ Writing
    /\ queue = <<>>
    /\ UNCHANGED data
    /\ R!NothingToWrite(Socket)

\* The handler returns; after the end of the stream it says so, each time.
EndHandle ==
    /\ events' = IF closed THEN Append(events, Closed) ELSE events
    /\ UNCHANGED <<kernel, actions, queue, space, read, closed, told>>
    /\ R!EndHandler(Socket)

\* Any other error of the socket, of mio or of the user's sender is unwrapped.
IoError ==
    /\ IoErrors
    /\ \/ R!Handling(Socket, "start") /\ actions # <<>> /\ queue = <<>>
       \/ Reading
       \/ Writing
    /\ UNCHANGED data
    /\ R!Panic(Socket)

-----------------------------------------------------------------------------

\* Runtime::process serves actors in the order of their signals: the user has
\* its turn before the events pile up.
LoopStep ==
    /\ loop = "process" /\ Socket \in signalled => Len(events) < MaxEvents
    /\ UNCHANGED data
    /\ R!LoopStep

HandlerStep ==
    \/ OnActionSend \/ OnActionClose \/ TakeReady
    \/ \E n \in 1..MaxIncoming : Read(n)
    \/ ReadBlocked \/ ReadEnd
    \/ \E n \in 0..SendBuffer : Write(n)
    \/ WriteBlocked \/ WriteDone
    \/ EndHandle

Next ==
    \/ \E b \in Bytes : Arrive(b)
    \/ PeerEnds \/ Transmit
    \/ OpenStream \/ OpenFails \/ UserReceive
    \/ \E m \in Messages : Act(Send(m))
    \/ Act(Close)
    \/ HandlerStep \/ ReadInterrupted
    \/ IoError
    \/ LoopStep

Spec == Init /\ [][Next]_vars

\* The network takes what is sent, the event loop and the handlers go on, and
\* the user takes its events.
Fairness ==
    /\ WF_vars(Transmit) /\ WF_vars(LoopStep) /\ WF_vars(HandlerStep)
    /\ SF_vars(UserReceive)

FairSpec == Spec /\ Fairness

-----------------------------------------------------------------------------
(* Properties                                                              *)

\* The service keeps to the protocol of the registry: it uses a direction
\* until it would block or has ended, or gives up its interest.
UsesRegistryProperly == R!Spec

\* Hence no readiness of the socket is forgotten ("Mio doesn't garantuee that
\* we'll get another event", registry.rs).
NoLostReadiness == R!NoLostReadiness

\* Write events are asked for exactly while something waits to be written.
InterestMatchesQueue ==
    Open /\ handler[Socket] = "idle" =>
        ("writable" \in interest[Socket] <=> queue # <<>>)

\* read never gets an empty slice, whose zero bytes would pass for the end of
\* the stream, whatever is split off the buffer and however it grows.
ReadHasSpace == Reading => Len(read) < space

-----------------------------------------------------------------------------
(* Refinement                                                              *)

StreamState == CASE entry[Socket] = "none" -> "new"
                 [] Open                   -> "open"
                 [] OTHER                  -> "closed"
Outgoing    == outbox \o FlattenSeq(queue) \o Payload(actions)
Incoming    == Payload(events) \o read \o inbox
End         == IF told THEN "told" ELSE IF fin THEN "pending" ELSE "none"

Stream ==
    INSTANCE ByteStream
    WITH stream <- StreamState, outgoing <- Outgoing, incoming <- Incoming, end <- End

\* Bytes leave and arrive in order, none is lost before the stream is closed,
\* and its end is announced only when it came, after the last byte.
ImplementsStream == Stream!Spec

\* They do leave and arrive, and so does the end, while the event loop comes
\* round.
StreamIsLive == []<>(loop = "poll") => Stream!Fairness

=============================================================================
