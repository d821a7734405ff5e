----------------------------- MODULE UdpSocket -----------------------------
(***************************************************************************)
(* The UDP service of `stewart-mio` (net/udp.rs): one socket, the actor    *)
(* that owns it and its user, on top of the registry and the event loop.   *)
(* The kernel acts between any two calls of the actor: datagrams arrive    *)
(* and buffer space becomes free while a handler is in the middle of its   *)
(* loops.                                                                  *)
(*                                                                         *)
(* Each action is an action of MioRegistry together with what the service  *)
(* does with its data: R is the registry as this socket uses it, and its   *)
(* `ready` is what the socket's kernel buffers say.                        *)
(***************************************************************************)
EXTENDS Naturals, SequencesExt

CONSTANTS
    Socket,
    Packets,      \* datagrams with their remote addresses
    MaxIncoming,  \* bound: datagrams received and not yet taken by the user
    MaxOutgoing,  \* bound: actions and datagrams waiting to be sent
    SendBuffer,   \* datagrams that the kernel takes without blocking
    IoErrors      \* whether calls of the socket may fail with an error

Close == "close" \* Action::Close; any other action sends a datagram

ASSUME ConstantsAssumption ==
    /\ Close \notin Packets
    /\ {MaxIncoming, MaxOutgoing, SendBuffer} \subseteq Nat

VARIABLES
    interest, edges, entry, state, signalled, batch, loop, handler, taken,
    inbox,   \* the kernel's receive buffer
    outbox,  \* the kernel's send buffer
    actions, \* Service::actions, the mailbox for the user's actions
    queue,   \* Service::queue
    events   \* the user's mailbox for RecvEvents

registry == <<interest, edges, entry, state, signalled, batch, loop, handler, taken>>
vars == <<interest, edges, entry, state, signalled, batch, loop, handler, taken,
          inbox, outbox, actions, queue, events>>

Open == entry[Socket] = "open"

\* What the kernel would let the socket do.
Ready ==
    [s \in {Socket} |->
        IF entry[s] \in {"none", "open"}
        THEN {d \in {"readable", "writable"} :
                 \/ d = "readable" /\ inbox # <<>>
                 \/ d = "writable" /\ Len(outbox) < SendBuffer}
        ELSE {}]

R == INSTANCE MioRegistry
     WITH Sources <- {Socket}, Capacity <- 1, ready <- Ready,
          ended <- [s \in {Socket} |-> {}] \* a socket without an end

TypeOK ==
    /\ R!TypeOK
    /\ inbox \in Seq(Packets) /\ Len(inbox) <= MaxIncoming
    /\ outbox \in Seq(Packets) /\ Len(outbox) <= SendBuffer
    /\ actions \in Seq(Packets \cup {Close})
    /\ queue \in Seq(Packets)
    /\ events \in Seq(Packets)
    /\ ~Open => actions = <<>> /\ queue = <<>>
    /\ entry[Socket] \notin {"none", "open"} => inbox = <<>>

Init ==
    /\ inbox = <<>> /\ outbox = <<>>
    /\ actions = <<>> /\ queue = <<>> /\ events = <<>>
    /\ entry = [s \in {Socket} |-> "none"]
    /\ R!Init

data == <<inbox, outbox, actions, queue, events>>

-----------------------------------------------------------------------------
(* The network.                                                            *)

\* A datagram arrives at a socket that has room for it.  It may come before
\* the socket is registered, as bind does that after it has bound it.
Arrive(p) ==
    /\ entry[Socket] \in {"none", "open"}
    /\ Len(inbox) + Len(events) < MaxIncoming
    /\ inbox' = Append(inbox, p)
    /\ UNCHANGED <<outbox, actions, queue, events>>
    /\ IF inbox = <<>> THEN R!BecomeReady(Socket, "readable") ELSE UNCHANGED registry

\* The kernel puts a datagram on the wire.
Transmit ==
    /\ outbox # <<>>
    /\ outbox' = Tail(outbox)
    /\ UNCHANGED <<inbox, actions, queue, events>>
    /\ IF Open /\ Len(outbox) = SendBuffer
       THEN R!BecomeReady(Socket, "writable") ELSE UNCHANGED registry

-----------------------------------------------------------------------------
(* The user: main before the event loop, then the handlers of other actors. *)

UserRuns == loop = "process" /\ handler[Socket] = "idle"

\* bind: the socket is opened and registered, the actor inserted.
Bind ==
    /\ UNCHANGED data
    /\ R!Register(Socket)

\* The socket is closed with what it has received.
BindFails ==
    /\ inbox' = <<>>
    /\ UNCHANGED <<outbox, actions, queue, events>>
    /\ R!RegisterFails(Socket)

\* The user puts an action into the mailbox of the service.
Act(action) ==
    /\ UserRuns
    /\ Len(actions) + Len(queue) < MaxOutgoing
    /\ actions' = Append(actions, action)
    /\ UNCHANGED <<inbox, outbox, queue, events>>
    /\ R!Signal(Socket)

UserReceive ==
    /\ UserRuns
    /\ events # <<>>
    /\ events' = Tail(events)
    /\ UNCHANGED <<registry, inbox, outbox, actions, queue>>

-----------------------------------------------------------------------------
(* Actor::handle: the actions, then reading, then writing.                 *)

\* Mutant of OnActionSend: the interest in writing is renewed only when there
\* was something to write already.
OnActionSendLate ==
    /\ R!Handling(Socket, "start")
    /\ actions # <<>> /\ Head(actions) # Close
    /\ actions' = Tail(actions)
    /\ queue' = Append(queue, Head(actions))
    /\ UNCHANGED <<inbox, outbox, events>>
    /\ IF queue # <<>>
       THEN R!Reregister(Socket, R!Dirs)
       ELSE UNCHANGED registry

\* on_action_send
OnActionSend ==
    /\ R!Handling(Socket, "start")
    /\ actions # <<>> /\ Head(actions) # Close
    /\ actions' = Tail(actions)
    /\ queue' = Append(queue, Head(actions))
    /\ UNCHANGED <<inbox, outbox, events>>
    /\ IF queue = <<>>
       THEN R!Reregister(Socket, R!Dirs)
       ELSE UNCHANGED registry

\* Mutant of OnActionClose: what is queued outlives the actor.
OnActionCloseKeep ==
    /\ R!Handling(Socket, "start")
    /\ actions # <<>> /\ Head(actions) = Close
    /\ actions' = <<>> /\ inbox' = <<>>
    /\ UNCHANGED <<outbox, queue, events>>
    /\ R!Deregister(Socket)

\* Action::Close: the handler breaks, and all that the actor and its socket
\* have buffered is dropped with them, but for what the kernel took.
OnActionClose ==
    /\ R!Handling(Socket, "start")
    /\ actions # <<>> /\ Head(actions) = Close
    /\ actions' = <<>> /\ queue' = <<>> /\ inbox' = <<>>
    /\ UNCHANGED <<outbox, events>>
    /\ R!Deregister(Socket)

\* poll_actions is done, poll_ready begins.
TakeReady ==
    /\ actions = <<>>
    /\ UNCHANGED data
    /\ R!Take(Socket)

\* Mutant of TryRecv: the handler does not go on after the first datagram.
TryRecvOnce ==
    /\ R!Handling(Socket, "drain")
    /\ "readable" \in taken[Socket]
    /\ inbox # <<>>
    /\ inbox' = Tail(inbox)
    /\ events' = Append(events, Head(inbox))
    /\ taken' = [taken EXCEPT ![Socket] = @ \ {"readable"}]
    /\ UNCHANGED <<outbox, actions, queue>>
    /\ UNCHANGED <<interest, edges, entry, state, signalled, batch, loop, handler>>

\* try_recv with a datagram to read
TryRecv ==
    /\ R!Handling(Socket, "drain")
    /\ "readable" \in taken[Socket]
    /\ inbox # <<>>
    /\ inbox' = Tail(inbox)
    /\ events' = Append(events, Head(inbox))
    /\ UNCHANGED <<outbox, actions, queue>>
    /\ IF Len(inbox) = 1 THEN R!Exhaust(Socket, "readable") ELSE UNCHANGED registry

\* try_recv that would block: poll_read is done.
RecvBlocked ==
    /\ inbox = <<>>
    /\ UNCHANGED data
    /\ R!Blocked(Socket, "readable")

Writing == R!Handling(Socket, "drain") /\ taken[Socket] = {"writable"}

\* Mutant of TrySend: the datagram leaves the queue before it is sent.
TrySendAndBlocked ==
    /\ Writing
    /\ queue # <<>>
    /\ queue' = Tail(queue)
    /\ outbox' = IF Len(outbox) < SendBuffer THEN Append(outbox, Head(queue)) ELSE outbox
    /\ UNCHANGED <<inbox, actions, events>>
    /\ IF Len(outbox) + 1 = SendBuffer
       THEN R!Exhaust(Socket, "writable") ELSE UNCHANGED registry

\* try_send that the kernel accepts
TrySend ==
    /\ Writing
    /\ queue # <<>>
    /\ Len(outbox) < SendBuffer
    /\ outbox' = Append(outbox, Head(queue))
    /\ queue' = Tail(queue)
    /\ UNCHANGED <<inbox, actions, events>>
    /\ IF Len(outbox) + 1 = SendBuffer
       THEN R!Exhaust(Socket, "writable") ELSE UNCHANGED registry

\* try_send that would block: the datagram stays in the queue.
SendBlocked ==
    /\ Writing
    /\ queue # <<>>
    /\ UNCHANGED data
    /\ R!Blocked(Socket, "writable")

\* poll_write after the queue is empty
SendDone ==
    /\ Writing
    /\ queue = <<>>
    /\ UNCHANGED data
    /\ R!NothingToWrite(Socket)

EndHandle ==
    /\ UNCHANGED data
    /\ R!EndHandler(Socket)

\* A call of the socket fails with another error than WouldBlock, or one of
\* mio or of the user's sender does.
IoError ==
    /\ IoErrors
    /\ \/ R!Handling(Socket, "start") /\ actions # <<>> /\ queue = <<>>
       \/ R!Handling(Socket, "drain") /\ "readable" \in taken[Socket]
       \/ Writing
    /\ UNCHANGED data
    /\ R!Panic(Socket)

-----------------------------------------------------------------------------

LoopStep == UNCHANGED data /\ R!LoopStep

HandlerStep ==
    \/ OnActionSend \/ OnActionClose \/ TakeReady
    \/ TryRecv \/ RecvBlocked \/ TrySend \/ SendBlocked \/ SendDone
    \/ EndHandle

Next ==
    \/ \E p \in Packets : Arrive(p)
    \/ Transmit
    \/ Bind \/ BindFails \/ UserReceive
    \/ \E action \in Packets \cup {Close} : Act(action)
    \/ HandlerStep
    \/ IoError
    \/ LoopStep

Spec == Init /\ [][Next]_vars

\* The network takes what is sent, the event loop and the handlers go on, and
\* the user takes its events.
Fairness ==
    /\ WF_vars(Transmit) /\ WF_vars(LoopStep) /\ WF_vars(HandlerStep)
    /\ SF_vars(UserReceive)

FairSpec == Spec /\ Fairness

-----------------------------------------------------------------------------
(* Properties                                                              *)

\* The service keeps to the protocol of the registry: it uses a direction
\* until it would block, or gives up its interest, before its handler returns.
\* Hence no readiness of the socket is forgotten, whenever datagrams arrive or
\* buffer space becomes free (NoReadinessIsLost of MioRegistryProofs).
UsesRegistryProperly == R!Spec

\* Write events are asked for exactly while something waits to be written:
\* never too late, which would leave a datagram behind, and never longer,
\* which would wake the service for ever.
InterestMatchesQueue ==
    Open /\ handler[Socket] = "idle" =>
        ("writable" \in interest[Socket] <=> queue # <<>>)

-----------------------------------------------------------------------------
(* Refinement                                                              *)

Sends(as) == FlattenSeq([i \in DOMAIN as |-> IF as[i] = Close THEN <<>> ELSE <<as[i]>>])

PortState == CASE entry[Socket] = "none" -> "new"
               [] Open                   -> "open"
               [] OTHER                  -> "closed"
Outgoing  == outbox \o queue \o Sends(actions)
Incoming  == events \o inbox

Port ==
    INSTANCE DatagramPort
    WITH port <- PortState, outgoing <- Outgoing, incoming <- Incoming

\* Datagrams leave and arrive in order, and none is lost before the socket is
\* closed.
ImplementsPort == Port!Spec

\* And they do leave and arrive, as long as the event loop comes round.
PortIsLive == []<>(loop = "poll") => Port!Fairness

=============================================================================
