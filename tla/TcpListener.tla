---------------------------- MODULE TcpListener ----------------------------
(***************************************************************************)
(* The TCP listener service of `stewart-mio` (net/tcp/listener.rs): one    *)
(* listening socket and the actor that owns it, on top of the registry and *)
(* the event loop.  As in UdpSocket each action is an action of            *)
(* MioRegistry together with what the service does.  The kernel completes  *)
(* connections between any two calls of accept.  What becomes of accepted  *)
(* connections, and who the user is, is left to the modules that extend    *)
(* this one.                                                               *)
(***************************************************************************)
EXTENDS Naturals, SequencesExt

CONSTANTS
    Listener,
    Conns,    \* connections, each with the stream that is opened for it
    IoErrors  \* whether calls of the socket may fail with an error

Closed == "closed" \* ListenerEvent::Closed; any other is the connection that it announces

ASSUME ConnsAssumption == Closed \notin Conns

VARIABLES
    interest, edges, entry, state, signalled, batch, loop, handler, taken,
    backlog, \* the kernel's queue of connections that were not accepted
    actions, \* Service::actions
    events,  \* the user's mailbox for ListenerEvents: connections and Closed
    woken,   \* whether the user is in the run queue
    stream   \* of each connection: "none", "backlog", "open", "ended" or "closed"

registry == <<interest, edges, entry, state, signalled, batch, loop, handler, taken>>
listener == <<backlog, actions, events, woken, stream>>

Ready ==
    [s \in {Listener} |->
        IF entry[s] \in {"none", "open"} /\ backlog # <<>> THEN {"readable"} ELSE {}]

R == INSTANCE MioRegistry
     WITH Sources <- {Listener}, Capacity <- 1, ready <- Ready,
          ended <- [s \in {Listener} |-> {}]

Close == "close"

ListenerTypeOK ==
    /\ R!TypeOK
    /\ stream \in [Conns -> {"none", "backlog", "open", "ended", "closed"}]
    /\ actions \in Seq({Close})
    /\ events \in Seq(Conns \cup {Closed})
    /\ woken \in BOOLEAN
    \* the socket has its connections, and the user hears of each one once
    /\ \A c \in Conns : stream[c] = "backlog" <=> c \in ToSet(backlog)
    /\ IsInjective(backlog) /\ IsInjective(events)
    /\ Closed \in ToSet(events) => Last(events) = Closed /\ entry[Listener] = "closed"

ListenerInit ==
    /\ backlog = <<>> /\ actions = <<>> /\ events = <<>> /\ woken = FALSE
    /\ stream = [c \in Conns |-> "none"]
    /\ entry = [s \in {Listener} |-> "none"]
    /\ R!Init

\* The kernel completes a connection, as soon as the socket is bound, which is
\* before it is registered.
Connect(c) ==
    /\ entry[Listener] \in {"none", "open"}
    /\ stream[c] = "none"
    /\ backlog' = Append(backlog, c)
    /\ stream' = [stream EXCEPT ![c] = "backlog"]
    /\ UNCHANGED <<actions, events, woken>>
    /\ IF backlog = <<>> THEN R!BecomeReady(Listener, "readable") ELSE UNCHANGED registry

\* bind
Bind ==
    /\ UNCHANGED listener
    /\ R!Register(Listener)

\* When a socket is closed, so are the connections that are waiting for it.
CutOff ==
    /\ backlog' = <<>>
    /\ stream' = [c \in Conns |-> IF stream[c] = "backlog" THEN "closed" ELSE stream[c]]

BindFails ==
    /\ CutOff
    /\ UNCHANGED <<actions, events, woken>>
    /\ R!RegisterFails(Listener)

\* ListenerAction::Close by whoever has the sender that bind returned.
Act ==
    /\ loop = "process" /\ R!Idle
    /\ actions = <<>>
    /\ actions' = <<Close>>
    /\ UNCHANGED <<backlog, events, woken, stream>>
    /\ R!Signal(Listener)

\* A send to the user puts it into the run queue.
Announce(event) == events' = Append(events, event) /\ woken' = TRUE

-----------------------------------------------------------------------------
(* Actor::handle: the connections, then the actions.                       *)

Take ==
    /\ UNCHANGED listener
    /\ R!Take(Listener)

Accepting == R!Handling(Listener, "drain") /\ taken[Listener] # {}

\* on_listener_ready: a connection is accepted and its stream is opened; the
\* events of the stream will be collected in a mailbox without a signal, which
\* the user gets along with the connection.
Accept ==
    /\ Accepting
    /\ backlog # <<>>
    /\ backlog' = Tail(backlog)
    /\ stream' = [stream EXCEPT ![Head(backlog)] = "open"]
    /\ Announce(Head(backlog))
    /\ UNCHANGED actions
    /\ IF Len(backlog) = 1 THEN R!Exhaust(Listener, "readable") ELSE UNCHANGED registry

\* Mutant of AcceptBlocked: one connection is accepted per event.
AcceptBlockedOnce ==
    /\ Accepting
    /\ events # <<>>
    /\ taken' = [taken EXCEPT ![Listener] = {}]
    /\ UNCHANGED <<interest, edges, entry, state, signalled, batch, loop, handler>>
    /\ UNCHANGED listener

\* accept would block.
AcceptBlocked ==
    /\ Accepting
    /\ UNCHANGED listener
    /\ R!Blocked(Listener, "readable")

Accepted == R!Handling(Listener, "drain") /\ taken[Listener] = {}

\* Mutant of OnActionClose: the handler returns Continue.
OnActionCloseContinue ==
    /\ Accepted
    /\ actions # <<>>
    /\ Announce(Closed)
    /\ actions' = Tail(actions)
    /\ UNCHANGED <<backlog, stream>>
    /\ UNCHANGED registry

\* Close: the user is told, the handler breaks, and Drop closes the socket.
OnActionClose ==
    /\ Accepted
    /\ actions # <<>>
    /\ Announce(Closed)
    /\ actions' = <<>>
    /\ CutOff
    /\ R!Deregister(Listener)

EndHandle ==
    /\ Accepted
    /\ actions = <<>>
    /\ UNCHANGED listener
    /\ R!EndHandler(Listener)

\* Any error of accept but WouldBlock (a connection that its peer has aborted,
\* or no file descriptor left), or of the registration of a stream, is
\* unwrapped.
IoError ==
    /\ IoErrors
    /\ Accepting
    /\ UNCHANGED listener
    /\ R!Panic(Listener)

ListenerStep == Take \/ Accept \/ AcceptBlocked \/ OnActionClose \/ EndHandle

\* The service keeps to the protocol of the registry: it accepts connections
\* until it would block, so that no event it relies on fails to come.
UsesRegistryProperly == R!Spec

=============================================================================
