----------------------------- MODULE HttpServer -----------------------------
(***************************************************************************)
(* The HTTP listener of `stewart-http` (listener.rs) with what it is       *)
(* connected to: the TCP listener, and for each connection a stream actor  *)
(* and an HTTP connection actor.  It is about the lives of those actors    *)
(* and about the mail and the wakeups between them.  Of streams and        *)
(* connections there is no more here than that takes; TcpStream and        *)
(* HttpConnection have the rest.                                           *)
(*                                                                         *)
(* Handlers take turns in Runtime::process, in any order.  All but that of *)
(* the TCP listener are one step, as they make no system call here.        *)
(***************************************************************************)
EXTENDS TcpListener

VARIABLES
    server,      \* the HTTP listener: "none", "open" or "stopped"
    tracked,     \* Service::connections
    told,        \* entries that have a ConnectionEvent::Closed waiting
    connection,  \* the HTTP connections: "none", "open" or "stopped"
    connection_actions,   \* those that have a ConnectionAction::Close waiting
    connection_signalled, \* those that are in the run queue
    stream_events,        \* their mailboxes for StreamEvents
    stream_actions,       \* the streams that have a StreamAction::Close waiting
    stream_signalled      \* those that are in the run queue

connections == <<connection, connection_actions, connection_signalled>>
streams == <<stream_events, stream_actions, stream_signalled>>
http == <<server, tracked, told, connections, streams>>
vars == <<registry, listener, http>>

Recv == "recv"

Open(c) == stream[c] \in {"open", "ended"}

TypeOK ==
    /\ ListenerTypeOK
    /\ server \in {"none", "open", "stopped"}
    /\ connection \in [Conns -> {"none", "open", "stopped"}]
    /\ stream_events \in [Conns -> Seq({Recv, Closed})]
    \* what waits for an actor waits for one that is there
    /\ told \subseteq tracked
    /\ connection_actions \cup connection_signalled
            \subseteq {c \in Conns : connection[c] = "open"}
    /\ stream_actions \cup stream_signalled \subseteq {c \in Conns : Open(c)}
    /\ woken \/ events # <<>> => server = "open"

Init ==
    /\ ListenerInit
    /\ server = "none" /\ tracked = {} /\ told = {}
    /\ connection = [c \in Conns |-> "none"]
    /\ connection_actions = {} /\ connection_signalled = {}
    /\ stream_events = [c \in Conns |-> <<>>]
    /\ stream_actions = {} /\ stream_signalled = {}

\* bind, which binds the TCP listener
BindServer ==
    /\ Bind
    /\ server' = "open"
    /\ UNCHANGED <<tracked, told, connections, streams>>

BindServerFails == BindFails /\ UNCHANGED http

Runs == loop = "process" /\ R!Idle

\* A result is unwrapped: the program ends.
Unwrap ==
    /\ loop' = "panicked"
    /\ UNCHANGED <<interest, edges, entry, state, signalled, batch, handler, taken>>

-----------------------------------------------------------------------------
(* Streams.                                                                *)

\* The event loop delivers an event for a stream.
StreamIsReady(c) ==
    /\ loop = "deliver"
    /\ Open(c)
    /\ stream_signalled' = stream_signalled \cup {c}
    /\ UNCHANGED <<registry, listener, server, tracked, told, connections,
                   stream_events, stream_actions>>

\* The stream stops.
StreamCloses(c) ==
    /\ Runs
    /\ c \in stream_signalled \cap stream_actions
    /\ stream' = [stream EXCEPT ![c] = "closed"]
    /\ stream_signalled' = stream_signalled \ {c}
    /\ stream_actions' = stream_actions \ {c}
    /\ UNCHANGED <<registry, backlog, actions, events, woken,
                   server, tracked, told, connections, stream_events>>

\* It sends what it has received, and its end; received data without a mailbox
\* to put it in is unwrapped.
StreamHandles(c, received, end) ==
    /\ Runs
    /\ c \in stream_signalled \ stream_actions
    /\ stream[c] = "ended" => end /\ received = <<>>
    /\ stream_signalled' = stream_signalled \ {c}
    /\ IF connection[c] = "stopped"
       THEN UNCHANGED stream_events /\ IF received # <<>> THEN Unwrap ELSE UNCHANGED registry
       ELSE /\ stream_events' =
                [stream_events EXCEPT ![c] = @ \o received \o IF end THEN <<Closed>> ELSE <<>>]
            /\ UNCHANGED registry
    /\ connection_signalled' =
            IF connection[c] = "open" /\ (end \/ received # <<>>)
            THEN connection_signalled \cup {c} ELSE connection_signalled
    /\ stream' = IF end THEN [stream EXCEPT ![c] = "ended"] ELSE stream
    /\ UNCHANGED <<backlog, actions, events, woken, server, tracked, told,
                   connection, connection_actions, stream_actions>>

-----------------------------------------------------------------------------
(* Connections, without their requests.                                    *)

SendClose(c) ==
    /\ stream_actions' = stream_actions \cup {c}
    /\ stream_signalled' = stream_signalled \cup {c}

ConnectionRuns(c) ==
    /\ Runs
    /\ c \in connection_signalled
    /\ connection_signalled' = connection_signalled \ {c}
    /\ stream_events' = [stream_events EXCEPT ![c] = <<>>]
    /\ UNCHANGED <<backlog, actions, events, stream, server, tracked>>

HasEnded(c) == Closed \in ToSet(stream_events[c])

\* Mutant of ConnectionEnds: the HTTP listener is not told.
ConnectionEndsSilently(c) ==
    /\ ConnectionRuns(c)
    /\ HasEnded(c)
    /\ connection' = [connection EXCEPT ![c] = "stopped"]
    /\ connection_actions' = connection_actions \ {c}
    /\ IF Open(c) THEN SendClose(c) ELSE UNCHANGED <<stream_actions, stream_signalled>>
    /\ UNCHANGED <<registry, told, woken>>

\* The stream has ended: the HTTP listener and the stream are told, if they
\* are there, and the connection stops.
ConnectionEnds(c) ==
    /\ ConnectionRuns(c)
    /\ HasEnded(c)
    /\ connection' = [connection EXCEPT ![c] = "stopped"]
    /\ connection_actions' = connection_actions \ {c}
    /\ IF Open(c) THEN SendClose(c) ELSE UNCHANGED <<stream_actions, stream_signalled>>
    /\ IF server = "open"
       THEN told' = told \cup {c} /\ woken' = TRUE
       ELSE UNCHANGED <<told, woken>>
    /\ UNCHANGED registry

\* Mutant of ConnectionHandles: the connection stops, and its stream does not.
ConnectionHandlesStop(c) ==
    /\ ConnectionRuns(c)
    /\ ~HasEnded(c)
    /\ connection_actions' = connection_actions \ {c}
    /\ connection' =
            IF c \in connection_actions THEN [connection EXCEPT ![c] = "stopped"] ELSE connection
    /\ UNCHANGED <<registry, stream_actions, stream_signalled, told, woken>>

\* ConnectionAction::Close is passed on to the stream, if there is one.
ConnectionHandles(c) ==
    /\ ConnectionRuns(c)
    /\ ~HasEnded(c)
    /\ connection_actions' = connection_actions \ {c}
    /\ CASE c \notin connection_actions -> UNCHANGED <<registry, stream_actions, stream_signalled>>
         [] c \in connection_actions /\ Open(c)  -> SendClose(c) /\ UNCHANGED registry
         [] c \in connection_actions /\ ~Open(c) ->
                Unwrap /\ UNCHANGED <<stream_actions, stream_signalled>>
    /\ UNCHANGED <<connection, told, woken>>

-----------------------------------------------------------------------------
(* The HTTP listener.                                                      *)

Announced == ToSet(events) \ {Closed}

OpenConnections(new) ==
    connection' = [c \in Conns |-> IF c \in new THEN "open" ELSE connection[c]]

\* Mutant of ServerHandles: one event is handled at a time.
ServerHandlesOne ==
    /\ Runs /\ woken
    /\ Closed \notin ToSet(events)
    /\ woken' = FALSE
    /\ events' = IF events = <<>> THEN <<>> ELSE Tail(events)
    /\ LET new == IF events = <<>> THEN {} ELSE {Head(events)} IN
        /\ OpenConnections(new)
        /\ tracked' = (tracked \cup new) \ told
    /\ told' = {}
    /\ UNCHANGED <<registry, backlog, actions, stream, server, connection_actions,
                   connection_signalled, streams>>

\* Mutant of ServerHandles: those that have ended are not forgotten.
ServerHandlesKeep ==
    /\ Runs /\ woken
    /\ Closed \notin ToSet(events)
    /\ woken' = FALSE
    /\ events' = <<>>
    /\ OpenConnections(Announced)
    /\ tracked' = tracked \cup Announced
    /\ told' = {}
    /\ UNCHANGED <<registry, backlog, actions, stream, server, connection_actions,
                   connection_signalled, streams>>

\* Actor::handle: HTTP connections are opened for what was accepted, and those
\* that have ended are forgotten.
ServerHandles ==
    /\ Runs /\ woken
    /\ Closed \notin ToSet(events)
    /\ woken' = FALSE
    /\ events' = <<>>
    /\ OpenConnections(Announced)
    /\ tracked' = (tracked \cup Announced) \ told
    /\ told' = {}
    /\ UNCHANGED <<registry, backlog, actions, stream, server, connection_actions,
                   connection_signalled, streams>>

\* The TCP listener is closed: so are the connections, and the HTTP listener
\* stops.
ServerStops ==
    /\ Runs /\ woken
    /\ Closed \in ToSet(events)
    /\ woken' = FALSE
    /\ events' = <<>>
    /\ OpenConnections(Announced)
    /\ server' = "stopped"
    /\ tracked' = {} /\ told' = {}
    /\ LET open == (tracked \cup Announced) \ told IN
        /\ connection_actions' = connection_actions \cup open
        /\ connection_signalled' = connection_signalled \cup open
    /\ UNCHANGED <<registry, backlog, actions, stream, streams>>

-----------------------------------------------------------------------------

\* Runtime::process returns Ok when no actor is in the run queue.
LoopStep ==
    /\ UNCHANGED <<listener, http>>
    /\ R!LoopStep
    /\ loop' = "poll" => ~woken /\ connection_signalled = {} /\ stream_signalled = {}

ActorStep ==
    \/ ListenerStep /\ UNCHANGED http
    \/ ServerHandles \/ ServerStops
    \/ \E c \in Conns :
          \/ StreamCloses(c)
          \/ \E received \in {<<>>, <<Recv>>}, end \in BOOLEAN : StreamHandles(c, received, end)
          \/ ConnectionEnds(c) \/ ConnectionHandles(c)

Next ==
    \/ BindServer \/ BindServerFails
    \/ \E c \in Conns : Connect(c) /\ UNCHANGED http
    \/ Act /\ UNCHANGED http
    \/ IoError /\ UNCHANGED http
    \/ \E c \in Conns : StreamIsReady(c)
    \/ ActorStep
    \/ LoopStep

Spec == Init /\ [][Next]_vars

\* The event loop and the handlers go on.
FairSpec == Spec /\ WF_vars(LoopStep) /\ WF_vars(ActorStep)

-----------------------------------------------------------------------------
(* Properties                                                              *)

\* The mailbox for the events of a stream is made without a signal, and the
\* stream could fill it before there is a connection actor to wake; nothing
\* would read that event, and the client would wait in vain.  No event is ever
\* without a reader that is about to run.
MailIsSignalled ==
    \A c \in Conns : stream_events[c] # <<>> => c \in connection_signalled

\* Between two polls the HTTP listener tracks exactly the connections that
\* are there, each of which has its stream; and when it has stopped it has
\* left no stream open, those included that were accepted at the last moment.
ConnectionsAreTracked ==
    loop = "poll" =>
        IF server = "stopped"
        THEN \A c \in Conns : ~Open(c)
        ELSE \A c \in Conns :
                /\ c \in tracked <=> connection[c] = "open"
                /\ c \in tracked <=> stream[c] = "open"

\* Three sends between these actors are unwrapped: of what the TCP listener has
\* to announce, of what a stream has received, and of a Close that a connection
\* passes on.  Whichever of the actors stops first, none of the three is ever
\* about to go to one that has stopped; what does go there may be ignored.
\* (The sends of requests and responses, which can fail, are not among them:
\* HttpConnection has those.)
ReceiversAreThere ==
    /\ R!InHandler(Listener) => server = "open"
    /\ \A c \in Conns :
          /\ c \in stream_signalled \ stream_actions => connection[c] # "stopped"
          /\ c \in connection_actions => Open(c)

\* As long as the event loop comes round, every connection that the kernel has
\* completed is accepted, or cut off with its listener; every accepted one gets
\* its HTTP connection; and of one that has ended nothing stays.
ConnectionsAreServed ==
    []<>(loop = "poll") =>
        \A c \in Conns :
            /\ stream[c] = "backlog" /\ server = "open" ~>
                    connection[c] = "open" \/ stream[c] = "closed"
            /\ stream[c] = "ended" ~> stream[c] = "closed" /\ c \notin tracked

=============================================================================
