-------------------------- MODULE HttpServerProofs --------------------------
(***************************************************************************)
(* Proofs about HttpServer, for any set of connections.  That the TCP      *)
(* listener keeps to the protocol of the registry, what it may rely on in  *)
(* return (MioRegistryProofs), and that no actor meets another one in a    *)
(* state that it does not expect, depend on each other, and are one        *)
(* inductive invariant.                                                    *)
(***************************************************************************)
EXTENDS HttpServer, SequenceLemmas, TLAPS

RP == INSTANCE MioRegistryProofs
      WITH Sources <- {Listener}, Capacity <- 1, ready <- Ready,
           ended <- [s \in {Listener} |-> {}]

\* The types of what is not the registry's.
Types ==
    /\ stream \in [Conns -> {"none", "backlog", "open", "ended", "closed"}]
    /\ backlog \in Seq(Conns)
    /\ actions \in Seq({Close})
    /\ events \in Seq(Conns \cup {Closed})
    /\ woken \in BOOLEAN
    /\ server \in {"none", "open", "stopped"}
    /\ connection \in [Conns -> {"none", "open", "stopped"}]
    /\ stream_events \in [Conns -> Seq({Recv, Closed})]
    /\ tracked \in SUBSET Conns /\ told \in SUBSET Conns
    /\ connection_actions \in SUBSET Conns /\ connection_signalled \in SUBSET Conns
    /\ stream_actions \in SUBSET Conns /\ stream_signalled \in SUBSET Conns

\* The backlog of the socket, and the events that it has become.
Accepts ==
    /\ IsInjective(backlog) /\ IsInjective(events)
    /\ \A c \in Conns : stream[c] = "backlog" <=> c \in ToSet(backlog)
    /\ Closed \in ToSet(events) => Last(events) = Closed /\ entry[Listener] = "closed"

\* The HTTP listener is there before there is anything to tell it, and until
\* the TCP listener has gone.
ServerIsThere ==
    /\ entry[Listener] = "open" => server = "open"
    /\ entry[Listener] \in {"none", "leaked"} => server = "none"
    /\ server = "stopped" => entry[Listener] = "closed"
    /\ woken => server = "open"
    /\ events # <<>> \/ told # {} => woken

\* Who is in the run queue when the event loop is not in process.
Settled ==
    /\ loop \in {"poll", "deliver"} => ~woken /\ connection_signalled = {}
    /\ loop = "poll" => stream_signalled = {}

\* A connection that was accepted and has no actor yet, or was not accepted.
NewConnection(c) ==
    connection[c] = "none" =>
        /\ stream[c] # "ended"
        /\ stream[c] = "open" <=> c \in ToSet(events)
        /\ stream_events[c] = <<>>
        /\ c \notin tracked \cup told \cup connection_actions \cup connection_signalled
        /\ c \notin stream_actions \cup stream_signalled

OpenConnection(c) ==
    connection[c] = "open" =>
        /\ c \notin ToSet(events) \cup told
        /\ stream[c] # "ended" \/ HasEnded(c)
        /\ stream[c] \notin {"none", "backlog"}
        /\ server = "open" =>
            c \in tracked /\ Open(c) /\ c \notin connection_actions \cup stream_actions
        /\ c \in connection_actions =>
            c \in connection_signalled /\ Open(c) /\ c \notin stream_actions
        /\ server # "open" =>
            c \in connection_actions \/ c \in stream_actions \/ stream[c] = "closed"

StoppedConnection(c) ==
    connection[c] = "stopped" =>
        /\ c \notin ToSet(events) \cup connection_actions \cup connection_signalled
        /\ stream[c] \notin {"none", "backlog"}
        /\ stream_events[c] = <<>>
        /\ Open(c) => c \in stream_actions
        /\ c \in tracked => c \in told

ConnectionInv(c) ==
    /\ NewConnection(c) /\ OpenConnection(c) /\ StoppedConnection(c)
    /\ stream_events[c] # <<>> => c \in connection_signalled
    /\ c \in stream_signalled => Open(c)
    /\ c \in stream_actions => c \in stream_signalled
    /\ c \in told => c \in tracked
    /\ c \in tracked => server = "open"
    /\ server = "none" => connection[c] = "none"

ServerInv ==
    /\ Types /\ Accepts /\ ServerIsThere /\ Settled
    /\ \A c \in Conns : ConnectionInv(c)

-----------------------------------------------------------------------------
(* The registry.                                                           *)

\* A step of the registry is one of its specification, and keeps what is proved
\* of it.
LEMMA RegistryStep ==
    ASSUME RP!RegistryInv, [R!Next]_R!vars
    PROVE  RP!RegistryInv'
<1>1. [RP!Next]_RP!vars
    BY DEF R!Next, R!vars, R!HandlerStep, R!LoopStep, R!Dirs, R!kernel, R!Nothing, R!Handling, R!InHandler, R!Idle,
           R!BecomeReady, R!SetInterest, R!Register, R!RegisterFails, R!Reregister,
           R!Deregister, R!Take, R!Poll, R!PollFails, R!Deliver, R!StartProcess,
           R!EndProcess, R!ProcessFails, R!Signal, R!StartHandler, R!Exhaust, R!Blocked, R!EndOfStream,
           R!NothingToWrite, R!EndHandler, R!Panic, R!Cardinality,
           RP!Next, RP!vars, RP!HandlerStep, RP!LoopStep, RP!Dirs, RP!kernel, RP!Nothing, RP!Handling, RP!InHandler, RP!Idle,
           RP!BecomeReady, RP!SetInterest, RP!Register, RP!RegisterFails, RP!Reregister,
           RP!Deregister, RP!Take, RP!Poll, RP!PollFails, RP!Deliver, RP!StartProcess,
           RP!EndProcess, RP!ProcessFails, RP!Signal, RP!StartHandler, RP!Exhaust, RP!Blocked, RP!EndOfStream,
           RP!NothingToWrite, RP!EndHandler, RP!Panic, RP!Cardinality
<1> QED
    BY <1>1, RP!NextInv

\* The listener's actor runs only while its entry is open.
LEMMA RegistryFacts ==
    ASSUME RP!RegistryInv
    PROVE  /\ entry \in [{Listener} -> {"none", "open", "leaked", "closed"}]
           /\ handler[Listener] # "idle" => entry[Listener] = "open"
BY DEF RP!RegistryInv, RP!TypeOK

\* An action that leaves the registry and the backlog alone is none of the
\* registry's.
LEMMA RegistryUntouched ==
    ASSUME UNCHANGED registry, UNCHANGED backlog
    PROVE  [R!Next]_R!vars
BY DEF registry, R!vars, Ready

\* The kernel and the TCP listener: the listener's events are those of its
\* backlog, which becomes ready with its first connection, and blocked after
\* its last one.
LEMMA ListenerUsesRegistry ==
    ASSUME Types,
           \/ Bind \/ BindFails \/ Act \/ IoError \/ ListenerStep
           \/ \E c \in Conns : Connect(c)
    PROVE  [R!Next]_R!vars
<1>1. CASE Bind
    BY <1>1 DEF Bind, R!Next
<1>2. CASE BindFails
    BY <1>2 DEF BindFails, R!Next
<1>3. CASE Act
    BY <1>3 DEF Act, R!Next
<1>4. CASE IoError
    BY <1>4 DEF IoError, R!Next, R!HandlerStep
<1>5. CASE Take
    BY <1>5 DEF Take, R!Next, R!HandlerStep
<1>6. CASE Accept
    <2>1. CASE Len(backlog) = 1
        BY <1>6, <2>1 DEF Accept, R!Next, R!HandlerStep, R!Dirs
    <2>2. CASE Len(backlog) # 1
        <3>1. backlog \in Seq(Conns) /\ backlog # <<>> /\ backlog' = Tail(backlog)
            BY <1>6 DEF Accept, Types
        <3>2. backlog' # <<>>
            BY <3>1, <2>2, TailElements
        <3>3. UNCHANGED registry
            BY <1>6, <2>2 DEF Accept
        <3> QED
            BY <3>1, <3>2, <3>3 DEF registry, R!vars, Ready
    <2> QED
        BY <2>1, <2>2
<1>7. CASE AcceptBlocked
    BY <1>7 DEF AcceptBlocked, R!Next, R!HandlerStep, R!Dirs
<1>8. CASE OnActionClose
    BY <1>8 DEF OnActionClose, R!Next, R!HandlerStep
<1>9. CASE EndHandle
    BY <1>9 DEF EndHandle, R!Next, R!HandlerStep
<1>10. ASSUME NEW c \in Conns, Connect(c)
       PROVE  [R!Next]_R!vars
    <2>1. CASE backlog = <<>>
        BY <1>10, <2>1 DEF Connect, R!Next, R!Dirs
    <2>2. CASE backlog # <<>>
        <3>1. backlog \in Seq(Conns) /\ backlog' = Append(backlog, c)
            BY <1>10 DEF Connect, Types
        <3>2. backlog' # <<>>
            BY <3>1, AppendElements
        <3>3. UNCHANGED registry
            BY <1>10, <2>2 DEF Connect
        <3> QED
            BY <2>2, <3>2, <3>3 DEF registry, R!vars, Ready
    <2> QED
        BY <2>1, <2>2
<1> QED
    BY <1>1, <1>2, <1>3, <1>4, <1>5, <1>6, <1>7, <1>8, <1>9, <1>10 DEF ListenerStep

\* A stream always has somebody to send to, unless it is about to stop.
LEMMA StreamIsHeard ==
    ASSUME ServerInv, NEW c \in Conns, NEW received, NEW end,
           StreamHandles(c, received, end)
    PROVE  connection[c] = "open" /\ UNCHANGED registry
BY DEF StreamHandles, ServerInv, ConnectionInv, NewConnection, StoppedConnection, Types

\* A connection that is told to close has its stream.
LEMMA CloseIsHeard ==
    ASSUME ServerInv, NEW c \in Conns, ConnectionHandles(c)
    PROVE  /\ c \in connection_actions => Open(c)
           /\ UNCHANGED registry
BY DEF ConnectionHandles, ServerInv, ConnectionInv, NewConnection, OpenConnection,
       StoppedConnection, Types

\* Every step of the server is one that the registry allows.
LEMMA ServerUsesRegistry ==
    ASSUME ServerInv, [Next]_vars
    PROVE  [R!Next]_R!vars
<1>1. Types
    BY DEF ServerInv
<1>2. CASE BindServer \/ BindServerFails
    BY <1>1, <1>2, ListenerUsesRegistry DEF BindServer, BindServerFails
<1>3. CASE \/ \E c \in Conns : Connect(c)
           \/ Act \/ IoError \/ ListenerStep
    BY <1>1, <1>3, ListenerUsesRegistry
<1>4. ASSUME NEW c \in Conns, StreamIsReady(c) \/ StreamCloses(c) \/ ConnectionEnds(c)
      PROVE  [R!Next]_R!vars
    BY <1>4, RegistryUntouched
       DEF StreamIsReady, StreamCloses, ConnectionEnds, ConnectionRuns, listener
<1>5. ASSUME NEW c \in Conns, NEW received, NEW end, StreamHandles(c, received, end)
      PROVE  [R!Next]_R!vars
    BY <1>5, StreamIsHeard, RegistryUntouched DEF StreamHandles
<1>6. ASSUME NEW c \in Conns, ConnectionHandles(c)
      PROVE  [R!Next]_R!vars
    BY <1>6, CloseIsHeard, RegistryUntouched DEF ConnectionHandles, ConnectionRuns
<1>7. CASE ServerHandles \/ ServerStops
    BY <1>7, RegistryUntouched DEF ServerHandles, ServerStops
<1>8. CASE LoopStep
    BY <1>8 DEF LoopStep, R!Next
<1>9. CASE UNCHANGED vars
    BY <1>9, RegistryUntouched DEF vars, listener
<1> QED
    BY <1>2, <1>3, <1>4, <1>5, <1>6, <1>7, <1>8, <1>9 DEF Next, ActorStep

-----------------------------------------------------------------------------
(* The invariant is kept.                                                  *)

\* The steps in which only the registry takes part, and ListenerAction::Close.
LEMMA NothingForTheServer ==
    ASSUME ServerInv, actions' \in Seq({Close}),
           UNCHANGED <<backlog, events, woken, stream, http>>,
           UNCHANGED entry, Settled'
    PROVE  ServerInv'
<1>1. Types'
    BY DEF ServerInv, Types, http, connections, streams
<1>2. Accepts' /\ ServerIsThere'
    BY DEF ServerInv, Accepts, ServerIsThere, http
<1>3. \A c \in Conns : ConnectionInv(c)'
    BY DEF ServerInv, ConnectionInv, NewConnection, OpenConnection, StoppedConnection,
           Open, HasEnded, http, connections, streams
<1> QED
    BY <1>1, <1>2, <1>3 DEF ServerInv

\* The event loop polls when no actor is in the run queue.
LEMMA LoopStepKeepsInv ==
    ASSUME ServerInv, RP!RegistryInv, LoopStep
    PROVE  ServerInv'
<1>1. UNCHANGED <<listener, http>> /\ UNCHANGED entry
    BY DEF LoopStep, R!LoopStep, R!Poll, R!PollFails, R!StartProcess, R!EndProcess, R!ProcessFails,
           R!StartHandler, R!Deliver
<1>2. /\ loop' = "deliver" => loop \in {"poll", "deliver"}
      /\ loop' = "poll" => loop = "process" /\ signalled = {}
    BY DEF LoopStep, R!LoopStep, R!Poll, R!PollFails, R!StartProcess, R!EndProcess, R!ProcessFails,
           R!StartHandler, R!Deliver
<1>3. Settled'
    BY <1>1, <1>2 DEF ServerInv, Settled, LoopStep, listener, http, connections, streams
<1> QED
    BY <1>1, <1>3, NothingForTheServer DEF ServerInv, Types, listener

\* The TCP listener between two calls of accept, and what others send to it.
LEMMA ListenerKeepsInv ==
    ASSUME ServerInv, UNCHANGED http,
           Act \/ IoError \/ Take \/ AcceptBlocked \/ EndHandle
    PROVE  ServerInv'
<1>1. /\ UNCHANGED <<backlog, events, woken, stream>> /\ UNCHANGED entry
      /\ loop' \in {"process", "panicked"}
    BY DEF Act, IoError, Take, AcceptBlocked, EndHandle, listener, Accepting, Accepted,
           R!Signal, R!Panic, R!Take, R!Blocked, R!EndHandler, R!Handling
<1>2. actions' \in Seq({Close})
    <2>1. actions' = actions \/ actions' = <<Close>>
        BY DEF Act, IoError, Take, AcceptBlocked, EndHandle, listener
    <2>2. actions \in Seq({Close}) /\ <<Close>> \in Seq({Close})
        BY DEF ServerInv, Types
    <2> QED
        BY <2>1, <2>2
<1>3. Settled'
    BY <1>1 DEF Settled
<1> QED
    BY <1>1, <1>2, <1>3, NothingForTheServer

\* A server is bound.
LEMMA BindKeepsInv ==
    ASSUME ServerInv, RP!RegistryInv, BindServer
    PROVE  ServerInv'
<1>1. /\ UNCHANGED listener /\ UNCHANGED <<tracked, told, connections, streams>>
      /\ entry[Listener] = "none" /\ loop = "process" /\ loop' = "process"
      /\ entry'[Listener] = "open" /\ server' = "open"
    BY RegistryFacts DEF BindServer, Bind, R!Register
<1>2. server = "none"
    BY <1>1 DEF ServerInv, ServerIsThere
<1>3. Types'
    BY <1>1, <1>2 DEF ServerInv, Types, listener, connections, streams
<1>4. Accepts' /\ ServerIsThere' /\ Settled'
    BY <1>1, <1>2 DEF ServerInv, Accepts, ServerIsThere, Settled, listener
<1>5. \A c \in Conns : ConnectionInv(c)'
    BY <1>1, <1>2 DEF ServerInv, ConnectionInv, NewConnection, OpenConnection,
       StoppedConnection, Open, HasEnded, listener, connections, streams
<1> QED
    BY <1>3, <1>4, <1>5 DEF ServerInv

\* The socket is not registered: connections that have come already are cut off.
LEMMA BindFailsKeepsInv ==
    ASSUME ServerInv, RP!RegistryInv, BindServerFails
    PROVE  ServerInv'
<1>1. /\ UNCHANGED http /\ UNCHANGED <<actions, events, woken>>
      /\ entry[Listener] = "none" /\ loop = "process" /\ loop' = "process"
      /\ entry'[Listener] = "leaked" /\ backlog' = <<>>
      /\ stream' = [c \in Conns |-> IF stream[c] = "backlog" THEN "closed" ELSE stream[c]]
    BY RegistryFacts DEF BindServerFails, BindFails, CutOff, R!RegisterFails
<1>2. server = "none" /\ Closed \notin ToSet(events)
    BY <1>1 DEF ServerInv, ServerIsThere, Accepts
<1>3. Types'
    <2>1. backlog' \in Seq(Conns)
        BY <1>1
    <2>2. stream' \in [Conns -> {"none", "backlog", "open", "ended", "closed"}]
        BY <1>1 DEF ServerInv, Types
    <2> QED
        BY <1>1, <2>1, <2>2 DEF ServerInv, Types, http, connections, streams
<1>4. Accepts'
    BY <1>1, <1>2, EmptyElements DEF ServerInv, Accepts, Types
<1>5. ServerIsThere' /\ Settled'
    BY <1>1, <1>2 DEF ServerInv, ServerIsThere, Settled, http, connections, streams
<1>6. \A d \in Conns : ConnectionInv(d)'
    BY <1>1, <1>2 DEF ServerInv, Types, ConnectionInv, NewConnection, OpenConnection,
       StoppedConnection, Open, HasEnded, http, connections, streams
<1> QED
    BY <1>3, <1>4, <1>5, <1>6 DEF ServerInv

\* The kernel completes a connection, which nobody knows of yet.
LEMMA ConnectKeepsInv ==
    ASSUME ServerInv, UNCHANGED http, NEW c \in Conns, Connect(c)
    PROVE  ServerInv'
<1>1. /\ stream[c] = "none" /\ stream' = [stream EXCEPT ![c] = "backlog"]
      /\ backlog \in Seq(Conns) /\ backlog' = Append(backlog, c)
      /\ UNCHANGED <<actions, events, woken, entry, loop>>
    BY DEF Connect, ServerInv, Types, R!BecomeReady, registry
<1>2. /\ backlog' \in Seq(Conns) /\ ToSet(backlog') = ToSet(backlog) \cup {c}
      /\ IsInjective(backlog')
    <2>1. c \notin ToSet(backlog) /\ IsInjective(backlog)
        BY <1>1 DEF ServerInv, Accepts
    <2> QED
        BY <1>1, <2>1, AppendElements
<1>3. Types'
    BY <1>1, <1>2 DEF ServerInv, Types, http, connections, streams
<1>4. Accepts'
    BY <1>1, <1>2 DEF ServerInv, Accepts, Types
<1>5. ServerIsThere' /\ Settled'
    BY <1>1 DEF ServerInv, ServerIsThere, Settled, http, connections, streams
<1>6. connection[c] = "none"
    BY <1>1 DEF ServerInv, Types, ConnectionInv, OpenConnection, StoppedConnection
<1>7. \A d \in Conns : ConnectionInv(d)'
    BY <1>1, <1>6 DEF ServerInv, Types, ConnectionInv, NewConnection, OpenConnection,
       StoppedConnection, Open, HasEnded, http, connections, streams
<1> QED
    BY <1>3, <1>4, <1>5, <1>7 DEF ServerInv

\* A connection is accepted, and the HTTP listener is there to hear of it.
LEMMA AcceptKeepsInv ==
    ASSUME ServerInv, RP!RegistryInv, UNCHANGED http, Accept
    PROVE  ServerInv'
<1> DEFINE c == Head(backlog)
<1>1. /\ backlog \in Seq(Conns) /\ backlog # <<>> /\ backlog' = Tail(backlog)
      /\ events \in Seq(Conns \cup {Closed}) /\ events' = Append(events, c)
      /\ stream' = [stream EXCEPT ![c] = "open"] /\ woken' = TRUE
      /\ UNCHANGED <<actions, entry, loop>>
      /\ entry[Listener] = "open" /\ loop = "process"
    BY RegistryFacts DEF Accept, Accepting, Announce, ServerInv, Types, R!Handling,
       R!Exhaust, registry
<1>2. c \in Conns /\ c \in ToSet(backlog)
    BY <1>1, TailElements
<1>3. stream[c] = "backlog" /\ connection[c] = "none" /\ c \notin ToSet(events)
    BY <1>2 DEF ServerInv, Types, Accepts, ConnectionInv, NewConnection, OpenConnection,
       StoppedConnection
<1>4. Closed \notin ToSet(events) /\ server = "open"
    BY <1>1 DEF ServerInv, Accepts, ServerIsThere
<1>5. /\ backlog' \in Seq(Conns) /\ IsInjective(backlog')
      /\ ToSet(backlog') = ToSet(backlog) \ {c}
    BY <1>1, TailElements DEF ServerInv, Accepts
<1>6. /\ events' \in Seq(Conns \cup {Closed}) /\ IsInjective(events')
      /\ ToSet(events') = ToSet(events) \cup {c}
    <2>1. IsInjective(events) /\ c \in Conns \cup {Closed}
        BY <1>2 DEF ServerInv, Accepts
    <2> QED
        BY <1>1, <1>3, <2>1, AppendElements
<1> HIDE DEF c
<1>7. Types'
    BY <1>1, <1>2, <1>5, <1>6 DEF ServerInv, Types, http, connections, streams
<1>8. Accepts'
    BY <1>1, <1>2, <1>4, <1>5, <1>6, ConnsAssumption DEF ServerInv, Accepts, Types
<1>9. ServerIsThere' /\ Settled'
    BY <1>1, <1>4 DEF ServerInv, ServerIsThere, Settled, http
<1>10. \A d \in Conns : ConnectionInv(d)'
    BY <1>1, <1>2, <1>3, <1>6, ZenonT(60) DEF ServerInv, Types, ConnectionInv, NewConnection,
       OpenConnection, StoppedConnection, Open, HasEnded, http, connections, streams
<1> QED
    BY <1>7, <1>8, <1>9, <1>10 DEF ServerInv

\* The TCP listener closes: it has not been told so before.
LEMMA OnActionCloseKeepsInv ==
    ASSUME ServerInv, RP!RegistryInv, UNCHANGED http, OnActionClose
    PROVE  ServerInv'
<1>1. /\ events \in Seq(Conns \cup {Closed}) /\ events' = Append(events, Closed)
      /\ woken' = TRUE /\ actions' = <<>> /\ backlog' = <<>>
      /\ stream' = [c \in Conns |-> IF stream[c] = "backlog" THEN "closed" ELSE stream[c]]
      /\ entry[Listener] = "open" /\ entry'[Listener] = "closed"
      /\ loop = "process" /\ loop' = "process"
    BY RegistryFacts DEF OnActionClose, CutOff, Accepted, Announce, ServerInv, Types,
       R!Handling, R!Deregister
<1>2. Closed \notin ToSet(events) /\ IsInjective(events) /\ server = "open"
    BY <1>1 DEF ServerInv, Accepts, ServerIsThere
<1>3. /\ events' \in Seq(Conns \cup {Closed}) /\ IsInjective(events')
      /\ Last(events') = Closed
      /\ ToSet(events') = ToSet(events) \cup {Closed}
    BY <1>1, <1>2, AppendElements
<1>4. Types'
    <2>1. backlog' \in Seq(Conns) /\ actions' \in Seq({Close})
        BY <1>1
    <2>2. stream' \in [Conns -> {"none", "backlog", "open", "ended", "closed"}]
        BY <1>1 DEF ServerInv, Types
    <2> QED
        BY <1>1, <1>3, <2>1, <2>2 DEF ServerInv, Types, http, connections, streams
<1>5. Accepts'
    BY <1>1, <1>3, EmptyElements DEF Accepts
<1>6. ServerIsThere' /\ Settled'
    BY <1>1, <1>2 DEF ServerInv, ServerIsThere, Settled, http
<1>7. \A d \in Conns : ConnectionInv(d)'
    BY <1>1, <1>2, <1>3, ConnsAssumption DEF ServerInv, Types, ConnectionInv,
       NewConnection, OpenConnection, StoppedConnection, Open, HasEnded, http,
       connections, streams
<1> QED
    BY <1>4, <1>5, <1>6, <1>7 DEF ServerInv

\* The event loop wakes a stream.
LEMMA StreamIsReadyKeepsInv ==
    ASSUME ServerInv, NEW c \in Conns, StreamIsReady(c)
    PROVE  ServerInv'
<1>1. /\ UNCHANGED listener /\ UNCHANGED connections
      /\ UNCHANGED <<entry, loop, server, tracked, told, stream_events, stream_actions>>
      /\ loop = "deliver" /\ Open(c) /\ stream_signalled' = stream_signalled \cup {c}
    BY DEF StreamIsReady, registry
<1>2. Types'
    BY <1>1 DEF ServerInv, Types, listener, connections
<1>3. Accepts' /\ ServerIsThere' /\ Settled'
    BY <1>1 DEF ServerInv, Accepts, ServerIsThere, Settled, listener, connections
<1>4. connection[c] # "none"
    <2>1. events = <<>>
        BY <1>1 DEF ServerInv, Settled, ServerIsThere
    <2>2. c \notin ToSet(events)
        BY <2>1, EmptyElements
    <2> QED
        BY <1>1, <2>2 DEF ServerInv, ConnectionInv, NewConnection, Open
<1>5. \A d \in Conns : ConnectionInv(d)'
    BY <1>1, <1>4 DEF ServerInv, Types, ConnectionInv, NewConnection, OpenConnection,
       StoppedConnection, Open, HasEnded, listener, connections
<1> QED
    BY <1>2, <1>3, <1>5 DEF ServerInv

\* A stream stops, as its connection has asked it to.
LEMMA StreamClosesKeepsInv ==
    ASSUME ServerInv, NEW c \in Conns, StreamCloses(c)
    PROVE  ServerInv'
<1>1. /\ UNCHANGED <<backlog, actions, events, woken, entry, loop>>
      /\ UNCHANGED connections /\ UNCHANGED <<server, tracked, told, stream_events>>
      /\ stream' = [stream EXCEPT ![c] = "closed"]
      /\ c \in stream_signalled \cap stream_actions
      /\ stream_signalled' = stream_signalled \ {c}
      /\ stream_actions' = stream_actions \ {c}
      /\ loop = "process"
    BY DEF StreamCloses, Runs, registry
<1>2. Types'
    BY <1>1 DEF ServerInv, Types, connections
<1>3. Accepts'
    BY <1>1 DEF ServerInv, Accepts, Types, ConnectionInv, Open
<1>4. ServerIsThere' /\ Settled'
    BY <1>1 DEF ServerInv, ServerIsThere, Settled, connections
<1>5. \A d \in Conns : ConnectionInv(d)'
    BY <1>1 DEF ServerInv, Types, ConnectionInv, NewConnection, OpenConnection,
       StoppedConnection, Open, HasEnded, connections
<1> QED
    BY <1>2, <1>3, <1>4, <1>5 DEF ServerInv

\* What a stream sends: something only if it wakes the connection, with its end
\* if it has one.
LEMMA StreamSends ==
    ASSUME NEW s \in Seq({Recv, Closed}), NEW received \in {<<>>, <<Recv>>},
           NEW end \in BOOLEAN, NEW sent,
           sent = s \o received \o IF end THEN <<Closed>> ELSE <<>>
    PROVE  /\ sent \in Seq({Recv, Closed})
           /\ ~end /\ received = <<>> => sent = s
           /\ end => Closed \in ToSet(sent)
<1>1. received \in Seq({Recv, Closed})
    <2>1. <<>> \in Seq({Recv, Closed}) /\ <<Recv>> \in Seq({Recv, Closed})
        OBVIOUS
    <2> QED
        BY <2>1
<1>2. s \o received \in Seq({Recv, Closed})
    BY <1>1
<1>3. CASE end
    <2>1. sent = (s \o received) \o <<Closed>>
        BY <1>3
    <2>2. Append(s \o received, Closed) = (s \o received) \o <<Closed>>
        BY <1>2, AppendIsConcat
    <2>3. /\ Append(s \o received, Closed) \in Seq({Recv, Closed})
          /\ ToSet(Append(s \o received, Closed)) = ToSet(s \o received) \cup {Closed}
        <3>1. Closed \in {Recv, Closed}
            OBVIOUS
        <3> QED
            BY <3>1, <1>2, AppendElements
    <2>4. sent \in Seq({Recv, Closed}) /\ Closed \in ToSet(sent)
        BY <2>1, <2>2, <2>3, Zenon
    <2> QED
        BY <2>4, <1>3
<1>4. CASE ~end
    BY <1>4, <1>2
<1> QED
    BY <1>3, <1>4

\* A stream sends to its connection.
LEMMA StreamHandlesKeepsInv ==
    ASSUME ServerInv, NEW c \in Conns, NEW received \in {<<>>, <<Recv>>},
           NEW end \in BOOLEAN, StreamHandles(c, received, end)
    PROVE  ServerInv'
<1> DEFINE sent == stream_events[c] \o received \o IF end THEN <<Closed>> ELSE <<>>
<1>1. connection[c] = "open" /\ UNCHANGED registry
    BY StreamIsHeard
<1>2. /\ UNCHANGED <<backlog, actions, events, woken, entry, loop>>
      /\ UNCHANGED <<server, tracked, told, connection, connection_actions, stream_actions>>
      /\ c \in stream_signalled \ stream_actions
      /\ stream[c] = "ended" => end
      /\ stream_signalled' = stream_signalled \ {c}
      /\ stream_events' = [stream_events EXCEPT ![c] = sent]
      /\ connection_signalled' = IF end \/ received # <<>>
                                 THEN connection_signalled \cup {c} ELSE connection_signalled
      /\ stream' = IF end THEN [stream EXCEPT ![c] = "ended"] ELSE stream
      /\ loop = "process"
    BY <1>1 DEF StreamHandles, Runs, registry
<1>3. /\ sent \in Seq({Recv, Closed})
      /\ ~end /\ received = <<>> => sent = stream_events[c]
      /\ end => Closed \in ToSet(sent)
    <2>1. stream_events[c] \in Seq({Recv, Closed})
        BY DEF ServerInv, Types
    <2> QED
        BY <2>1, StreamSends
<1> HIDE DEF sent
<1>4. Types'
    BY <1>2, <1>3 DEF ServerInv, Types
<1>5. Open(c)
    BY <1>2 DEF ServerInv, ConnectionInv
<1>6. Accepts'
    BY <1>2, <1>5 DEF ServerInv, Accepts, Types, Open
<1>7. ServerIsThere' /\ Settled'
    BY <1>2 DEF ServerInv, ServerIsThere, Settled
<1>8. ConnectionInv(c)'
    BY <1>1, <1>2, <1>3, <1>5 DEF ServerInv, Types, ConnectionInv, NewConnection,
       OpenConnection, StoppedConnection, Open, HasEnded
<1>9. ASSUME NEW d \in Conns, d # c PROVE ConnectionInv(d)'
    BY <1>2, <1>9 DEF ServerInv, Types, ConnectionInv, NewConnection,
       OpenConnection, StoppedConnection, Open, HasEnded
<1> QED
    BY <1>4, <1>6, <1>7, <1>8, <1>9 DEF ServerInv

-----------------------------------------------------------------------------
(* The connections and the HTTP listener.                                  *)

\* A connection ends: its stream, if there is one, and the HTTP listener, if it
\* is there, are told.
LEMMA ConnectionEndsKeepsInv ==
    ASSUME ServerInv, NEW c \in Conns, ConnectionEnds(c)
    PROVE  ServerInv'
<1>1. /\ UNCHANGED <<backlog, actions, events, stream, entry, loop, server, tracked>>
      /\ c \in connection_signalled /\ HasEnded(c) /\ loop = "process"
      /\ connection_signalled' = connection_signalled \ {c}
      /\ stream_events' = [stream_events EXCEPT ![c] = <<>>]
      /\ connection' = [connection EXCEPT ![c] = "stopped"]
      /\ connection_actions' = connection_actions \ {c}
      /\ IF Open(c)
         THEN /\ stream_actions' = stream_actions \cup {c}
              /\ stream_signalled' = stream_signalled \cup {c}
         ELSE UNCHANGED <<stream_actions, stream_signalled>>
      /\ IF server = "open" THEN told' = told \cup {c} /\ woken' = TRUE
                            ELSE UNCHANGED <<told, woken>>
    BY DEF ConnectionEnds, ConnectionRuns, Runs, SendClose, registry
<1>2. connection[c] = "open"
    BY <1>1 DEF ServerInv, Types, ConnectionInv, NewConnection, StoppedConnection
<1>3. <<>> \in Seq({Recv, Closed})
    OBVIOUS
<1>4. Types'
    BY <1>1, <1>3 DEF ServerInv, Types
<1>5. Accepts' /\ ServerIsThere' /\ Settled'
    BY <1>1 DEF ServerInv, Accepts, ServerIsThere, Settled
<1>6. ConnectionInv(c)'
    BY <1>1, <1>2 DEF ServerInv, Types, ConnectionInv, NewConnection, OpenConnection,
       StoppedConnection, Open, HasEnded
<1>7. ASSUME NEW d \in Conns, d # c PROVE ConnectionInv(d)'
    BY <1>1, <1>7 DEF ServerInv, Types, ConnectionInv, NewConnection, OpenConnection,
       StoppedConnection, Open, HasEnded
<1> QED
    BY <1>4, <1>5, <1>6, <1>7 DEF ServerInv

\* A connection works, or passes a Close on to its stream.
LEMMA ConnectionHandlesKeepsInv ==
    ASSUME ServerInv, NEW c \in Conns, ConnectionHandles(c)
    PROVE  ServerInv'
<1>1. UNCHANGED registry /\ (c \in connection_actions => Open(c))
    BY CloseIsHeard
<1>2. /\ UNCHANGED <<backlog, actions, events, woken, stream, entry, loop>>
      /\ UNCHANGED <<server, tracked, told, connection>>
      /\ c \in connection_signalled /\ ~HasEnded(c) /\ loop = "process"
      /\ connection_signalled' = connection_signalled \ {c}
      /\ stream_events' = [stream_events EXCEPT ![c] = <<>>]
      /\ connection_actions' = connection_actions \ {c}
      /\ IF c \in connection_actions
         THEN /\ stream_actions' = stream_actions \cup {c}
              /\ stream_signalled' = stream_signalled \cup {c}
         ELSE UNCHANGED <<stream_actions, stream_signalled>>
    BY <1>1 DEF ConnectionHandles, ConnectionRuns, Runs, SendClose, registry
<1>3. connection[c] = "open"
    BY <1>2 DEF ServerInv, Types, ConnectionInv, NewConnection, StoppedConnection
<1>4. <<>> \in Seq({Recv, Closed})
    OBVIOUS
<1>5. Types'
    BY <1>2, <1>4 DEF ServerInv, Types
<1>6. Accepts' /\ ServerIsThere' /\ Settled'
    BY <1>2 DEF ServerInv, Accepts, ServerIsThere, Settled
<1>7. ConnectionInv(c)'
    BY <1>1, <1>2, <1>3 DEF ServerInv, Types, ConnectionInv, NewConnection,
       OpenConnection, StoppedConnection, Open, HasEnded
<1>8. ASSUME NEW d \in Conns, d # c PROVE ConnectionInv(d)'
    BY <1>2, <1>8 DEF ServerInv, Types, ConnectionInv, NewConnection, OpenConnection,
       StoppedConnection, Open, HasEnded
<1> QED
    BY <1>5, <1>6, <1>7, <1>8 DEF ServerInv

\* Only connections are announced.
LEMMA ConnectionsAreAnnounced ==
    ASSUME ServerInv
    PROVE  Announced \subseteq Conns
<1>1. events \in Seq(Conns \cup {Closed})
    BY DEF ServerInv, Types
<1>2. \A i \in DOMAIN events : events[i] \in Conns \cup {Closed}
    BY <1>1
<1> QED
    BY <1>2 DEF Announced, ToSet

\* What is announced has no actor yet, and has its stream.
LEMMA AnnouncedAreNew ==
    ASSUME ServerInv, NEW c \in Conns
    PROVE  /\ c \in Announced <=> c \in ToSet(events)
           /\ c \in Announced => connection[c] = "none" /\ stream[c] = "open"
<1>1. c # Closed
    BY ConnsAssumption
<1> QED
    BY <1>1 DEF Announced, ServerInv, Types, ConnectionInv, NewConnection,
       OpenConnection, StoppedConnection

\* The HTTP listener opens connections for all that is announced.
LEMMA ServerHandlesKeepsInv ==
    ASSUME ServerInv, ServerHandles
    PROVE  ServerInv'
<1>1. /\ UNCHANGED <<backlog, actions, stream, entry, loop, server>>
      /\ UNCHANGED <<connection_actions, connection_signalled>> /\ UNCHANGED streams
      /\ woken /\ woken' = FALSE /\ events' = <<>> /\ told' = {}
      /\ connection' = [c \in Conns |-> IF c \in Announced THEN "open" ELSE connection[c]]
      /\ tracked' = (tracked \cup Announced) \ told
      /\ loop = "process"
    BY DEF ServerHandles, OpenConnections, Runs, registry
<1>2. server = "open"
    BY <1>1 DEF ServerInv, ServerIsThere
<1>3. Types'
    <2>1. <<>> \in Seq(Conns \cup {Closed})
        OBVIOUS
    <2>2. tracked' \in SUBSET Conns
        BY <1>1, ConnectionsAreAnnounced DEF ServerInv, Types
    <2> QED
        BY <1>1, <2>1, <2>2 DEF ServerInv, Types, streams
<1>4. Accepts'
    BY <1>1, EmptyElements DEF ServerInv, Accepts
<1>5. ServerIsThere' /\ Settled'
    BY <1>1 DEF ServerInv, ServerIsThere, Settled, streams
<1>6. \A d \in Conns : ConnectionInv(d)'
    BY <1>1, <1>2, AnnouncedAreNew, EmptyElements
       DEF ServerInv, Types, ConnectionInv, NewConnection, OpenConnection,
           StoppedConnection, Open, HasEnded, streams
<1> QED
    BY <1>3, <1>4, <1>5, <1>6 DEF ServerInv

\* It stops, and closes the connections, new ones too.
LEMMA ServerStopsKeepsInv ==
    ASSUME ServerInv, ServerStops
    PROVE  ServerInv'
<1> DEFINE open == (tracked \cup Announced) \ told
<1>1. /\ UNCHANGED <<backlog, actions, stream, entry, loop>> /\ UNCHANGED streams
      /\ Closed \in ToSet(events)
      /\ woken /\ woken' = FALSE /\ events' = <<>> /\ tracked' = {} /\ told' = {}
      /\ connection' = [c \in Conns |-> IF c \in Announced THEN "open" ELSE connection[c]]
      /\ server' = "stopped"
      /\ connection_actions' = connection_actions \cup open
      /\ connection_signalled' = connection_signalled \cup open
      /\ loop = "process"
    BY DEF ServerStops, OpenConnections, Runs, registry
<1>2. server = "open" /\ entry[Listener] = "closed"
    BY <1>1 DEF ServerInv, ServerIsThere, Accepts
<1>3. Types'
    <2>1. <<>> \in Seq(Conns \cup {Closed})
        OBVIOUS
    <2>2. open \in SUBSET Conns
        BY ConnectionsAreAnnounced DEF ServerInv, Types
    <2> QED
        BY <1>1, <2>1, <2>2 DEF ServerInv, Types, streams
<1>4. Accepts'
    BY <1>1, EmptyElements DEF ServerInv, Accepts
<1>5. ServerIsThere' /\ Settled'
    BY <1>1, <1>2 DEF ServerInv, ServerIsThere, Settled, streams
<1>6. \A d \in Conns : ConnectionInv(d)'
    BY <1>1, <1>2, AnnouncedAreNew, EmptyElements
       DEF ServerInv, Types, ConnectionInv, NewConnection, OpenConnection,
           StoppedConnection, Open, HasEnded, streams
<1> QED
    BY <1>3, <1>4, <1>5, <1>6 DEF ServerInv

-----------------------------------------------------------------------------
(* The theorems.                                                           *)

\* The registry starts in one of its initial states, and so does the server.
LEMMA ServerInitInv == Init => R!Init /\ RP!RegistryInv /\ ServerInv
<1> SUFFICES ASSUME Init PROVE R!Init /\ RP!RegistryInv /\ ServerInv
    OBVIOUS
<1>1. R!Init
    BY DEF Init, ListenerInit
<1>2. RP!Init
    BY <1>1 DEF R!Init, R!Nothing, RP!Init, RP!Nothing
<1>3. RP!RegistryInv
    BY <1>2, RP!InitInv
<1>4. Types
    <2>1. /\ <<>> \in Seq(Conns) /\ <<>> \in Seq({Close})
          /\ <<>> \in Seq(Conns \cup {Closed}) /\ <<>> \in Seq({Recv, Closed})
        OBVIOUS
    <2> QED
        BY <2>1 DEF Init, ListenerInit, Types
<1>5. Accepts /\ ServerIsThere /\ Settled
    BY <1>1, EmptyElements DEF Init, ListenerInit, Accepts, ServerIsThere, Settled, R!Init
<1>6. \A c \in Conns : ConnectionInv(c)
    BY EmptyElements DEF Init, ListenerInit, ConnectionInv, NewConnection, OpenConnection,
       StoppedConnection, Open, HasEnded
<1> QED
    BY <1>1, <1>3, <1>4, <1>5, <1>6 DEF ServerInv

\* Every step of the server keeps the invariant, while the registry keeps its
\* own.
LEMMA ServerNextInv ==
    ASSUME ServerInv, RP!RegistryInv, [Next]_vars
    PROVE  ServerInv'
<1>1. CASE BindServer \/ BindServerFails
    BY <1>1, BindKeepsInv, BindFailsKeepsInv
<1>2. ASSUME NEW c \in Conns, Connect(c), UNCHANGED http
      PROVE  ServerInv'
    BY <1>2, ConnectKeepsInv
<1>3. CASE (Act \/ IoError \/ Take \/ AcceptBlocked \/ EndHandle) /\ UNCHANGED http
    BY <1>3, ListenerKeepsInv
<1>4. CASE Accept /\ UNCHANGED http
    BY <1>4, AcceptKeepsInv
<1>5. CASE OnActionClose /\ UNCHANGED http
    BY <1>5, OnActionCloseKeepsInv
<1>6. ASSUME NEW c \in Conns, StreamIsReady(c) PROVE ServerInv'
    BY <1>6, StreamIsReadyKeepsInv
<1>7. ASSUME NEW c \in Conns, StreamCloses(c) PROVE ServerInv'
    BY <1>7, StreamClosesKeepsInv
<1>8. ASSUME NEW c \in Conns, NEW received \in {<<>>, <<Recv>>}, NEW end \in BOOLEAN,
             StreamHandles(c, received, end)
      PROVE  ServerInv'
    BY <1>8, StreamHandlesKeepsInv
<1>9. ASSUME NEW c \in Conns, ConnectionEnds(c) PROVE ServerInv'
    BY <1>9, ConnectionEndsKeepsInv
<1>10. ASSUME NEW c \in Conns, ConnectionHandles(c) PROVE ServerInv'
    BY <1>10, ConnectionHandlesKeepsInv
<1>11. CASE ServerHandles
    BY <1>11, ServerHandlesKeepsInv
<1>12. CASE ServerStops
    BY <1>12, ServerStopsKeepsInv
<1>13. CASE LoopStep
    BY <1>13, LoopStepKeepsInv
<1>14. CASE UNCHANGED vars
    <2>1. /\ UNCHANGED <<backlog, actions, events, woken, stream>> /\ UNCHANGED http
          /\ UNCHANGED entry /\ UNCHANGED loop
        BY <1>14 DEF vars, registry, listener
    <2>2. Settled' /\ actions' \in Seq({Close})
        BY <2>1 DEF ServerInv, Settled, Types, http, connections, streams
    <2> QED
        BY <2>1, <2>2, NothingForTheServer
<1> QED
    BY <1>1, <1>2, <1>3, <1>4, <1>5, <1>6, <1>7, <1>8, <1>9, <1>10, <1>11, <1>12,
       <1>13, <1>14 DEF Next, ActorStep, ListenerStep

\* The two invariants hold throughout.
LEMMA ServerInvariant == Spec => [](ServerInv /\ RP!RegistryInv)
<1>1. Init => ServerInv /\ RP!RegistryInv
    BY ServerInitInv
<1>2. ServerInv /\ RP!RegistryInv /\ [Next]_vars => (ServerInv /\ RP!RegistryInv)'
    BY ServerNextInv, ServerUsesRegistry, RegistryStep
<1> QED
    BY <1>1, <1>2, PTL DEF Spec

\* For any number of connections the TCP listener implements the protocol of
\* the registry, whatever the HTTP server does with it.
THEOREM ServerImplementsRegistry == Spec => UsesRegistryProperly
<1>1. Init => R!Init
    BY ServerInitInv
<1>2. ServerInv /\ [Next]_vars => [R!Next]_R!vars
    BY ServerUsesRegistry
<1> QED
    BY <1>1, <1>2, ServerInvariant, PTL DEF Spec, UsesRegistryProperly, R!Spec

\* All the actors keep to their types, and mail waits only for actors that are
\* there.
THEOREM ServerTypeCorrect == Spec => []TypeOK
<1>1. RP!RegistryInv => R!TypeOK
    BY DEF RP!RegistryInv, RP!TypeOK, R!TypeOK, RP!Dirs, R!Dirs
<1>2. ServerInv /\ R!TypeOK => TypeOK
    <2> SUFFICES ASSUME ServerInv, R!TypeOK PROVE TypeOK
        OBVIOUS
    <2>1. ListenerTypeOK
        BY DEF ServerInv, Types, Accepts, ListenerTypeOK
    <2>2. /\ told \subseteq tracked
          /\ connection_actions \cup connection_signalled
                \subseteq {c \in Conns : connection[c] = "open"}
          /\ stream_actions \cup stream_signalled \subseteq {c \in Conns : Open(c)}
        BY DEF ServerInv, Types, ConnectionInv, NewConnection, StoppedConnection
    <2> QED
        BY <2>1, <2>2 DEF TypeOK, ServerInv, Types, ServerIsThere
<1> QED
    BY <1>1, <1>2, ServerInvariant, PTL

\* No event of a stream is without a reader that is about to run.
THEOREM MailReachesReader == Spec => []MailIsSignalled
<1>1. ServerInv => MailIsSignalled
    BY DEF ServerInv, ConnectionInv, MailIsSignalled
<1> QED
    BY <1>1, ServerInvariant, PTL

\* Between two polls exactly the connections that are there are tracked, and a
\* server that has stopped has left no stream open.
THEOREM TrackedAreThere == Spec => []ConnectionsAreTracked
<1>1. ServerInv => ConnectionsAreTracked
    <2> SUFFICES ASSUME ServerInv, loop = "poll", NEW c \in Conns
                 PROVE  IF server = "stopped"
                        THEN ~Open(c)
                        ELSE /\ c \in tracked <=> connection[c] = "open"
                             /\ c \in tracked <=> stream[c] = "open"
        BY DEF ConnectionsAreTracked
    <2>1. /\ events = <<>> /\ told = {}
          /\ connection_signalled = {} /\ stream_signalled = {}
        BY DEF ServerInv, Settled, ServerIsThere
    <2>2. c \notin ToSet(events) /\ stream_events[c] = <<>> /\ ~HasEnded(c)
        BY <2>1, EmptyElements DEF ServerInv, ConnectionInv, HasEnded
    <2> QED
        BY <2>1, <2>2 DEF ServerInv, Types, ConnectionInv, NewConnection,
           OpenConnection, StoppedConnection, Open
<1> QED
    BY <1>1, ServerInvariant, PTL

\* For any number of connections no readiness of the listener is lost, and the
\* event loop meets no event whose entry is gone.
THEOREM ServerLosesNothing == Spec => [](R!NoLostReadiness /\ R!LoopNeverFails)
<1>1. RP!RegistryInv => R!NoLostReadiness /\ R!LoopNeverFails
    BY DEF RP!RegistryInv, RP!NoLostReadiness, R!NoLostReadiness, RP!LoopNeverFails,
           R!LoopNeverFails
<1> QED
    BY <1>1, ServerInvariant, PTL

\* Whichever of them stops first: what the TCP listener announces, what a
\* stream received and a Close that a connection passes on, the sends between
\* these actors that are unwrapped, are never about to go to one that has
\* stopped.  Nothing is said of requests and responses.
THEOREM SendsFindReceivers == Spec => []ReceiversAreThere
<1>1. ASSUME ServerInv, RP!RegistryInv
      PROVE  ReceiversAreThere
    <2>1. R!InHandler(Listener) => server = "open"
        BY <1>1, RegistryFacts DEF ServerInv, ServerIsThere, R!InHandler
    <2>2. ASSUME NEW c \in Conns
          PROVE  /\ c \in stream_signalled \ stream_actions => connection[c] # "stopped"
                 /\ c \in connection_actions => Open(c)
        BY <1>1 DEF ServerInv, Types, ConnectionInv, NewConnection, OpenConnection,
           StoppedConnection
    <2> QED
        BY <2>1, <2>2 DEF ReceiversAreThere
<1> QED
    BY <1>1, ServerInvariant, PTL

=============================================================================
