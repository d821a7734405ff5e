--------------------------- MODULE HttpConnection ---------------------------
(***************************************************************************)
(* The HTTP connection of `stewart-http` (connection.rs): the actor that   *)
(* parses what a TCP stream received, hands the requests to the user and   *)
(* sends the responses, with the three it talks to: the stream, the user,  *)
(* and the listener that opened it.  Those run when the connection does    *)
(* not, as everything is on one thread.                                    *)
(***************************************************************************)
EXTENDS HttpParser

CONSTANTS
    Bodies, None,
    FirstSegments, \* what the stream may deliver when nothing is under way
    Segments,      \* and what it may deliver at any time
    MaxEvents,     \* bound: stream events in the mailbox
    MaxAnswers,    \* bound: responses that the user gives to one request
    MaxResponses,  \* bound: actions waiting for the stream
    MaxRequests,   \* bound: requests not responded to
    MaxPerSegment, \* the most requests in one segment, for that bound
    MaxData        \* bound: bytes that the parser accumulates

VARIABLES
    tcp_events,  \* the mailbox for StreamEvents: segments and Closed
    tcp_actions, \* the stream's mailbox: responses and Close
    stream,      \* the stream: "open", "ended" by its peer, or "closed"
    actions,     \* the mailbox for ConnectionActions: Close
    listener,    \* the opener of the connection: "there" or "gone"
    http_events, \* the requests that the user has not taken from its mailbox
    user,        \* the user: "there" or "gone"
    signalled,   \* whether the connection is in the run queue
    pc,          \* the loop that its handler is in, or "idle", "stopped", "panicked"
    closed,      \* Service::closed
    parser,      \* Service::parser
    rest,        \* RecvEvent::data, what is left of it
    scanned,     \* the bytes of it that the running call of consume has seen
    requests     \* Service::requests

mailboxes == <<tcp_events, tcp_actions, actions, http_events>>
others == <<stream, listener, user>>
received == <<parser, rest, scanned>>
service == <<pc, closed, received, requests>>
vars == <<mailboxes, others, signalled, service>>

Close == "close"
Recv(segment) == [type |-> "recv", data |-> segment]
Closed == [type |-> "closed", data |-> <<>>]
New(id, header, text) == [type |-> "new", id |-> id, header |-> header, text |-> text]
Pending(id, answers) == [type |-> "pending", id |-> id, answers |-> answers]

ASSUME ConstantsAssumption ==
    /\ FirstSegments \cup Segments \subseteq Seq(Bytes) \ {<<>>}
    /\ {None, Close} \cap Bodies = {}

\* Requests are told apart by their mailboxes.
FreshId == CHOOSE id \in 1..(Len(requests) + 1) : id \notin {r.id : r \in ToSet(requests)}

\* How many requests, from the first on, were handed to the user, and the others.
Handed ==
    CHOOSE n \in 0..Len(requests) :
        /\ \A i \in 1..n : requests[i].type = "pending"
        /\ n = Len(requests) \/ requests[n + 1].type = "new"
NewRequests == SubSeq(requests, Handed + 1, Len(requests))

TypeOK ==
    /\ \A event \in ToSet(tcp_events) : 
          event = Closed \/ (event = Recv(event.data) /\ event.data \in Seq(Bytes) \ {<<>>})
    /\ tcp_actions \in Seq(Bodies \cup {Close})
    /\ stream \in {"open", "ended", "closed"}
    /\ actions \in Seq({Close})
    /\ {listener, user} \subseteq {"there", "gone"}
    /\ {signalled, closed} \subseteq BOOLEAN
    /\ pc \in {"idle", "tcp", "consume", "actions", "ask", "resolve", "stopped", "panicked"}
    /\ rest # <<>> <=> pc = "consume"
    /\ scanned \in 0..Len(rest)
    \* the parser's lengths are those of its lines
    /\ parser.last_line <= Len(parser.data)
    /\ LineEnds(parser.lines)[Len(parser.lines)] = parser.last_line
    /\ \A i, j \in DOMAIN requests :
          /\ requests[i].id \in Nat
          /\ requests[i].id = requests[j].id => i = j
          /\ i < j /\ requests[i].type = "new" => requests[j].type = "new"

\* open, in the handler of the listener
Init ==
    /\ tcp_events = <<>> /\ tcp_actions = <<>> /\ stream = "open"
    /\ actions = <<>> /\ listener = "there"
    /\ http_events = <<>> /\ user = "there"
    /\ signalled = FALSE /\ pc = "idle" /\ closed = FALSE
    /\ parser = Clean /\ rest = <<>> /\ scanned = 0 /\ requests = <<>>

-----------------------------------------------------------------------------
(* The stream.                                                             *)

Others == pc \in {"idle", "stopped"}

Quiet ==
    /\ requests = <<>> /\ http_events = <<>> /\ tcp_events = <<>> /\ tcp_actions = <<>>
    /\ user = "there" /\ listener = "there"

StreamEvent(event) ==
    /\ pc = "idle"
    /\ Len(tcp_events) < MaxEvents
    /\ tcp_events' = Append(tcp_events, event)
    /\ signalled' = TRUE
    /\ UNCHANGED <<tcp_actions, actions, listener, http_events, user, service>>

StreamReceives ==
    /\ pc = "idle" /\ stream = "open"
    /\ Len(requests) + MaxPerSegment * Len(tcp_events) < MaxRequests
    /\ \E segment \in IF Quiet THEN FirstSegments ELSE Segments : StreamEvent(Recv(segment))
    /\ UNCHANGED stream

\* The end of the stream, which is announced again and again.
StreamEnds ==
    /\ stream \in {"open", "ended"}
    /\ stream' = "ended"
    /\ StreamEvent(Closed)

\* The stream takes an action; after Close it is gone, with its mailbox.
StreamTakes ==
    /\ Others
    /\ tcp_actions # <<>>
    /\ IF Head(tcp_actions) = Close
       THEN stream' = "closed" /\ tcp_actions' = <<>>
       ELSE UNCHANGED stream /\ tcp_actions' = Tail(tcp_actions)
    /\ UNCHANGED <<tcp_events, actions, listener, http_events, user, signalled, service>>

-----------------------------------------------------------------------------
(* The listener and the user.                                              *)

\* The HTTP listener closes its connections when it stops.
ListenerCloses ==
    /\ pc = "idle"
    /\ listener = "there"
    /\ listener' = "gone"
    /\ actions' = Append(actions, Close)
    /\ signalled' = TRUE
    /\ UNCHANGED <<tcp_events, tcp_actions, stream, http_events, user, service>>

UserTakes ==
    /\ Others
    /\ user = "there"
    /\ http_events # <<>>
    /\ http_events' = Tail(http_events)
    /\ UNCHANGED <<tcp_events, tcp_actions, stream, actions, listener, user, signalled, service>>

\* RequestAction::SendResponse, for any request that the user has taken, and
\* as often as it likes.  As it may have passed the sender on, answers come
\* after it has left, too.
UserAnswers(i, body) ==
    /\ pc = "idle"
    /\ requests[i].type = "pending"
    /\ requests[i].id \notin {r.id : r \in ToSet(http_events)}
    /\ Len(requests[i].answers) < MaxAnswers
    /\ Len(tcp_actions) < MaxResponses
    /\ requests' = [requests EXCEPT ![i].answers = Append(@, body)]
    /\ signalled' = TRUE
    /\ UNCHANGED <<tcp_events, tcp_actions, stream, actions, listener, http_events, user,
                   pc, closed, received>>

\* The user stops and its mailbox is gone: what is in it will never be taken,
\* and so never answered.
UserLeaves ==
    /\ Others
    /\ user = "there"
    /\ user' = "gone"
    /\ UNCHANGED <<mailboxes, stream, listener, signalled, service>>

-----------------------------------------------------------------------------
(* Actor::handle.                                                          *)

\* Runtime::process calls the handler.
StartHandle ==
    /\ pc = "idle"
    /\ signalled
    /\ signalled' = FALSE
    /\ pc' = "tcp"
    /\ UNCHANGED <<tcp_events, tcp_actions, stream, actions, listener, http_events, user,
                   closed, received, requests>>

\* process_tcp
ReceiveTcp ==
    /\ pc = "tcp"
    /\ tcp_events # <<>>
    /\ tcp_events' = Tail(tcp_events)
    /\ IF Head(tcp_events) = Closed
       THEN closed' = TRUE /\ UNCHANGED <<pc, rest>>
       ELSE rest' = Head(tcp_events).data /\ pc' = "consume" /\ UNCHANGED closed
    /\ UNCHANGED <<tcp_actions, stream, actions, listener, http_events, user, signalled,
                   parser, scanned, requests>>

Scanning == pc = "consume" /\ scanned < Len(rest)
Byte == rest[scanned + 1]

\* consume, its loop over the bytes
ConsumeNext ==
    /\ Scanning
    /\ ~EndsHeader(parser, Byte)
    /\ Len(parser.data) < MaxData
    /\ parser' = ConsumeByte(parser, Byte)
    /\ scanned' = scanned + 1
    /\ UNCHANGED <<mailboxes, others, signalled, pc, closed, rest, requests>>

\* consume returns a header, its bytes are trimmed, and handle_recv tracks the
\* request.  The text of the request is there for the properties only.
CompleteHeader ==
    /\ Scanning
    /\ EndsHeader(parser, Byte)
    /\ rest' = SubSeq(rest, scanned + 2, Len(rest))
    /\ requests' = Append(requests, New(FreshId, TakeHeader(parser), SubSeq(rest, 1, scanned + 1)))
    /\ parser' = Clean
    /\ scanned' = 0
    /\ pc' = IF rest' = <<>> THEN "tcp" ELSE "consume"
    /\ UNCHANGED <<mailboxes, others, signalled, closed>>

\* consume returns None: handle_recv calls it again, as there are bytes left.
ConsumeReturnsNone ==
    /\ pc = "consume" /\ scanned = Len(rest)
    /\ scanned' = 0
    /\ UNCHANGED <<mailboxes, others, signalled, pc, closed, parser, rest, requests>>

\* The mailbox is empty: without its stream the connection stops, and what it
\* still has of requests is dropped.
Stop ==
    /\ pc = "tcp" /\ tcp_events = <<>> /\ closed
    /\ pc' = "stopped"
    /\ tcp_actions' = IF stream = "closed" THEN tcp_actions ELSE Append(tcp_actions, Close)
    /\ requests' = <<>> /\ actions' = <<>> /\ signalled' = FALSE
    /\ UNCHANGED <<tcp_events, stream, listener, http_events, user, closed, received>>

EndTcp ==
    /\ pc = "tcp" /\ tcp_events = <<>> /\ ~closed
    /\ pc' = "actions"
    /\ UNCHANGED <<tcp_events, tcp_actions, stream, actions, listener, http_events, user,
                   signalled, closed, received, requests>>

\* A send to the stream fails when it is gone, and the error is unwrapped.
SendToStream(action) ==
    IF stream = "closed"
    THEN pc' = "panicked" /\ UNCHANGED tcp_actions
    ELSE tcp_actions' = Append(tcp_actions, action) /\ UNCHANGED pc

\* process_actions
HandleClose ==
    /\ pc = "actions"
    /\ actions # <<>>
    /\ actions' = Tail(actions)
    /\ SendToStream(Close)
    /\ UNCHANGED <<tcp_events, stream, listener, http_events, user, signalled,
                   closed, received, requests>>

EndActions ==
    /\ pc = "actions" /\ actions = <<>>
    /\ pc' = "ask"
    /\ UNCHANGED <<tcp_events, tcp_actions, stream, actions, listener, http_events, user,
                   signalled, closed, received, requests>>

\* Mutant of AskUser: the request is not marked as handed over.
AskUserAgain ==
    /\ pc = "ask" /\ NewRequests # <<>>
    /\ http_events' = Append(http_events, [id |-> NewRequests[1].id, header |-> NewRequests[1].header])
    /\ UNCHANGED <<tcp_events, tcp_actions, stream, actions, listener, user, signalled,
                   pc, closed, received, requests>>

\* process_requests, first loop: a new request is handed to the user.
AskUser ==
    /\ pc = "ask" /\ NewRequests # <<>>
    /\ LET i == Handed + 1 IN
        IF user = "there"
        THEN /\ http_events' =
                    Append(http_events, [id |-> requests[i].id, header |-> requests[i].header])
             /\ requests' = [requests EXCEPT ![i] = Pending(@.id, <<>>)]
             /\ UNCHANGED pc
        ELSE pc' = "panicked" /\ UNCHANGED <<http_events, requests>>
    /\ UNCHANGED <<tcp_events, tcp_actions, stream, actions, listener, user, signalled,
                   closed, received>>

EndAsk ==
    /\ pc = "ask" /\ NewRequests = <<>>
    /\ pc' = "resolve"
    /\ UNCHANGED <<tcp_events, tcp_actions, stream, actions, listener, http_events, user,
                   signalled, closed, received, requests>>

HeadIsAnswered == requests # <<>> /\ Head(requests).type = "pending" /\ Head(requests).answers # <<>>

\* Mutant of Resolve: the handler returns after one response.
ResolveOnce ==
    /\ pc = "resolve"
    /\ HeadIsAnswered
    /\ stream # "closed"
    /\ tcp_actions' = Append(tcp_actions, Head(Head(requests).answers))
    /\ pc' = "idle"
    /\ requests' = Tail(requests)
    /\ UNCHANGED <<tcp_events, stream, actions, listener, http_events, user, signalled,
                   closed, received>>

\* Second loop: the response to the first request is sent (send_response).
Resolve ==
    /\ pc = "resolve"
    /\ HeadIsAnswered
    /\ SendToStream(Head(Head(requests).answers))
    /\ requests' = Tail(requests)
    /\ UNCHANGED <<tcp_events, stream, actions, listener, http_events, user, signalled,
                   closed, received>>

\* The handler returns Continue.
EndHandle ==
    /\ pc = "resolve" /\ ~HeadIsAnswered
    /\ pc' = "idle"
    /\ UNCHANGED <<tcp_events, tcp_actions, stream, actions, listener, http_events, user,
                   signalled, closed, received, requests>>

-----------------------------------------------------------------------------

HandlerStep ==
    \/ StartHandle \/ ReceiveTcp \/ ConsumeNext \/ CompleteHeader \/ ConsumeReturnsNone
    \/ Stop \/ EndTcp
    \/ HandleClose \/ EndActions \/ AskUser \/ EndAsk \/ Resolve \/ EndHandle

Next ==
    \/ StreamReceives \/ StreamEnds \/ StreamTakes
    \/ ListenerCloses \/ UserTakes \/ UserLeaves
    \/ \E i \in DOMAIN requests, body \in Bodies : UserAnswers(i, body)
    \/ HandlerStep

Spec == Init /\ [][Next]_vars

\* The runtime calls a connection that is signalled, and handlers go on.
FairSpec == Spec /\ WF_vars(HandlerStep)

-----------------------------------------------------------------------------
(* Properties                                                              *)

\* The header of every request is what its text says, wherever spaces are put
\* in, lines end and several requests meet in a segment, and the text is that
\* of one request; a run of CRs is read as one of them.
HeadersAreParsed ==
    \A i \in DOMAIN NewRequests :
        LET text == SingleCrs(NewRequests[i].text) IN
        IsRequest(text) /\ IsHeaderOf(NewRequests[i].header, text)

\* "CR with no NL needs to be counted as a space" (parser.rs): each of them
\* does, those of a run too.
LoneCrsAreSpaces ==
    \A i \in DOMAIN NewRequests :
        LET request == NewRequests[i] IN
        IsRequest(request.text) /\ IsHeaderOf(request.header, request.text)

\* When the handler has returned and no wakeup is to come, nothing is left to
\* do: no event, no action, no request to hand over, and no response to the
\* first of the requests, although the responses to the others wait unseen.
IdleIsSettled ==
    pc = "idle" /\ ~signalled =>
        tcp_events = <<>> /\ actions = <<>> /\ NewRequests = <<>> /\ ~HeadIsAnswered

\* "Suspends and returns if new parsed data is available, trimming `bytes` of
\* the consumed data" (parser.rs): what a call of consume has taken into the
\* parser is not there any more for the next one.
ConsumeTrimsBytes ==
    [][pc = "consume" /\ scanned' = 0 => Len(rest') + scanned <= Len(rest)]_vars

-----------------------------------------------------------------------------
(* Refinement                                                              *)

Served == pc \notin {"stopped", "panicked"}
Unasked == IF Served THEN [i \in DOMAIN NewRequests |-> NewRequests[i].header] ELSE <<>>
Asked == [i \in DOMAIN http_events |-> http_events[i].header]
Unanswered ==
    IF Served
    THEN [i \in 1..Handed |->
             IF requests[i].answers = <<>> THEN None ELSE Head(requests[i].answers)]
    ELSE <<>>
Responses ==
    FlattenSeq([i \in DOMAIN tcp_actions |->
        IF tcp_actions[i] = Close THEN <<>> ELSE <<tcp_actions[i]>>])

Exchange ==
    INSTANCE HttpExchange
    WITH open <- Served, unasked <- Unasked, asked <- Asked, pending <- Unanswered,
         responses <- Responses

\* Requests reach the user and responses the stream in the order in which the
\* requests came, each once.
ImplementsExchange == Exchange!Spec

\* And they do get there, as long as the handler comes to an end.
ExchangeIsLive == []<>(pc \in {"idle", "stopped", "panicked"}) => Exchange!Fairness

=============================================================================
