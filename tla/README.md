# A verification model of stewart

TLA+ modules for the crates of this repository, TLC configurations that check
them on small instances, and TLAPS proofs that hold for every instance.

## The system

stewart is a single-threaded actor runtime. The repository is in the middle of a
change of its API: the core crate `stewart` delivers typed messages to actors by
id, while `stewart-mio`, `stewart-http`, `stewart-quic` and the book under `docs/`
are written against the API before it, in which an actor owns `Mailbox`es and is
woken by a `Signal`. Neither `Mailbox` nor `Signal` exists in the tree any more.

| component | state | operations | talks to |
|---|---|---|---|
| Runtime (`stewart/src/runtime.rs`) | arena of actor entries, run queue | `insert`, `remove`, `send`, `process` (`process_actor`, `borrow`, `unborrow`) | calls handlers, which call it back |
| ActorContainer (`container.rs`, `actor.rs`) | message queue, actor | `push_message`, `process` | Runtime |
| Sender (`sender/sender.rs`) | target id or a chain of maps | `new`, `map`, `send`, `clone` | Runtime::send |
| Registry, ReadyRef (`stewart-mio/src/registry.rs`) | mio poll, arena of (signal, ready state) | `register`, `reregister`, `deregister`, `take`, `update_state`, `poll` | mio, the services, the event loop |
| event loop (`event_loop.rs`) | the event buffer | poll, deliver events, process | Registry, Runtime |
| UDP service (`net/udp.rs`) | action mailbox, send queue, socket | Send, Close, read and write when ready | Registry, its user |
| TCP stream service (`net/tcp/stream.rs`) | the same, read buffer, closed flag | Send, Close, read, write, end of stream | Registry, its user |
| TCP listener service (`net/tcp/listener.rs`) | listening socket | accept, Close | Registry, TCP streams, its user |
| HTTP parser (`stewart-http/src/parser.rs`) | accumulated bytes, line lengths | `consume` | HTTP connection |
| HTTP connection (`connection.rs`) | parser, queue of requests, closed flag | bytes in, requests out, responses in order, Close | TCP stream, HTTP listener, its user |
| HTTP listener (`listener.rs`) | connections, closed flag | connection opened, closed, listener closed | TCP listener, HTTP connections |
| QUIC endpoint (`stewart-quic`) | quinn endpoint | datagrams in | UDP service, quinn |

### What is hard here

* **Re-entrancy.** Nothing is parallel, but a handler gets `&mut Runtime` while its
  own container is out of the arena. It may remove itself or others, send to
  anyone, and call `process` again, so activations nest and an inner one must not
  disturb an outer one.
* **Wakeups.** Everything runs only if it is in the run queue, or has an event
  coming. mio's events are edge-triggered: a readiness that is forgotten, a queue
  that fills after the last event, or an interest that is not renewed means that a
  connection stands still for good.
* **Early exits.** `process` returns at the first internal error; a handler that
  stops takes its mail and its sockets with it.
* **The network.** Bytes arrive in arbitrary pieces, between any two system
  calls, a write takes only part of what it is given, the peer closes at any time.

### What makes each component correct

* Runtime: an actor is queued exactly when it is in the arena with mail, once; the
  queue is fair; no activation enters an actor that is active; no container is
  lost; messages are handled in order, at most once, and dropped only with their
  actor; `process` leaves nothing pending.
* Registry and event loop: no event without an entry, no readiness forgotten
  between an event and the `take` of the service.
* UDP and TCP services: no lost read or write wakeup; data leaves in the order it
  was accepted and arrives in the order it was received, without gaps; end of
  stream is announced after all data.
* HTTP parser: each byte consumed once; the headers do not depend on how the
  bytes are cut into segments.
* HTTP connection: responses leave in the order of the requests, each once.
* HTTP listener: every open connection is tracked, and closed with the listener.

## Modules

| module | what it is |
|---|---|
| `StewartRuntime` | Runtime and ActorContainer, with their invariants, action and liveness properties and the refinement mapping |
| `ActorSystem` | the abstract specification of what the runtime promises to actors |
| `StewartRuntimeProofs` | the proofs about `StewartRuntime` |
| `MioRegistry` | the registry and the event loop, with what every service does with them and a kernel that acts at any time |
| `MioRegistryProofs` | the proofs about `MioRegistry` |
| `UdpSocket` | the UDP service, its socket and its user; instantiates `MioRegistry` |
| `UdpSocketProofs` | the proofs about `UdpSocket` |
| `DatagramPort` | the abstract specification of the UDP service: two queues of datagrams |
| `TcpStream` | the TCP stream service, its socket and its user; instantiates `MioRegistry` |
| `TcpStreamProofs` | the proofs about `TcpStream` |
| `ByteStream` | the abstract specification of the TCP stream service: two streams of bytes |
| `HttpParser` | the HTTP parser as operators, and a definition of requests and fields that does not know it |
| `HttpParserProofs` | lemmas about the operators of `HttpParser`, up to the correctness of one call of `consume` |
| `HttpConnection` | one HTTP connection with its stream, its user and its listener; extends `HttpParser` |
| `HttpConnectionProofs` | the proofs about `HttpConnection`; extends `HttpParserProofs` |
| `HttpExchange` | the abstract specification of an HTTP connection: two ordered queues and the requests between them |
| `TcpListener` | the TCP listener service and its socket; instantiates `MioRegistry` |
| `HttpServer` | the HTTP listener, composed with the TCP listener (extends `TcpListener`) and with the lives of streams and connections |
| `HttpServerProofs` | the proofs about `HttpServer` and the `TcpListener` in it |
| `SequenceLemmas` | what the proofs of the services need of sequences: elements, order, concatenation, `FlattenSeq`, parts |
| `MC...` | the instances for TLC, with the configurations of the same name |

Definitions named `...` with a comment "Mutant of ..." are not part of any
specification. Each is a plausible bug in the definition that follows it, and
makes one of the checked properties fail when it is put in its place.

### StewartRuntime

The state is the arena (`entry`: what `get_mut` finds under an id), the message
queue of each container (`mailbox`), the run queue (`queue`), and the control
state of the nested calls: `stack` holds the actors whose `process_actor`
activation is on the call stack, and `pc` says what the innermost activation
does: it is in the loop of `Runtime::process` ("loop"), in the loop of
`ActorContainer::process` ("drain"), or in user code ("user"), which is main
when the stack is empty and a handler otherwise. `error` is what the call that
the last step completed answered.

User code is free: at each "user" state it may insert, remove any id it was ever
given, send any value to any such id, call `process`, or, in a handler, return
Continue or Break (an error is logged and treated as Break). Each of these is
one action, and so is each iteration step of the two loops. A message has a type,
which is abstracted to the set of actors that accept it (`Accepts`).

Arena keys are generational, so an id is issued once. Trace spans, names and the
warning in `Drop` are left out. A failure of `push_message` on an empty slot
cannot happen, as `send` always fills the slot.

`ActorSystem` has one inbox per actor, a status and the set of active actors. The
mapping forgets the run queue, the order of the stack and the loops.

### MioRegistry

A source stands for itself, its token and the actor that owns it, as the code has
one of each per source. Readiness is a set of directions. It moves from the
kernel (`ready`) into what mio will report (`edges`), into the event buffer
(`batch`), into `TokenEntry::state` (`state`), and into the local variable of the
handler that took it (`taken`). mio is edge-triggered: an edge is made when a
source becomes ready or is (re)registered while it is, and never again before
the source was used until it would block. (Linux reports more often, when further
data arrives. The model keeps to what mio promises, as registry.rs:65-67 does.)

`loop` says where `run_event_loop` is: in `process`, in `poll`, or delivering
events. An error of `poll` or of `process` ends it (`PollFails`, `ProcessFails`), as
`run_event_loop` returns with it (event_loop.rs:12, 25, 35). `process` is reduced to what the services need of it: one handler at a
time, of an actor that was signalled. `Register`, `Reregister`, `Deregister`,
`Take`, `Poll` and `Deliver` are the functions of registry.rs. What a handler may
do between `Take` and its return (`Exhaust`, `Blocked`, `EndOfStream`,
`NothingToWrite`, `EndHandler`) is the protocol that the services have to follow;
it is a specification of them, and `UsesRegistryProperly` in `UdpSocket` and
`TcpStream` checks that they implement it.

The event buffer holds `Capacity` events (256 in the code); an epoll-like kernel
hands out the others in a later poll. An event may carry one direction or both.

The weak references of `RegistryRef` are assumed to be alive: `run_event_loop`
borrows the registry for as long as it runs.

### UdpSocket and TcpStream

Every action is an action of `MioRegistry` (`R!...`) in conjunction with what the
service does with its data, and `R`'s `ready` is computed from the kernel's
buffers. The kernel may act between any two calls of the service: that is where
the read and write loops could go wrong. Datagrams, and connections at the
listener, may also arrive between bind and the registration. The handler's order is that of the code:
all actions, `take`, the read loop, the write loop, the interest, and for a
stream the announcement of its end.

`TcpStream` has byte-wise data: a read gives any number of the bytes that are
there and that the buffer has space for, a write takes any part of the message at
the head of the queue. `space` is the length of `Service::buffer`, with its three
sizes as constants.

`DatagramPort` and `ByteStream` see only the accepted and not yet transmitted
data, the received and not yet taken data, whether the service is open and, for a
stream, whether its end has come and was told. Closing cuts both directions off at
any point, which is what `Close` does in the code: it drops what is queued.

### HttpParser and HttpConnection

Bytes are CR, LF, colon, and letters; a space is what the parser puts in for a CR
in the middle of a line. The parser's state is that of the code: accumulated
data, the lengths of lines, where the last line ended, and whether a CR is held
back. The reference goes the other way: from the text of a request to its lines
and fields, by position. In it a CR right before an LF belongs to the LF and every
other is a space (`WithSpaces`), as the comment at parser.rs:53 has it. The code
does so only where no CR follows another (finding 4): `HeadersAreParsed` is about
the text with each run of CRs reduced to one (`SingleCrs`), and
`LoneCrsAreSpaces` about the text itself.

The connection's handler is one action per iteration of its loops and per byte of
a segment (`pc` is the loop that it is in, `scanned` what the running call of
`consume` has seen). The data of a request is kept with it until it is handed
over (`text`), so that `HeadersAreParsed` can compare; it has no other use. The
loop around `consume` does not end unless the segment ends with a request
(finding 3), so no request is ever put together from two segments, and the parser
is clean between segments: that is what the code does, not a bound of the model.

The stream, the user and the listener act between two handlers of the
connection. A stream is gone, with its mailbox, once it has taken Close, and it
does not say so (TcpStream). The user may answer any request it has taken, in
any order and more than once, or leave; as the sender of a request can be passed
on, answers may come after that, too. What it has not taken by then is never
taken: it stays in `http_events` as a trace of that, where the code drops it. A send to one that is gone is unwrapped
where the code unwraps it (`pc = "panicked"`).

`HttpExchange` has the headers not handed over, those handed over and not taken,
for each pending request its first response, and the responses under way. Closing
drops what is not handed over and not responded to; responses are cut off with
the stream.

### TcpListener and HttpServer

`TcpListener` is built like the other services: its `ready` is whether the kernel
has a connection in its backlog, and connections are completed between any two
calls of accept. An accepted stream is announced with a mailbox that has no
signal.

`HttpServer` adds the HTTP listener (`server`, `tracked`, `told`), and for each
connection what a stream and a connection actor do to each other and to the HTTP
listener: a stream that is ready, sends, ends or closes; a connection that ends
or is told to close. Requests and data are in `HttpConnection` and `TcpStream`.
Handlers other than that of the TCP listener make no system call here and are one
step. They take turns in any order, of which that of the run queue is one;
`process` returns when none is signalled. A stream is ready only when the event
loop delivers events.

`Act` closes the TCP listener through the sender that `tcp::bind` returned. In
this crate only the HTTP listener has it, and sends Close when it has been told
that the TCP listener is closed, so today nobody closes it and `ServerStops` never
comes. It is modelled because the code is written for it.

## Runs

| run | module, configuration | instance | shows |
|---|---|---|---|
| `runtime` | MCStewartRuntime | 3 actors, 3 messages of 2 types, mailboxes of 2, process calls nested 4 deep (a 4th call finds all actors taken) | all invariants, `OkMeansDrained`, `NoOvertaking`, refinement of `ActorSystem` |
| `runtime_fair` | MCStewartRuntimeFair | the same with 2 levels | liveness |
| `runtime_early_return` | MCStewartRuntimeDrain | mailboxes of 1 | finding 1 |
| `mio_registry` | MCMioRegistry | 2 sources, an event buffer for 1 | no lost readiness, no event without its entry, owners of ready states signalled |
| `udp_socket` | MCUdpSocket | 2 datagrams, 2 received, 2 waiting, a kernel buffer for 2 | protocol of the registry, refinement of `DatagramPort`, liveness |
| `tcp_stream` | MCTcpStream | 2 bytes, 3 received, messages of 0 and 2 bytes, 2 of them waiting, a kernel buffer for 2, buffer sizes 1/2/1 | refinement of `ByteStream`, also with interrupted reads |
| `tcp_stream_fair` | MCTcpStreamFair | 2 received bytes, all alike, else the same, no interrupted reads | protocol of the registry, liveness |
| `tcp_stream_interrupted` | MCTcpStreamInterrupted | interrupted reads | finding 2 |
| `http_connection` | MCHttpConnection | any first segment of up to 5 bytes with up to 2 requests, 2 kinds of later ones, 2 of them waiting; 3 requests, 2 answers to each out of 2, one response under way | parsing, nothing left undone, refinement of `HttpExchange`, liveness |
| `http_parser_trims` | MCHttpConnectionTrims | the same | finding 3 |
| `http_parser_crs` | MCHttpConnectionCrs | the same | finding 4 |
| `http_server` | MCHttpServer | 3 connections | no event without a reader, exact tracking, no announcement or close to one that has stopped (`ReceiversAreThere`), protocol of the registry, liveness |

The bounds suffice for the interesting cases. Three actors are an actor, one that
disturbs it, and one that waits for its turn between them; with ids that are
never reused, a fourth adds no new relation. Two messages in a mailbox tell first
from last. With two sources and room for one event, a batch is delivered while
another source is waiting, reregistered or deregistered. A kernel buffer of two
is empty, partly filled (so that a message of two bytes is cut) and full; a read
buffer of two with three bytes arriving is filled exactly, grown, split, and
reused both with and without the minimum of space left. Five bytes make a
request line, a field and the empty line, with LF or CR LF and CRs at odd
places, or two requests; a longer request with a CR inside a field is among the
later segments. Three requests are one whose turn it is, one that is answered too
early, and one that comes meanwhile. Three connections are one that is
tracked, one that ends and one that is being announced.

`MaxMailbox`, `MaxDepth`, `MaxIncoming`, `MaxOutgoing`, `MaxEvents`, `MaxAnswers`,
`MaxResponses`, `MaxRequests`, `MaxPerSegment` and `MaxData` are bounds
of the model and not of the code: they appear only in the guards of what user
code and the network do. `MaxEvents` also holds back the next activation of the
stream while its user, who was signalled before it, has that many events.
`MaxData` cuts off the parser that takes the same segment again and again, and
stops the connection there.

Deadlock is checked for the safety of the runtime: main can always call `process`.
It is not checked in `runtime_fair`, where the program ends with an error of
`process`, nor for the services, because there an I/O error, which the code unwraps, or
an error of `poll` ends the program, nor for the HTTP connection, which stops.

The symmetry of the `runtime` and `mio_registry` runs exchanges actors, messages
and sources that no definition tells apart, and is used for safety only.

### Fairness

* Runtime: the loops of `process` run on (weak fairness of `ProcessStep`); a
  handler returns in the end (strong fairness of `HandlerReturn`, as the calls it
  makes come and go); main calls `process` again and again as long as it returns
  Ok, as `run_event_loop` does. After an error that returns (event_loop.rs:12, 35),
  and with it the program: `FairSpec` takes no step once main has got an error
  (`ProgramFailed`). So `QueuedActorIsServed` and `MessagesAreConsumed` say that the
  actor is served or the message consumed, or else the program has failed, and
  `IsLiveActorSystem` is stated for behaviours in which it never does. Finding 1
  says how easily it does. Nothing is assumed of what handlers send, insert or remove.
  A handler may call `process`, and that may never come back if actors keep sending
  to each other. So "queued actors are served" holds without further assumption,
  while "all mail is consumed" and the liveness of `ActorSystem` are stated under
  the condition that the stack gets empty again and again.
* Services: the event loop and the handlers go on, the kernel transmits what it
  took, and the user takes its events whenever `process` comes back to it again
  and again (strong fairness, from the order of the run queue). `PortIsLive` and
  `StreamIsLive` are stated under the condition that the loop polls again and
  again: an I/O error ends it, and actors that keep signalling each other would
  keep it away from the network for good (event_loop.rs:35). `ConnectionsAreServed`
  has the same condition and needs no more than that the loop and the handlers go on.
* HTTP connection: a connection that is signalled is called, and its handler goes on
  (weak fairness of `HandlerStep`). `ExchangeIsLive` is stated under the condition
  that the handler returns again and again, which finding 3 refutes for some
  segments. Nothing is assumed of the user.

## Proofs

`StewartRuntimeProofs` proves for any set of actors and messages, any acceptance
relation and any bounds (assumptions `AcceptsAssumption`, `BoundsAssumption`):

* `RuntimeInvariant`: `Types /\ RuntimeInv` is inductive, and `TypeCorrect`, which adds
  to the types whom the run queue and the stack may hold, follows.
  The parts need each other. That the run queue holds exactly the actors that are
  in the arena with mail (`QueuedIffPending`) is kept by `unborrow` only because
  an actor that is taken is on the stack once (`NotReentered`) and its mailbox was
  drained; that an actor is entered once follows from `TakenIffRunning` and from
  queued actors being available; `Tail` of the queue forgets one actor only because
  there are no duplicates (`QueueDistinct`); and that a drained or broken off
  activation leaves no mail behind under a stale id needs `StaleIdHasNoMail`.
* from it `WakeupsAreExact`, `QueuedOnce`, `NeverReentered`, `ContainersAreKept`,
  `StaleIdsHaveNoMail`, `BorrowAlwaysSucceeds`, `OkMeansDrainedHolds`,
  `NoOvertakingHolds` and the refinement `RuntimeImplementsActorSystem`, step by step.

The lemmas before them say what `Enqueue`, `Retain`, `Append`, `Tail` and `Front` do to
the elements, the order and the duplicates of a sequence. `Retain` is written as a
recursive function in the order in which `VecDeque::retain` goes, and its
properties are proved by taking a least counterexample (`LeastNat`).

`MioRegistryProofs` proves for any set of sources and any capacity that the
invariants of its run are inductive together: `TypeCorrect`,
`NoReadinessIsLost`, `ReadyStateReachesOwner`, `EventLoopNeverFails`.
`EventsHaveEntries` and `SettledBeforePoll` are the parts that no run lists: when
the loop polls, every ready state was taken and worked off; events are polled only for sources with an interest, those have open entries, and entries go
only while `process` runs, when no event is left to deliver.

`HttpServerProofs` proves for any set of connections (other than `Closed`, which
would be taken for the end: `ConnsAssumption`) `ServerImplementsRegistry`,
`ServerTypeCorrect`, `MailReachesReader`, `TrackedAreThere` and
`SendsFindReceivers` (events of streams, connections and the TCP listener, and
actions to close, find their receiver; requests and responses are not in the
model, and `HttpConnection` shows that their unwrapped sends can fail). It instantiates `MioRegistryProofs`, and the two arguments
lean on each other: that every step of the server is one of the registry's needs
the invariant of the server (a failed unwrap in a stream's handler is none), and
the invariant of the server needs that of the registry (a handler of the listener
runs only while its entry is open). So `ServerInv /\ RegistryInv` is shown to be
inductive, the first step by step, the second by `NextInv` of
`MioRegistryProofs` for the step of the registry that this one is;
`ServerLosesNothing` carries the result back. `ServerInv` says of each connection,
by the state of its actor, who knows of it and what is under way: before it has
one, its stream is open exactly while its announcement waits, and has nothing to
send yet; while it is open, the HTTP listener tracks it, or is gone and has told
it to close; after it stopped, its stream has been told to. `Settled`, that
nobody but streams is in the run queue while events are delivered, is what keeps
a stream from being woken before it has a reader.

`UdpSocketProofs` and `TcpStreamProofs` prove the same of the two services that
`HttpServerProofs` proves of the listener, for any datagrams, bytes, messages,
bounds and sizes of the buffers (`ConstantsAssumption`: messages are sequences of
bytes, and Close is none of them; `BufferAssumption`: the three sizes are
positive). `UdpInv` and `TcpInv` are inductive. Their core is `WriteInterest`: an
interest in writing without anything to write can be there only in the handler
that has just written the last of it, and nothing to write without the interest
never. `SocketUsesRegistry` and `StreamUsesRegistry` then map every step to one of
the registry's. From there on

* `UdpTypeCorrect`, `WritesAreAwaited`, `StreamTypeCorrect`,
  `StreamWritesAreAwaited`, `ReadsHaveSpace` are conjuncts of the invariants or
  follow from them; `ReadBuffer` (the read loop always has room) is what makes the
  last one inductive through reads, growth and splits of the buffer;
* `SocketKeepsProtocol` and `StreamKeepsProtocol` are the protocol of the registry,
  and `SocketLosesNothing` and `StreamLosesNothing` carry the results of
  `MioRegistryProofs` back. Both theorems about the stream are stated for
  `~Interrupts`: the read loop breaks the protocol where a read is interrupted,
  which is finding 2;
* `SocketImplementsPort` and `ServiceImplementsStream` are the refinements of
  `DatagramPort` and `ByteStream`, the latter with reads interrupted or not. They
  need of the sequences that a message partly written and the rest of it are the
  message, and that the bytes that were read, delivered and left in the kernel
  are those that came; `EndIsLast` says that the end comes after them.

`HttpParserProofs` says what the parser makes of a text, byte by byte. `Fits`: the
lengths of the lines are those of the data, one after the other, so that
`take_header` splits it where the lines ended. `Cut(t, lines, line)`: the text `t`
consists of these lines and of what comes after its last LF; it is extended byte
by byte (`CutByte`, `CutLine`), and `LinesAre` shows that the lines that the
reference finds by counting LFs are the same. `Parsed(p, t)`: the parser holds the
lines of `t` with the spaces put in, none of them is empty, and a CR is held back
exactly where the last line ends with one. It holds as long as no CR follows
another; such a CR leaves the parser as it is and is not in `SingleCrs` of the text
either (`SingleCrsGrow`), so that the parser always holds `SingleCrs` of what it got. `RequestIsParsed`: the LF that ends the
header then makes `t` one request, and the header taken is that of the reference.
`BytesAssumption` (`CR # LF`) is all that is assumed of bytes. No induction over
texts is needed, as the steps of `HttpConnection` are the induction.

`HttpConnectionProofs` proves for any segments that are not empty, any bodies other
than Close and None (`ConstantsAssumption`) and any bounds:

* `ConnectionTypeCorrect` and `ConnectionIdleIsSettled`, from `HttpInv`. Its part
  `InOrder` (the requests that were handed over are the first ones, each with its
  own mailbox, and those that the user has not taken are the last of these) is
  needed by the others, `Settled` says what each loop of the handler has emptied.
* `ConnectionHeadersAreParsed`, from `ParseInv`. Its part `Reads` has two cases. In
  the first call of `consume` for a segment the parser holds what was scanned of
  it (`Parsed`). Once a call has come to the end, the same bytes are put into the
  parser again and again (finding 3), and what it holds means nothing; but the
  segment has then no empty line (`Filled`, `Inked`), so that no further header
  can ever end in it.
* `ConnectionImplementsExchange`, step by step. That an answer can only be given to
  a request that the user has taken, and so is seen by `HttpExchange` as given to
  one that is asked, is `Awaits`.

Every invariant and every action property of the passing runs, and every
refinement, is stated by a theorem. Not proved but model-checked: everything with
fairness (`QueuedActorIsServed`, `MessagesAreConsumed`, `IsLiveActorSystem`,
`PortIsLive`, `StreamIsLive`, `ExchangeIsLive`, `ConnectionsAreServed`), as the proof
system has no support for ENABLED. The properties of the four runs that expect a
violation are false.

## Findings

1. `runtime_early_return`: `process` returns at the first internal error and leaves
   the other actors pending, which happens whenever an actor removes itself (or is
   removed) while it is processed. The doc comment says "until none are left
   pending" (runtime.rs:124). The others stay in the run queue, and a
   main that called `process` again would serve them; `run_event_loop` returns
   instead (event_loop.rs:12, 35), with messages unhandled.
2. `tcp_stream_interrupted`: the read loop of a stream ends at `Interrupted` as it
   does at `WouldBlock`, after its readiness was taken. No further event is
   guaranteed.
3. `http_parser_trims`: `consume` returns `None` without trimming what it has taken
   (parser.rs:64; its doc comment speaks of "trimming `bytes` of the consumed
   data"), and the loop at connection.rs:134 goes on while there are bytes: a
   segment that does not end with the end of a header is consumed for ever.
4. `http_parser_crs`: of two CRs in a row the first has no LF, so that by the comment
   at parser.rs:53 it "needs to be counted as a space", but it is dropped: the
   flag that stands for it (parser.rs:35) stands for the second one then. So CR CR LF
   ends a header.

Also noticed, without a run of its own: at the end of a stream `TcpStream`'s service
logs "stopping" (stream.rs:109) and returns Continue (stream.rs:113). It stays until
the user sends Close, and announces the end again whenever it runs; the model does
the same, and `ImplementsStream` shows that nothing else comes after the end.

## Not modelled

* `Sender` is a chain of functions that ends in `Runtime::send`; it has no state and
  no control of its own. `RemoveError` and the texts of errors.
* The text of an HTTP response (connection.rs:200-211).
* `Mailbox` and `Signal`, on which the services are written, are not in the
  repository. They are modelled from their use: a mailbox is a queue that signals
  its owner when something is put into it, a signal puts the actor into the run
  queue.
* mio and the kernel are the environment: what they may do is modelled, not how.
* What happens to a send to an actor that is being processed is modelled (it fails with
  an internal error and the message is lost); the book's "from anywhere on the same
  thread" (your-first-actor.md:52) is about signals and is not held against it.
* A connection reset that discards what the kernel took of the user's bytes.
* QUIC: the crate forwards datagrams to quinn and ignores its answers; what there
  is to say about it would be about quinn.
* devutils and the examples.

## Plan

What is left:

1. The examples as users of the services.
2. A composition of `HttpConnection` with `TcpStream`, in which the stream of the
   connection is the service itself instead of what it may do.
