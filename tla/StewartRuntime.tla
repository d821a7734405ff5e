-------------------------- MODULE StewartRuntime --------------------------
(***************************************************************************)
(* The single-threaded actor runtime of the `stewart` crate: the run queue *)
(* and the actor arena of Runtime (runtime.rs) and the per-actor message   *)
(* queue of ActorContainer (container.rs).                                 *)
(*                                                                         *)
(* Nothing runs in parallel, but the runtime is re-entrant: a handler gets *)
(* `&mut Runtime` and may insert, remove, send and even call process again *)
(* while its own container is taken out of the arena.  The interleaving    *)
(* that matters is therefore the one of the call stack: `stack` holds the  *)
(* actors whose process_actor activation is on it, innermost last, and     *)
(* `pc` says which loop the innermost activation is in.                    *)
(***************************************************************************)
EXTENDS Naturals, SequencesExt

CONSTANTS
    Ids,        \* arena keys; thunderdome never hands out the same one twice
    Messages,   \* message values of all types
    Accepts,    \* Accepts[id]: the values whose type is A::Message of id's actor
    MaxMailbox, \* bound: longest message queue user code builds up
    MaxDepth    \* bound: deepest nesting of process calls

ASSUME AcceptsAssumption == Accepts \in [Ids -> SUBSET Messages]
ASSUME BoundsAssumption == MaxMailbox \in Nat /\ MaxDepth \in Nat

VARIABLES
    entry,    \* the arena: what get_mut finds under each id
    mailbox,  \* ActorContainer::queue of each id, wherever the container is
    queue,    \* Runtime::queue
    stack,    \* actors being processed, outermost first
    pc,       \* "user": main or the handler of Last(stack) runs
              \* "loop": Runtime::process is about to pop the run queue
              \* "drain": ActorContainer::process of Last(stack) is about to pop
    error     \* the error the call completed by the last step returned

vars == <<entry, mailbox, queue, stack, pc, error>>

Entries == {"Unissued",  \* the id has not been handed out yet
            "Available", \* entry with container = Some
            "Taken",     \* entry with container = None
            "Removed"}   \* the entry is gone, the id is stale

Errors == {"None", "NotFound", "WrongType", "Unavailable",
           "BorrowError", "UnborrowError"}

Types ==
    /\ entry \in [Ids -> Entries]
    /\ mailbox \in [Ids -> Seq(Messages)]
    /\ queue \in Seq(Ids)
    /\ stack \in Seq(Ids)
    /\ pc \in {"user", "loop", "drain"}
    /\ pc = "drain" => stack # <<>>
    /\ error \in Errors

\* What waits can be borrowed, what is being processed is not in the arena.
TypeOK ==
    /\ Types
    /\ queue \in Seq({id \in Ids : entry[id] = "Available"})
    /\ stack \in Seq({id \in Ids : entry[id] \in {"Taken", "Removed"}})

Init ==
    /\ entry = [id \in Ids |-> "Unissued"]
    /\ mailbox = [id \in Ids |-> <<>>]
    /\ queue = <<>>
    /\ stack = <<>>
    /\ pc = "user"
    /\ error = "None"

-----------------------------------------------------------------------------
(* Helpers of the runtime                                                  *)

Live(id) == entry[id] \in {"Available", "Taken"}

Running(id) == id \in Range(stack)

\* Mutants of Enqueue: no check for a second entry; an actor that is waiting
\* already goes to the end again; the newest wakeup is served first.
EnqueueTwice(q, id) == Append(q, id)
EnqueueMoved(q, id) == Append(Remove(q, id), id)
EnqueueFirst(q, id) == IF Contains(q, id) THEN q ELSE <<id>> \o q

\* Runtime::enqueue: at the end, unless it is there already.
Enqueue(q, id) == IF Contains(q, id) THEN q ELSE Append(q, id)

\* queue.retain(|i| *i != id.index), front to back.  A recursive function and
\* not SelectSeq, whose definition the proof system does not expand.
Retain(q, id) ==
    LET kept[n \in 0..Len(q)] ==
            IF n = 0 THEN <<>>
            ELSE IF q[n] = id THEN kept[n - 1] ELSE Append(kept[n - 1], q[n])
    IN  kept[Len(q)]

\* ActorContainer::push_message with a message of the actor's type.
PushMessage(id, m) == mailbox' = [mailbox EXCEPT ![id] = Append(@, m)]

\* A call of user code returns to user code with the given error.
Return(e) == pc' = pc /\ error' = e

-----------------------------------------------------------------------------
(* Calls of user code: main when the stack is empty, else the handler of   *)
(* the innermost actor.                                                    *)

\* Runtime::insert
Insert(id) ==
    /\ pc = "user"
    /\ entry[id] = "Unissued"
    /\ entry' = [entry EXCEPT ![id] = "Available"]
    /\ Return("None")
    /\ UNCHANGED <<mailbox, queue, stack>>

\* Mutant of RemoveActor: the run queue is not cleaned.
RemoveActorLeaveQueued(id) ==
    /\ pc = "user"
    /\ entry[id] # "Unissued"
    /\ IF Live(id)
       THEN /\ entry' = [entry EXCEPT ![id] = "Removed"]
            /\ mailbox' = IF entry[id] = "Available"
                          THEN [mailbox EXCEPT ![id] = <<>>] ELSE mailbox
            /\ Return("None")
       ELSE UNCHANGED <<entry, mailbox>> /\ Return("NotFound")
    /\ UNCHANGED <<queue, stack>>

\* Runtime::remove.  The run queue is cleaned before the arena is looked at.
\* A container that is in the arena is dropped with its entry; one that is
\* taken stays with the process_actor activation that holds it.
RemoveActor(id) ==
    /\ pc = "user"
    /\ entry[id] # "Unissued"
    /\ queue' = Retain(queue, id)
    /\ IF Live(id)
       THEN /\ entry' = [entry EXCEPT ![id] = "Removed"]
            /\ mailbox' = IF entry[id] = "Available"
                          THEN [mailbox EXCEPT ![id] = <<>>] ELSE mailbox
            /\ Return("None")
       ELSE UNCHANGED <<entry, mailbox>> /\ Return("NotFound")
    /\ UNCHANGED stack

\* Mutant of SendError: the actor is not looked up first.
SendErrorUnvalidated(id, m) ==
    CASE entry[id] = "Taken"  -> "Unavailable"
      [] entry[id] # "Taken" /\ m \notin Accepts[id] -> "WrongType"
      [] OTHER                -> "None"

\* The error Runtime::send answers with, "None" when the message is accepted.
SendError(id, m) ==
    CASE ~Live(id)            -> "NotFound"
      [] entry[id] = "Taken"  -> "Unavailable"
      [] entry[id] = "Available" /\ m \notin Accepts[id] -> "WrongType"
      [] OTHER                -> "None"

\* Mutant of Send: push_front instead of push_back on the message queue.
SendFront(id, m) ==
    /\ pc = "user"
    /\ entry[id] # "Unissued"
    /\ IF SendError(id, m) = "None"
       THEN /\ Len(mailbox[id]) < MaxMailbox
            /\ mailbox' = [mailbox EXCEPT ![id] = <<m>> \o @]
            /\ queue' = Enqueue(queue, id)
       ELSE UNCHANGED <<mailbox, queue>>
    /\ Return(SendError(id, m))
    /\ UNCHANGED <<entry, stack>>

\* Mutant of Send: the actor is enqueued before it is looked up.
SendEnqueueFirst(id, m) ==
    /\ pc = "user"
    /\ entry[id] # "Unissued"
    /\ queue' = Enqueue(queue, id)
    /\ IF SendError(id, m) = "None"
       THEN /\ Len(mailbox[id]) < MaxMailbox
            /\ PushMessage(id, m)
       ELSE UNCHANGED mailbox
    /\ Return(SendError(id, m))
    /\ UNCHANGED <<entry, stack>>

\* Runtime::send: the message is pushed and the actor enqueued.
Send(id, m) ==
    /\ pc = "user"
    /\ entry[id] # "Unissued"
    /\ IF SendError(id, m) = "None"
       THEN /\ Len(mailbox[id]) < MaxMailbox
            /\ PushMessage(id, m)
            /\ queue' = Enqueue(queue, id)
       ELSE UNCHANGED <<mailbox, queue>>
    /\ Return(SendError(id, m))
    /\ UNCHANGED <<entry, stack>>

\* User code calls Runtime::process.
CallProcess ==
    /\ pc = "user"
    /\ Len(stack) < MaxDepth
    /\ pc' = "loop"
    /\ error' = "None"
    /\ UNCHANGED <<entry, mailbox, queue, stack>>

-----------------------------------------------------------------------------
(* Runtime::process and process_actor                                      *)

\* Mutant of ProcessDone: `if let` for `while let`, process returns after one
\* actor.
ProcessDoneEarly ==
    /\ pc = "loop"
    /\ pc' = "user"
    /\ error' = "None"
    /\ UNCHANGED <<entry, mailbox, queue, stack>>

\* The queue is empty: process returns Ok to its caller.
ProcessDone ==
    /\ pc = "loop"
    /\ queue = <<>>
    /\ pc' = "user"
    /\ error' = "None"
    /\ UNCHANGED <<entry, mailbox, queue, stack>>

\* Mutant of Borrow: the container stays in the arena while it is processed.
BorrowShared ==
    /\ pc = "loop"
    /\ queue # <<>>
    /\ queue' = Tail(queue)
    /\ stack' = Append(stack, Head(queue))
    /\ pc' = "drain"
    /\ error' = "None"
    /\ UNCHANGED <<entry, mailbox>>

\* pop_front and borrow: the container is taken out of the arena.
Borrow ==
    /\ pc = "loop"
    /\ queue # <<>>
    /\ queue' = Tail(queue)
    /\ IF entry[Head(queue)] = "Available"
       THEN /\ entry' = [entry EXCEPT ![Head(queue)] = "Taken"]
            /\ stack' = Append(stack, Head(queue))
            /\ pc' = "drain"
            /\ error' = "None"
       ELSE /\ pc' = "user"
            /\ error' = "BorrowError"
            /\ UNCHANGED <<entry, stack>>
    /\ UNCHANGED mailbox

\* ActorContainer::process pops the next message and calls the handler.
NextMessage ==
    /\ pc = "drain"
    /\ mailbox[Last(stack)] # <<>>
    /\ mailbox' = [mailbox EXCEPT ![Last(stack)] = Tail(@)]
    /\ pc' = "user"
    /\ error' = "None"
    /\ UNCHANGED <<entry, queue, stack>>

\* Mutant of FinishActor: `?` on the result of container.process, before
\* unborrow gives the container back.
FinishActorNoUnborrow(break) ==
    LET id == Last(stack)
    IN  /\ stack' = Front(stack)
        /\ IF Live(id) /\ ~break
           THEN /\ entry' = [entry EXCEPT ![id] = "Available"]
                /\ pc' = "loop"
                /\ error' = "None"
                /\ UNCHANGED <<mailbox, queue>>
           ELSE /\ mailbox' = [mailbox EXCEPT ![id] = <<>>]
                /\ pc' = "user"
                /\ error' = "UnborrowError"
                /\ UNCHANGED <<entry, queue>>

\* process_actor after container.process returned: unborrow, then remove when
\* the flow is Break, which finds the entry that unborrow just filled.  A
\* failed unborrow drops the container and makes the calling process return
\* its error at once.
FinishActor(break) ==
    LET id == Last(stack)
    IN  /\ stack' = Front(stack)
        /\ IF Live(id)
           THEN /\ entry' = [entry EXCEPT ![id] =
                                IF break THEN "Removed" ELSE "Available"]
                /\ mailbox' = IF break THEN [mailbox EXCEPT ![id] = <<>>]
                                       ELSE mailbox
                /\ queue' = IF break THEN Retain(queue, id) ELSE queue
                /\ pc' = "loop"
                /\ error' = "None"
           ELSE /\ mailbox' = [mailbox EXCEPT ![id] = <<>>]
                /\ pc' = "user"
                /\ error' = "UnborrowError"
                /\ UNCHANGED <<entry, queue>>

\* Mutant of DrainDone: `if let` for `while let`, one message per activation.
DrainDoneEarly ==
    /\ pc = "drain"
    /\ FinishActor(FALSE)

\* The message queue is empty: container.process returns Continue.
DrainDone ==
    /\ pc = "drain"
    /\ mailbox[Last(stack)] = <<>>
    /\ FinishActor(FALSE)

\* The handler returns Continue: back to the message loop.
HandlerContinue ==
    /\ pc = "user"
    /\ stack # <<>>
    /\ pc' = "drain"
    /\ error' = "None"
    /\ UNCHANGED <<entry, mailbox, queue, stack>>

\* The handler returns Break, or an error, which is logged and treated alike.
HandlerStop ==
    /\ pc = "user"
    /\ stack # <<>>
    /\ FinishActor(TRUE)

-----------------------------------------------------------------------------

HandlerReturn == HandlerContinue \/ HandlerStop

ProcessStep == ProcessDone \/ Borrow \/ NextMessage \/ DrainDone

UserCall ==
    \/ \E id \in Ids : Insert(id) \/ RemoveActor(id)
    \/ \E id \in Ids, m \in Messages : Send(id, m)
    \/ CallProcess

Next == UserCall \/ HandlerReturn \/ ProcessStep

Spec == Init /\ [][Next]_vars

\* main's call of process returned an error.  main does not go on then:
\* run_event_loop, like the mains of the examples, hands the error on with `?`.
ProgramFailed == stack = <<>> /\ error \in {"BorrowError", "UnborrowError"}

\* The thread keeps running the loops of process; a handler, whatever it
\* calls, returns in the end unless a process call it makes does not; and
\* main, like run_event_loop, calls process again as long as the last call
\* returned Ok.
Fairness ==
    /\ WF_vars(ProcessStep)
    /\ SF_vars(HandlerReturn)
    /\ WF_vars(stack = <<>> /\ ~ProgramFailed /\ CallProcess)

\* A program that ends when its main loop gets an error.
FairSpec == Init /\ [][~ProgramFailed /\ Next]_vars /\ Fairness

-----------------------------------------------------------------------------
(* Invariants                                                              *)

\* No actor is in the run queue twice, so one wakeup stands for all the
\* messages that arrived before it (enqueue's "Don't double-enqueue").
QueueDistinct == IsInjective(queue)

\* No lost and no idle wakeup: an actor is in the run queue exactly when its
\* container is in the arena with messages in it.  In particular nothing that
\* was removed or is being processed is queued, however calls are nested.
QueuedIffPending ==
    \A id \in Ids :
        Contains(queue, id) <=> entry[id] = "Available" /\ mailbox[id] # <<>>

\* An actor is processed by at most one activation at a time: the handler is
\* never entered again while it runs, not by a nested process call either.
NotReentered == IsInjective(stack)

\* The container of an actor is missing from the arena exactly while its
\* activation is on the stack: none is lost when process returns early, and
\* only a removed actor is still on the stack with its entry gone.
TakenIffRunning ==
    \A id \in Ids :
        /\ entry[id] = "Taken" => Running(id)
        /\ Running(id) => entry[id] \in {"Taken", "Removed"}

\* A stale id keeps no mail: what is left when an actor goes is dropped, at
\* the latest when its running activation ends.
StaleIdHasNoMail ==
    \A id \in Ids : ~Live(id) /\ ~Running(id) => mailbox[id] = <<>>

\* What is popped from the run queue can always be borrowed: an actor that is
\* removed or taken while it waits leaves no index behind that would make a
\* later process call fail.
BorrowSucceeds == error # "BorrowError"

RuntimeInv ==
    /\ QueueDistinct
    /\ QueuedIffPending
    /\ NotReentered
    /\ TakenIffRunning
    /\ StaleIdHasNoMail

-----------------------------------------------------------------------------
(* Action properties                                                       *)

\* When process returns Ok, no actor that could be processed has a message
\* left ("until none are left pending").
OkMeansDrained ==
    [][pc = "loop" /\ pc' = "user" /\ error' = "None" =>
        \A id \in Ids : Live(id) /\ ~Running(id) => mailbox[id] = <<>>]_vars

\* The run queue is a queue: of two actors waiting in it, the one that came
\* first stays ahead, whatever is sent or removed meanwhile.
Ahead(q, a, b) == \E i, j \in DOMAIN q : i < j /\ q[i] = a /\ q[j] = b

NoOvertaking ==
    [][\A a, b \in Ids : Ahead(queue, a, b) => ~Ahead(queue', b, a)]_vars

-----------------------------------------------------------------------------
(* Liveness                                                                *)

\* An actor in the run queue is taken out of it, processed or removed, unless
\* the program ends with an error first.
QueuedActorIsServed ==
    \A id \in Ids : Contains(queue, id) ~> ~Contains(queue, id) \/ ProgramFailed

\* Messages sent to an actor are all handled, or dropped with the actor, as
\* long as the calls of process that main makes return, and return Ok.  The
\* errors of process calls that handlers make lose nothing: an activation
\* further out serves what they leave.
MessagesAreConsumed ==
    []<>(stack = <<>>) =>
        \A id \in Ids : mailbox[id] # <<>> ~> mailbox[id] = <<>> \/ ProgramFailed

-----------------------------------------------------------------------------
(* Refinement: the runtime implements the system of actors.                *)

Status ==
    [id \in Ids |-> CASE entry[id] = "Unissued" -> "unborn"
                      [] entry[id] = "Removed"  -> "dead"
                      [] OTHER                  -> "alive"]

AS == INSTANCE ActorSystem
      WITH status <- Status, inbox <- mailbox, active <- Range(stack)

\* Every step of the runtime is a step of the abstract system of actors or
\* leaves it as it is: messages are handled first in, first out, at most
\* once, by one activation at a time, and are lost only with their actor.
ImplementsActorSystem == AS!Spec

\* As long as the calls of process that main makes return, and return Ok, the
\* runtime is also as live as the abstract system: mail always leads to an
\* activation, and an activation works through its mail.
IsLiveActorSystem ==
    []~ProgramFailed /\ []<>(stack = <<>>) => AS!Fairness

-----------------------------------------------------------------------------
(* What the documentation says and the code does not do.                   *)

\* "Process all pending signalled actors, until none are left pending"
\* (runtime.rs, doc comment of process), for every return of process.
ProcessLeavesNonePending ==
    [][\/ pc = "loop" /\ pc' = "user"
       \/ error' \in {"BorrowError", "UnborrowError"}
       => queue' = <<>>]_vars

=============================================================================
