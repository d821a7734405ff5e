---------------------------- MODULE MioRegistry ----------------------------
(***************************************************************************)
(* The registry and the event loop of `stewart-mio` (registry.rs,          *)
(* event_loop.rs), with the part of the services that uses them: how the   *)
(* readiness of a source travels from the kernel to the actor that owns    *)
(* the source, and what that actor has to do for none of it to get lost.   *)
(*                                                                         *)
(* mio reports events edge-triggered: once when a source becomes ready, or *)
(* is (re)registered while it is, and then not again before it was used    *)
(* until it would block.  The kernel, mio and the Signal that puts the     *)
(* owner of a source into the run queue are external.  A source stands for *)
(* its token and for its owner too, as the code has one of each per        *)
(* source.  What a service does with its data is left to the modules that  *)
(* describe the services; they instantiate this one.                       *)
(***************************************************************************)
EXTENDS FiniteSets, Naturals

CONSTANTS
    Sources, \* sockets, listening or not
    Capacity \* of the event buffer: the events that one poll can return

ASSUME CapacityAssumption == Capacity \in Nat \ {0}

Dirs == {"readable", "writable"}

VARIABLES
    ready,     \* kernel: the directions in which a call would not block
    interest,  \* mio: the registered Interest of a source, {} without one
    edges,     \* mio: readiness that the next poll reports
    entry,     \* the arena of token entries: "none", "open", "leaked", "closed"
    state,     \* TokenEntry::state of each source, the directions that are true
    signalled, \* owners that are in the run queue
    batch,     \* events that the last poll returned and that are still to do
    loop,      \* the event loop: "process", "poll", "deliver", or how it ended
    handler,   \* owners' Actor::handle: "idle", "start" or "drain"
    taken,     \* what is left to do of the ready state a handler took
    ended      \* directions that the owner has found to be at their end

kernel == <<interest, edges, ready>>
vars == <<ready, interest, edges, entry, state, signalled, batch, loop, handler, taken,
          ended>>

TypeOK ==
    /\ ready \in [Sources -> SUBSET Dirs]
    /\ interest \in [Sources -> SUBSET Dirs]
    /\ edges \in [Sources -> SUBSET Dirs]
    /\ entry \in [Sources -> {"none", "open", "leaked", "closed"}]
    /\ state \in [Sources -> SUBSET Dirs]
    /\ signalled \in SUBSET Sources
    /\ batch \in [Sources -> SUBSET Dirs]
    /\ loop \in {"process", "poll", "deliver", "returned", "failed", "panicked"}
    /\ handler \in [Sources -> {"idle", "start", "drain"}]
    /\ taken \in [Sources -> SUBSET Dirs]
    /\ ended \in [Sources -> SUBSET Dirs]
    /\ \A s \in Sources :
          /\ entry[s] # "open" => interest[s] = {} /\ handler[s] = "idle"
          /\ edges[s] \subseteq interest[s]
          /\ handler[s] # "drain" => taken[s] = {}

Nothing == [s \in Sources |-> {}]

\* run_event_loop begins with a process call, for what main has set up.
Init ==
    /\ ready \in [Sources -> {{}, {"writable"}}]
    /\ interest = Nothing
    /\ edges = Nothing
    /\ entry = [s \in Sources |-> "none"]
    /\ state = Nothing
    /\ signalled = {}
    /\ batch = Nothing
    /\ loop = "process"
    /\ handler = [s \in Sources |-> "idle"]
    /\ taken = Nothing
    /\ ended = Nothing

\* Whose handler runs, and how far it is: "start" before it takes the ready
\* state, "drain" after.
Handling(s, at) == loop = "process" /\ handler[s] = at
InHandler(s) == loop = "process" /\ handler[s] # "idle"
Idle == \A s \in Sources : handler[s] = "idle"

-----------------------------------------------------------------------------
(* The kernel.                                                             *)

\* Data or connections arrive, or buffer space becomes free.
BecomeReady(s, d) ==
    /\ d \notin ready[s]
    /\ entry[s] \in {"none", "open"}
    /\ edges' = [edges EXCEPT ![s] = @ \cup ({d} \cap interest[s])]
    /\ UNCHANGED <<interest, entry, state, signalled, batch, loop, handler, taken, ended>>
    /\ ready' = [ready EXCEPT ![s] = @ \cup {d}]

-----------------------------------------------------------------------------
(* RegistryRef and ReadyRef.                                               *)

\* mio's register and reregister: an event follows for what is ready already.
SetInterest(s, dirs) ==
    /\ interest' = [interest EXCEPT ![s] = dirs]
    /\ edges' = [edges EXCEPT ![s] = (@ \cup ready[s]) \cap dirs]

\* RegistryRef::register, by main or by a handler.
Register(s) ==
    /\ loop = "process"
    /\ entry[s] = "none"
    /\ entry' = [entry EXCEPT ![s] = "open"]
    /\ state' = [state EXCEPT ![s] = {}]
    /\ SetInterest(s, {"readable"})
    /\ UNCHANGED <<signalled, batch, loop, handler, taken, ended, ready>>

\* mio refuses: the caller drops the source, and the entry that was made for
\* its token stays in the arena.
RegisterFails(s) ==
    /\ loop = "process"
    /\ entry[s] = "none"
    /\ entry' = [entry EXCEPT ![s] = "leaked"]
    /\ UNCHANGED <<interest, edges, state, signalled, batch, loop, handler, taken, ended>>
    /\ ready' = [ready EXCEPT ![s] = {}]

\* ReadyRef::reregister, by the handler of the source's owner.
Reregister(s, dirs) ==
    /\ InHandler(s)
    /\ SetInterest(s, dirs)
    /\ UNCHANGED <<entry, state, signalled, batch, loop, handler, taken, ended, ready>>

\* Mutant of Deregister: the source is not removed from mio's registry.
DeregisterEntryOnly(s) ==
    /\ InHandler(s)
    /\ entry' = [entry EXCEPT ![s] = "closed"]
    /\ state' = [state EXCEPT ![s] = {}]
    /\ signalled' = signalled \ {s}
    /\ handler' = [handler EXCEPT ![s] = "idle"]
    /\ taken' = [taken EXCEPT ![s] = {}]
    /\ UNCHANGED <<interest, edges, batch, loop, ended>>
    /\ ready' = [ready EXCEPT ![s] = {}]

\* The owner stops: it leaves the runtime, its Drop calls
\* ReadyRef::deregister, and the source is closed.
Deregister(s) ==
    /\ InHandler(s)
    /\ interest' = [interest EXCEPT ![s] = {}]
    /\ edges' = [edges EXCEPT ![s] = {}]
    /\ entry' = [entry EXCEPT ![s] = "closed"]
    /\ state' = [state EXCEPT ![s] = {}]
    /\ signalled' = signalled \ {s}
    /\ handler' = [handler EXCEPT ![s] = "idle"]
    /\ taken' = [taken EXCEPT ![s] = {}]
    /\ UNCHANGED <<batch, loop, ended>>
    /\ ready' = [ready EXCEPT ![s] = {}]

\* Mutant of Take: the state is read and not reset.
TakeKeep(s) ==
    /\ Handling(s, "start")
    /\ handler' = [handler EXCEPT ![s] = "drain"]
    /\ taken' = [taken EXCEPT ![s] = state[s]]
    /\ UNCHANGED <<entry, state, signalled, batch, loop, ended, kernel>>

\* ReadyRef::take
Take(s) ==
    /\ Handling(s, "start")
    /\ handler' = [handler EXCEPT ![s] = "drain"]
    /\ taken' = [taken EXCEPT ![s] = state[s]]
    /\ state' = [state EXCEPT ![s] = {}]
    /\ UNCHANGED <<entry, signalled, batch, loop, ended, kernel>>

-----------------------------------------------------------------------------
(* The event loop.                                                         *)

\* Registry::poll: pending events are moved to the event buffer, as many as
\* it holds.
Poll ==
    /\ loop = "poll"
    /\ \E S \in SUBSET {s \in Sources : edges[s] # {}} :
        /\ \/ Cardinality(S) = Capacity
           \/ Cardinality(S) < Capacity /\ \A s \in Sources \ S : edges[s] = {}
        /\ batch' = [s \in Sources |-> IF s \in S THEN edges[s] ELSE {}]
        /\ edges' = [s \in Sources |-> IF s \in S THEN {} ELSE edges[s]]
    /\ loop' = "deliver"
    /\ UNCHANGED <<entry, state, signalled, handler, taken, interest, ended, ready>>

\* mio's poll fails, as it does when a signal interrupts it: the loop returns
\* the error.
PollFails ==
    /\ loop = "poll"
    /\ loop' = "returned"
    /\ UNCHANGED <<entry, state, signalled, batch, handler, taken, ended, kernel>>

\* Mutant of Deliver: the new state replaces the old one.
DeliverReplace(s, dirs) ==
    /\ loop = "deliver"
    /\ dirs # {} /\ dirs \subseteq batch[s]
    /\ batch' = [batch EXCEPT ![s] = @ \ dirs]
    /\ IF entry[s] \in {"open", "leaked"}
       THEN /\ signalled' = signalled \cup {s}
            /\ state' = [state EXCEPT ![s] = dirs]
            /\ UNCHANGED loop
       ELSE /\ loop' = "failed"
            /\ UNCHANGED <<signalled, state>>
    /\ UNCHANGED <<entry, handler, taken, ended, kernel>>

\* handle and Registry::update_state for an event, of which there may be one
\* per source or one per direction: the owner is signalled, the new state
\* added to what it has not taken yet.  An event without an entry ends the
\* loop with an error.
Deliver(s, dirs) ==
    /\ loop = "deliver"
    /\ dirs # {} /\ dirs \subseteq batch[s]
    /\ batch' = [batch EXCEPT ![s] = @ \ dirs]
    /\ IF entry[s] \in {"open", "leaked"}
       THEN /\ signalled' = signalled \cup {s}
            /\ state' = [state EXCEPT ![s] = @ \cup dirs]
            /\ UNCHANGED loop
       ELSE /\ loop' = "failed"
            /\ UNCHANGED <<signalled, state>>
    /\ UNCHANGED <<entry, handler, taken, ended, kernel>>

\* All events are sent out: Runtime::process is called.
StartProcess ==
    /\ loop = "deliver"
    /\ batch = Nothing
    /\ loop' = "process"
    /\ UNCHANGED <<entry, state, signalled, batch, handler, taken, ended, kernel>>

\* Runtime::process returns an error, of an actor that cannot be given back
\* for instance, and so does the event loop.
ProcessFails ==
    /\ loop = "process"
    /\ Idle
    /\ loop' = "returned"
    /\ UNCHANGED <<entry, state, signalled, batch, handler, taken, ended, kernel>>

\* Runtime::process returns Ok: nobody is in the run queue.
EndProcess ==
    /\ loop = "process"
    /\ Idle
    /\ signalled = {}
    /\ loop' = "poll"
    /\ UNCHANGED <<entry, state, signalled, batch, handler, taken, ended, kernel>>

-----------------------------------------------------------------------------
(* The owner of a source.                                                  *)

\* Something is put into a mailbox of the owner.
Signal(s) ==
    /\ loop = "process"
    /\ entry[s] = "open"
    /\ signalled' = signalled \cup {s}
    /\ UNCHANGED <<entry, state, batch, loop, handler, taken, ended, kernel>>

\* Runtime::process comes to the owner and calls its handler.
StartHandler(s) ==
    /\ loop = "process"
    /\ Idle
    /\ s \in signalled
    /\ entry[s] = "open"
    /\ signalled' = signalled \ {s}
    /\ handler' = [handler EXCEPT ![s] = "start"]
    /\ UNCHANGED <<entry, state, batch, loop, taken, ended, kernel>>

\* A call of the handler uses up what there was.
Exhaust(s, d) ==
    /\ Handling(s, "drain")
    /\ d \in taken[s] \cap ready[s]
    /\ UNCHANGED <<interest, edges, entry, state, signalled, batch, loop, handler, taken, ended>>
    /\ ready' = [ready EXCEPT ![s] = @ \ {d}]

\* The handler's calls go on until one answers WouldBlock.
Blocked(s, d) ==
    /\ Handling(s, "drain")
    /\ d \in taken[s] \ ready[s]
    /\ taken' = [taken EXCEPT ![s] = @ \ {d}]
    /\ UNCHANGED <<entry, state, signalled, batch, loop, handler, ended, kernel>>

\* The handler finds that nothing more will come: it leaves the direction,
\* which stays ready.
EndOfStream(s) ==
    /\ Handling(s, "drain")
    /\ "readable" \in taken[s] \cap ready[s]
    /\ taken' = [taken EXCEPT ![s] = @ \ {"readable"}]
    /\ ended' = [ended EXCEPT ![s] = @ \cup {"readable"}]
    /\ UNCHANGED <<entry, state, signalled, batch, loop, handler, kernel>>

\* The handler has nothing left to write and ends its interest in writing.
NothingToWrite(s) ==
    /\ Handling(s, "drain")
    /\ "writable" \in taken[s]
    /\ taken' = [taken EXCEPT ![s] = @ \ {"writable"}]
    /\ SetInterest(s, {"readable"})
    /\ UNCHANGED <<entry, state, signalled, batch, loop, handler, ended, ready>>

\* The handler returns Continue.
EndHandler(s) ==
    /\ Handling(s, "drain")
    /\ taken[s] = {}
    /\ handler' = [handler EXCEPT ![s] = "idle"]
    /\ UNCHANGED <<entry, state, signalled, batch, loop, taken, ended, kernel>>

\* Any other error of a call is unwrapped: the program ends.
Panic(s) ==
    /\ InHandler(s)
    /\ loop' = "panicked"
    /\ UNCHANGED <<entry, state, signalled, batch, handler, taken, ended, kernel>>

-----------------------------------------------------------------------------

\* What the handler of a service does, in the order of its program.
HandlerStep(s) ==
    \/ Reregister(s, {"readable"}) \/ Reregister(s, Dirs)
    \/ Take(s)
    \/ \E d \in Dirs : Exhaust(s, d) \/ Blocked(s, d)
    \/ EndOfStream(s)
    \/ NothingToWrite(s)
    \/ EndHandler(s)
    \/ Deregister(s)
    \/ Panic(s)

LoopStep ==
    \/ Poll \/ PollFails \/ StartProcess \/ EndProcess \/ ProcessFails
    \/ \E s \in Sources : StartHandler(s) \/ \E dirs \in SUBSET Dirs : Deliver(s, dirs)

Next ==
    \/ \E s \in Sources, d \in Dirs : BecomeReady(s, d)
    \/ \E s \in Sources : Register(s) \/ RegisterFails(s) \/ Signal(s) \/ HandlerStep(s)
    \/ LoopStep

Spec == Init /\ [][Next]_vars

-----------------------------------------------------------------------------
(* Invariants                                                              *)

\* No readiness is forgotten.  Wherever a service waits for a direction and
\* the kernel would let it go on (to more than an end that it has seen), the
\* fact is on its way: in mio, in the event buffer, in the ready state of the
\* token, or with the handler that took it.  As mio does not repeat itself, a
\* direction for which this fails is dead.
NoLostReadiness ==
    \A s \in Sources :
        (ready[s] \cap interest[s]) \ ended[s] \subseteq
            edges[s] \cup batch[s] \cup state[s] \cup taken[s]

\* A ready state that was recorded has an owner who is coming to take it.
StateIsSignalled ==
    \A s \in Sources : state[s] # {} => s \in signalled \/ handler[s] = "start"

\* Every event that was polled has the entry it is for.
EventsHaveEntries ==
    \A s \in Sources : batch[s] # {} => entry[s] = "open" /\ loop = "deliver"

\* Hence no event that lost its entry ends the event loop, although owners
\* stop while there is readiness that they have not been told of.
LoopNeverFails == loop # "failed"

=============================================================================
