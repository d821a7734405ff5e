------------------------ MODULE MioRegistryProofs ------------------------
(***************************************************************************)
(* Proofs about MioRegistry, for any set of sources and any capacity of    *)
(* the event buffer.  The invariants of the runs are inductive as they     *)
(* stand, once they are taken together: that no readiness is lost when the *)
(* next batch is polled depends on the last one being done, that an event  *)
(* finds its entry depends on who may have an interest.                    *)
(***************************************************************************)
EXTENDS MioRegistry, TLAPS

\* Between two polls everything is settled: no owner is left with a ready
\* state that it has not taken, or with a part of it still to do.
SettledBeforePoll == loop = "poll" => state = Nothing /\ taken = Nothing

RegistryInv ==
    /\ TypeOK
    /\ NoLostReadiness
    /\ StateIsSignalled
    /\ EventsHaveEntries
    /\ LoopNeverFails
    /\ SettledBeforePoll

\* The initial states satisfy the invariant.
LEMMA InitInv == Init => RegistryInv
BY DEF Init, RegistryInv, TypeOK, NoLostReadiness, StateIsSignalled,
       EventsHaveEntries, LoopNeverFails, SettledBeforePoll, Nothing, Dirs

\* Whatever is delivered finds its entry open.
LEMMA EventFindsEntry ==
    ASSUME TypeOK, EventsHaveEntries,
           NEW s \in Sources, NEW dirs \in SUBSET Dirs, Deliver(s, dirs)
    PROVE  /\ entry[s] = "open"
           /\ signalled' = signalled \cup {s}
           /\ state' = [state EXCEPT ![s] = @ \cup dirs]
           /\ loop' = loop
BY DEF EventsHaveEntries, Deliver

\* A delivery moves readiness from the batch to the ready state of its owner,
\* who is signalled.
LEMMA DeliverStep ==
    ASSUME RegistryInv,
           NEW s \in Sources, NEW dirs \in SUBSET Dirs, Deliver(s, dirs)
    PROVE  RegistryInv'
<1>1. /\ loop = "deliver" /\ loop' = loop
      /\ batch' = [batch EXCEPT ![s] = @ \ dirs]
      /\ signalled' = signalled \cup {s}
      /\ state' = [state EXCEPT ![s] = @ \cup dirs]
      /\ UNCHANGED <<ready, interest, edges, entry, handler, taken, ended>>
    BY EventFindsEntry DEF RegistryInv, Deliver, kernel
<1>2. TypeOK'
    BY <1>1 DEF RegistryInv, TypeOK
<1>3. NoLostReadiness'
    BY <1>1 DEF RegistryInv, TypeOK, NoLostReadiness
<1>4. StateIsSignalled'
    BY <1>1 DEF RegistryInv, TypeOK, StateIsSignalled
<1>5. EventsHaveEntries'
    BY <1>1 DEF RegistryInv, TypeOK, EventsHaveEntries
<1>6. LoopNeverFails' /\ SettledBeforePoll'
    BY <1>1 DEF RegistryInv, LoopNeverFails, SettledBeforePoll
<1> QED
    BY <1>2, <1>3, <1>4, <1>5, <1>6 DEF RegistryInv

\* Every step of the specification keeps the invariant.  A new interest comes
\* with an event for all that is ready already; a batch is polled after the
\* last one was delivered, and a state taken after the last one was worked off.
LEMMA NextInv == RegistryInv /\ [Next]_vars => RegistryInv'
<1> SUFFICES ASSUME RegistryInv, [Next]_vars PROVE RegistryInv'
    OBVIOUS
<1> USE DEF RegistryInv, TypeOK, NoLostReadiness, StateIsSignalled,
            EventsHaveEntries, LoopNeverFails, SettledBeforePoll, Nothing, Dirs
<1>1. ASSUME NEW s \in Sources, NEW d \in Dirs, BecomeReady(s, d)
      PROVE  RegistryInv'
    BY <1>1 DEF BecomeReady
<1>2. ASSUME NEW s \in Sources, Register(s) PROVE RegistryInv'
    BY <1>2 DEF Register, SetInterest, kernel
<1>3. ASSUME NEW s \in Sources, RegisterFails(s) PROVE RegistryInv'
    BY <1>3 DEF RegisterFails, kernel
<1>4. ASSUME NEW s \in Sources, NEW dirs \in SUBSET Dirs, Reregister(s, dirs)
      PROVE  RegistryInv'
    BY <1>4 DEF Reregister, SetInterest, InHandler
<1>5. ASSUME NEW s \in Sources, Deregister(s) PROVE RegistryInv'
    BY <1>5 DEF Deregister, InHandler
<1>6. ASSUME NEW s \in Sources, Take(s) PROVE RegistryInv'
    BY <1>6 DEF Take, Handling, kernel
<1>7. ASSUME Poll PROVE RegistryInv'
    BY <1>7 DEF Poll
<1>8. ASSUME PollFails PROVE RegistryInv'
    BY <1>8 DEF PollFails, kernel
<1>9. ASSUME StartProcess PROVE RegistryInv'
    BY <1>9 DEF StartProcess, kernel
<1>10. ASSUME EndProcess PROVE RegistryInv'
    BY <1>10 DEF EndProcess, Idle, kernel
<1>11. ASSUME NEW s \in Sources, Signal(s) PROVE RegistryInv'
    BY <1>11 DEF Signal, kernel
<1>12. ASSUME NEW s \in Sources, StartHandler(s) PROVE RegistryInv'
    BY <1>12 DEF StartHandler, Idle, kernel
<1>13. ASSUME NEW s \in Sources, NEW d \in Dirs, Exhaust(s, d)
      PROVE  RegistryInv'
    BY <1>13 DEF Exhaust, Handling
<1>14. ASSUME NEW s \in Sources, NEW d \in Dirs, Blocked(s, d)
      PROVE  RegistryInv'
    BY <1>14 DEF Blocked, Handling, kernel
<1>15. ASSUME NEW s \in Sources, EndOfStream(s) PROVE RegistryInv'
    BY <1>15 DEF EndOfStream, Handling, kernel
<1>16. ASSUME NEW s \in Sources, NothingToWrite(s) PROVE RegistryInv'
    BY <1>16 DEF NothingToWrite, SetInterest, Handling
<1>17. ASSUME NEW s \in Sources, EndHandler(s) PROVE RegistryInv'
    BY <1>17 DEF EndHandler, Handling, kernel
<1>18. ASSUME NEW s \in Sources, Panic(s) PROVE RegistryInv'
    BY <1>18 DEF Panic, InHandler, kernel
<1>19. ASSUME NEW s \in Sources, NEW dirs \in SUBSET Dirs, Deliver(s, dirs)
      PROVE  RegistryInv'
    BY <1>19, DeliverStep
<1>20. ASSUME ProcessFails PROVE RegistryInv'
    BY <1>20 DEF ProcessFails, kernel
<1>21. CASE UNCHANGED vars
    BY <1>21 DEF vars
<1> HIDE DEF RegistryInv, TypeOK, NoLostReadiness, StateIsSignalled,
             EventsHaveEntries, LoopNeverFails, SettledBeforePoll, Nothing
<1> QED
    BY <1>1, <1>2, <1>3, <1>4, <1>5, <1>6, <1>7, <1>8, <1>9, <1>10, <1>11,
       <1>12, <1>13, <1>14, <1>15, <1>16, <1>17, <1>18, <1>19, <1>20, <1>21
       DEF Next, HandlerStep, LoopStep

\* The types alone are inductive, too.
LEMMA NextType == TypeOK /\ [Next]_vars => TypeOK'
<1> SUFFICES ASSUME TypeOK, [Next]_vars PROVE TypeOK'
    OBVIOUS
<1> USE DEF TypeOK, Nothing, Dirs
<1>1. ASSUME NEW s \in Sources, NEW d \in Dirs, BecomeReady(s, d)
      PROVE  TypeOK'
    BY <1>1 DEF BecomeReady
<1>2. ASSUME NEW s \in Sources, Register(s) \/ RegisterFails(s) \/ Signal(s)
      PROVE  TypeOK'
    BY <1>2 DEF Register, RegisterFails, Signal, SetInterest, kernel
<1>3. ASSUME NEW s \in Sources, NEW dirs \in SUBSET Dirs, Reregister(s, dirs)
      PROVE  TypeOK'
    BY <1>3 DEF Reregister, SetInterest, InHandler
<1>4. ASSUME NEW s \in Sources,
             Take(s) \/ EndOfStream(s) \/ EndHandler(s) \/ Panic(s)
      PROVE  TypeOK'
    <2>1. CASE Take(s)
        BY <2>1 DEF Take, Handling, kernel
    <2>2. CASE EndOfStream(s)
        BY <2>2 DEF EndOfStream, Handling, kernel
    <2>3. CASE EndHandler(s)
        BY <2>3 DEF EndHandler, Handling, kernel
    <2>4. CASE Panic(s)
        BY <2>4 DEF Panic, InHandler, kernel
    <2> QED
        BY <1>4, <2>1, <2>2, <2>3, <2>4
<1>5. ASSUME NEW s \in Sources, NEW d \in Dirs, Exhaust(s, d) \/ Blocked(s, d)
      PROVE  TypeOK'
    <2>1. CASE Exhaust(s, d)
        BY <2>1 DEF Exhaust, Handling
    <2>2. CASE Blocked(s, d)
        BY <2>2 DEF Blocked, Handling, kernel
    <2> QED
        BY <1>5, <2>1, <2>2
<1>6. ASSUME NEW s \in Sources, NothingToWrite(s)
      PROVE  TypeOK'
    BY <1>6 DEF NothingToWrite, SetInterest, Handling
<1>7. CASE Poll \/ PollFails \/ StartProcess \/ EndProcess \/ ProcessFails
    BY <1>7 DEF Poll, PollFails, StartProcess, EndProcess, ProcessFails, kernel
<1>8. ASSUME NEW s \in Sources, StartHandler(s)
      PROVE  TypeOK'
    BY <1>8 DEF StartHandler, Idle, kernel
<1>9. ASSUME NEW s \in Sources, NEW dirs \in SUBSET Dirs, Deliver(s, dirs)
      PROVE  TypeOK'
    <2>1. CASE entry[s] \in {"open", "leaked"}
        <3>1. /\ batch' = [batch EXCEPT ![s] = @ \ dirs]
              /\ signalled' = signalled \cup {s}
              /\ state' = [state EXCEPT ![s] = @ \cup dirs]
              /\ UNCHANGED <<ready, interest, edges, entry, loop, handler, taken, ended>>
            BY <1>9, <2>1 DEF Deliver, kernel
        <3>2. state' \in [Sources -> SUBSET Dirs] /\ batch' \in [Sources -> SUBSET Dirs]
            BY <3>1
        <3> QED
            BY <3>1, <3>2
    <2>2. CASE entry[s] \notin {"open", "leaked"}
        BY <1>9, <2>2 DEF Deliver, kernel
    <2> QED
        BY <2>1, <2>2
<1>10. ASSUME NEW s \in Sources, Deregister(s)
       PROVE  TypeOK'
    BY <1>10 DEF Deregister, InHandler
<1>11. CASE UNCHANGED vars
    BY <1>11 DEF vars
<1> HIDE DEF TypeOK, Nothing
<1> QED
    BY <1>1, <1>2, <1>3, <1>4, <1>5, <1>6, <1>7, <1>8, <1>9, <1>10, <1>11
       DEF Next, HandlerStep, LoopStep

\* The invariant holds throughout.
LEMMA Invariant == Spec => []RegistryInv
BY InitInv, NextInv, PTL DEF Spec

\* The state keeps its type; only open entries have interests and handlers.
THEOREM TypeCorrect == Spec => []TypeOK
<1>1. RegistryInv => TypeOK
    BY DEF RegistryInv
<1> QED
    BY <1>1, Invariant, PTL

\* A readiness that a service waits for is always on its way to it.
THEOREM NoReadinessIsLost == Spec => []NoLostReadiness
<1>1. RegistryInv => NoLostReadiness
    BY DEF RegistryInv
<1> QED
    BY <1>1, Invariant, PTL

\* The owner of a recorded ready state is in the run queue, or about to take it.
THEOREM ReadyStateReachesOwner == Spec => []StateIsSignalled
<1>1. RegistryInv => StateIsSignalled
    BY DEF RegistryInv
<1> QED
    BY <1>1, Invariant, PTL

\* The event loop never meets an event without an entry.
THEOREM EventLoopNeverFails == Spec => []LoopNeverFails
<1>1. RegistryInv => LoopNeverFails
    BY DEF RegistryInv
<1> QED
    BY <1>1, Invariant, PTL

=============================================================================
