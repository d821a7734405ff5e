---------------------------- MODULE ActorSystem ----------------------------
(***************************************************************************)
(* What the stewart runtime promises to the actors written for it, without *)
(* its run queue, its loops and its call stack.  Each actor has an inbox;  *)
(* a message that was accepted is handled once, in the order of            *)
(* acceptance, by an actor that is active; an actor is activated only      *)
(* while it is alive and has mail, by one activation at a time, and an     *)
(* activation ends with an empty inbox or with the end of the actor.       *)
(* Accepted messages disappear in no other way than with their actor.      *)
(***************************************************************************)
EXTENDS Naturals, Sequences

CONSTANTS Ids, Messages

VARIABLES
    status, \* "unborn", "alive" or "dead"
    inbox,  \* accepted, not yet handled messages
    active  \* actors with an activation

avars == <<status, inbox, active>>

Init ==
    /\ status = [id \in Ids |-> "unborn"]
    /\ inbox = [id \in Ids |-> <<>>]
    /\ active = {}

Spawn(id) ==
    /\ status[id] = "unborn"
    /\ status' = [status EXCEPT ![id] = "alive"]
    /\ UNCHANGED <<inbox, active>>

\* An active actor takes no messages: not from itself, and not from those
\* its handler waits for.
Post(id, m) ==
    /\ status[id] = "alive"
    /\ id \notin active
    /\ inbox' = [inbox EXCEPT ![id] = Append(@, m)]
    /\ UNCHANGED <<status, active>>

Activate(id) ==
    /\ status[id] = "alive"
    /\ id \notin active
    /\ inbox[id] # <<>>
    /\ active' = active \cup {id}
    /\ UNCHANGED <<status, inbox>>

Handle(id) ==
    /\ id \in active
    /\ inbox[id] # <<>>
    /\ inbox' = [inbox EXCEPT ![id] = Tail(@)]
    /\ UNCHANGED <<status, active>>

\* The inbox is empty: the actor waits for more mail.
Rest(id) ==
    /\ id \in active
    /\ inbox[id] = <<>>
    /\ active' = active \ {id}
    /\ UNCHANGED <<status, inbox>>

\* The activation ends and the actor with it: it stopped, or was removed
\* while it was active.
Stop(id) ==
    /\ id \in active
    /\ active' = active \ {id}
    /\ status' = [status EXCEPT ![id] = "dead"]
    /\ inbox' = [inbox EXCEPT ![id] = <<>>]

\* Removal by others.  An activation that is under way goes on.
Kill(id) ==
    /\ status[id] = "alive"
    /\ status' = [status EXCEPT ![id] = "dead"]
    /\ inbox' = IF id \in active THEN inbox ELSE [inbox EXCEPT ![id] = <<>>]
    /\ UNCHANGED active

Next ==
    \E id \in Ids :
        \/ Spawn(id)
        \/ \E m \in Messages : Post(id, m)
        \/ Activate(id) \/ Handle(id) \/ Rest(id) \/ Stop(id) \/ Kill(id)

Spec == Init /\ [][Next]_avars

\* Mail leads to an activation, and an activation works through its mail.
Fairness == \A id \in Ids : WF_avars(Activate(id)) /\ WF_avars(Handle(id))

=============================================================================
