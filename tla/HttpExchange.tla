---------------------------- MODULE HttpExchange ----------------------------
(***************************************************************************)
(* What an HTTP/1.1 connection promises to its user: requests are handed   *)
(* over in the order in which they came, each once, and their responses    *)
(* leave in that order too, each once, whenever the user gives them.       *)
(***************************************************************************)
EXTENDS Naturals, Sequences

CONSTANTS
    Bodies, \* of responses
    None    \* no response yet

VARIABLES
    open,     \* whether the connection is served
    unasked,  \* headers that were received, not yet handed over
    asked,    \* headers handed over, not yet taken by the user
    pending,  \* for each request handed over and not responded to, the response
    responses \* on their way to the peer

evars == <<open, unasked, asked, pending, responses>>

Init ==
    /\ open = TRUE
    /\ unasked = <<>> /\ asked = <<>> /\ pending = <<>> /\ responses = <<>>

Request ==
    /\ open
    /\ Len(unasked') = Len(unasked) + 1
    /\ SubSeq(unasked', 1, Len(unasked)) = unasked
    /\ UNCHANGED <<open, asked, pending, responses>>

Ask ==
    /\ open
    /\ unasked # <<>>
    /\ unasked' = Tail(unasked)
    /\ asked' = Append(asked, Head(unasked))
    /\ pending' = Append(pending, None)
    /\ UNCHANGED <<open, responses>>

UserTakes ==
    /\ asked # <<>>
    /\ asked' = Tail(asked)
    /\ UNCHANGED <<open, unasked, pending, responses>>

\* The response to a request that the user has taken.
Answer(i, body) ==
    /\ open
    /\ i \in 1..(Len(pending) - Len(asked))
    /\ pending[i] = None
    /\ pending' = [pending EXCEPT ![i] = body]
    /\ UNCHANGED <<open, unasked, asked, responses>>

Respond ==
    /\ open
    /\ pending # <<>> /\ Head(pending) # None
    /\ responses' = Append(responses, Head(pending))
    /\ pending' = Tail(pending)
    /\ UNCHANGED <<open, unasked, asked>>

Transmit ==
    /\ responses # <<>>
    /\ responses' = Tail(responses)
    /\ UNCHANGED <<open, unasked, asked, pending>>

\* The stream is closed.
CutOff ==
    /\ responses' = <<>>
    /\ UNCHANGED <<open, unasked, asked, pending>>

Close ==
    /\ open
    /\ open' = FALSE
    /\ unasked' = <<>> /\ pending' = <<>>
    /\ UNCHANGED <<asked, responses>>

Next ==
    \/ Request \/ Ask \/ UserTakes \/ Respond \/ Transmit
    \/ CutOff \/ Close
    \/ \E i \in DOMAIN pending, body \in Bodies : Answer(i, body)

Spec == Init /\ [][Next]_evars

\* Requests are handed over, and responses sent when it is their turn.
Fairness == WF_evars(Ask) /\ WF_evars(Respond)

=============================================================================
