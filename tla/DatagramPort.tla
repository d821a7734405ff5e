--------------------------- MODULE DatagramPort ----------------------------
(***************************************************************************)
(* What the UDP service promises to its user: two queues of datagrams, one *)
(* from the user to the network and one back.  Nothing overtakes, nothing  *)
(* is lost or made up on the way while the port is open.  Closing it cuts  *)
(* off what is still under way in both directions.                         *)
(***************************************************************************)
EXTENDS Naturals, Sequences

CONSTANT Packets

VARIABLES
    port,     \* "new", "open" or "closed"
    outgoing, \* accepted from the user, not yet transmitted
    incoming  \* received from the network, not yet taken by the user

pvars == <<port, outgoing, incoming>>

Init == port = "new" /\ outgoing = <<>> /\ incoming = <<>>

Open ==
    /\ port = "new"
    /\ port' = "open"
    /\ UNCHANGED <<outgoing, incoming>>

OpenFails ==
    /\ port = "new"
    /\ port' = "closed"
    /\ incoming' = <<>>
    /\ UNCHANGED outgoing

Accept(p) ==
    /\ port = "open"
    /\ outgoing' = Append(outgoing, p)
    /\ UNCHANGED <<port, incoming>>

Transmit ==
    /\ outgoing # <<>>
    /\ outgoing' = Tail(outgoing)
    /\ UNCHANGED <<port, incoming>>

Arrive(p) ==
    /\ port # "closed"
    /\ incoming' = Append(incoming, p)
    /\ UNCHANGED <<port, outgoing>>

Receive ==
    /\ port # "new"
    /\ incoming # <<>>
    /\ incoming' = Tail(incoming)
    /\ UNCHANGED <<port, outgoing>>

Close ==
    /\ port = "open"
    /\ port' = "closed"
    /\ \E n \in 0..Len(outgoing) : outgoing' = SubSeq(outgoing, 1, n)
    /\ \E n \in 0..Len(incoming) : incoming' = SubSeq(incoming, 1, n)

Next ==
    \/ Open \/ OpenFails \/ Transmit \/ Receive \/ Close
    \/ \E p \in Packets : Accept(p) \/ Arrive(p)

Spec == Init /\ [][Next]_pvars

\* Datagrams move on: to the network, and to a user that keeps taking them.
Fairness == WF_pvars(Transmit) /\ WF_pvars(Receive)

=============================================================================
