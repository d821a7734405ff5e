----------------------------- MODULE ByteStream -----------------------------
(***************************************************************************)
(* What the TCP stream service promises to its user: a stream of bytes in  *)
(* each direction.  The bytes that the user receives are the ones that     *)
(* arrived, in their order and without a gap, and the end of the stream is *)
(* learned of after the last of them.  Closing the stream cuts off what is *)
(* still under way in both directions.                                     *)
(***************************************************************************)
EXTENDS Naturals, Sequences

CONSTANTS
    Bytes,
    Messages \* what the user sends, byte sequences

VARIABLES
    stream,   \* "new", "open" or "closed"
    outgoing, \* accepted from the user, not yet transmitted
    incoming, \* received from the peer, not yet taken by the user
    end       \* of the peer's bytes: "none", "pending", or the user was "told"

bvars == <<stream, outgoing, incoming, end>>

Init == stream = "new" /\ outgoing = <<>> /\ incoming = <<>> /\ end = "none"

Prefixes(s) == {SubSeq(s, 1, n) : n \in 0..Len(s)}

Open ==
    /\ stream = "new"
    /\ stream' = "open"
    /\ UNCHANGED <<outgoing, incoming, end>>

Write(m) ==
    /\ stream = "open"
    /\ outgoing' = outgoing \o m
    /\ UNCHANGED <<stream, incoming, end>>

Transmit ==
    /\ outgoing # <<>>
    /\ outgoing' = Tail(outgoing)
    /\ UNCHANGED <<stream, incoming, end>>

Arrive(b) ==
    /\ stream # "closed" /\ end = "none"
    /\ incoming' = Append(incoming, b)
    /\ UNCHANGED <<stream, outgoing, end>>

PeerEnds ==
    /\ stream # "closed" /\ end = "none"
    /\ end' = "pending"
    /\ UNCHANGED <<stream, outgoing, incoming>>

Receive ==
    /\ \E n \in 1..Len(incoming) : incoming' = SubSeq(incoming, n + 1, Len(incoming))
    /\ UNCHANGED <<stream, outgoing, end>>

LearnEnd ==
    /\ end = "pending" /\ incoming = <<>>
    /\ end' = "told"
    /\ UNCHANGED <<stream, outgoing, incoming>>

Close ==
    /\ stream # "closed"
    /\ stream' = "closed"
    /\ outgoing' \in Prefixes(outgoing)
    /\ incoming' \in Prefixes(incoming)
    /\ UNCHANGED end

Next ==
    \/ Open \/ Transmit \/ PeerEnds \/ Receive \/ LearnEnd \/ Close
    \/ \E m \in Messages : Write(m)
    \/ \E b \in Bytes : Arrive(b)

Spec == Init /\ [][Next]_bvars

\* Once the stream is open bytes move on, and its user learns of its end.
Fairness ==
    /\ WF_bvars(Transmit) /\ WF_bvars(stream # "new" /\ Receive)
    /\ WF_bvars(stream = "open" /\ LearnEnd)

=============================================================================
