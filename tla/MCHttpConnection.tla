-------------------------- MODULE MCHttpConnection --------------------------
(* Instance of HttpConnection for TLC.  When nothing is under way any      *)
(* segment of up to MaxFirst bytes may come, with at most two requests;    *)
(* otherwise one with one request, the empty one or one with a field.      *)
EXTENDS HttpConnection

CONSTANTS a, MaxFirst

Received == {CR, LF, Colon} \cup Letters

\* Positions at which a request ends: after an empty line, which may have CRs.
Ends(s) ==
    {i \in DOMAIN s :
        s[i] = LF /\ \E j \in 0..(i - 1) :
            (j = 0 \/ s[j] = LF) /\ \A k \in (j + 1)..(i - 1) : s[k] = CR}

MCFirstSegments ==
    {s \in BoundedSeq(Received, MaxFirst) \ {<<>>} : Cardinality(Ends(s)) <= MaxPerSegment}

MCSegments == {<<LF>>, <<a, CR, LF, CR, a, Colon, LF, LF>>}

=============================================================================
