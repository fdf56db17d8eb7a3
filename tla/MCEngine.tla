------------------------------ MODULE MCEngine ------------------------------
(***************************************************************************)
(* Two nodes that have each other configured.                              *)
(***************************************************************************)
EXTENDS Engine

LOCAL INSTANCE TLC

CONSTANTS a, b

Both == {<<a, b>>, <<b, a>>}

\* Two handlers of a node overlap.
Overlap == \E n \in Node : \E t, u \in Thread : t # u /\ ~Idle(n, t) /\ ~Idle(n, u)

\* The counters stay away from their limit, few packets are in flight, and
\* handlers overlap before the third frame is sealed: in the first exchanges, and
\* in a rekey of the session they yield.
FewFrames ==
    /\ \A l \in Link : \A s \in Held(l) : s.ctr < MaxCounter
    /\ Cardinality(net) <= 2
    /\ Cardinality(sealed) <= 4
    /\ Overlap => Cardinality(sealed) <= 2

\* Session identifiers are only compared for equality; where the two nodes have
\* the same configuration they are interchangeable too.
SameIds == Permutations(SessionId)
Interchangeable == SameIds \cup Permutations({a, b})

OneWay == {<<b, a>>}
=============================================================================
