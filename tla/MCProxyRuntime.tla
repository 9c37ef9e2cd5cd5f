--------------------------- MODULE MCProxyRuntime ---------------------------
(* Instances of ProxyRuntime for TLC.                                      *)
EXTENDS ProxyRuntime, TLC

CONSTANTS t1, t2, u1

Setting(flows, limit, pending, shared, queued, chunks, ends) ==
    [flows |-> flows, maxFlows |-> limit, maxPending |-> pending, maxTotal |-> shared,
     queueLength |-> queued, maxChunks |-> chunks,
     ends |-> ends]

\* One connection with several chunks under way.
Alone == {Setting({t}, 1, 3, 3, 2, 4, TRUE) : t \in {t1, t2}}
\* Two connections that compete for a flow slot and for one chunk of budget,
\* while the session lasts.
Competing == {Setting({t1, t2}, limit, 1, 1, 1, 1, FALSE) : limit \in 1 .. 2}
\* A UDP association.
Association == Setting({u1}, 1, 1, 1, 1, 0, TRUE)

\* A connection and an association that compete for the only flow slot.
Mixed == {Setting({t, u1}, 1, 1, 1, 1, 1, FALSE) : t \in {t1, t2}}

AllSettings == Alone \cup Competing \cup Mixed \cup {Association}

Symmetry == Permutations(TCPFlows)
=============================================================================
