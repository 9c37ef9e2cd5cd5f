----------------------------- MODULE MCSession -----------------------------
(* Small instances of Session for TLC. *)
EXTENDS Session, TLC

CONSTANTS a, b

Setting(updates, ordered, priorities, queued, packets, senders, closers) ==
    [updates |-> updates, ordered |-> ordered, priorities |-> priorities,
     maxQueued |-> queued, maxPackets |-> packets,
     senders |-> senders, closers |-> closers]

\* Both ends rotate once; packets are lost, repeated and reordered.  The ends
\* are alike, so it is enough that one of them closes.
Crossing == Setting((a :> 1) @@ (b :> 1), FALSE, {FALSE}, 3, 1, {a, b}, {a})
\* One end rotates again while the first rotation may still drain.
Superseding == Setting((a :> 2) @@ (b :> 0), FALSE, {FALSE}, 3, 1, {a, b}, {b})
\* An ordered carrier that lasts, and data of both priorities.
Priority == Setting((a :> 1) @@ (b :> 0), TRUE, {TRUE, FALSE}, 4, 2, {a, b}, {})
\* An ordered carrier, and one end that rotates twice.
Twice == Setting((a :> 2) @@ (b :> 0), TRUE, {FALSE}, 3, 1, {a, b}, {a, b})

\* An ordered carrier that stalls: acknowledgements pile up in front of an update.
Uneven == Setting((a :> 2) @@ (b :> 1), TRUE, {FALSE}, 3, 1, {b}, {})

All == {Crossing, Superseding, Priority, Uneven}
OnlyTwice == {Twice}
=============================================================================
